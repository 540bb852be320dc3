---------------------------- MODULE MonolithProofs ----------------------------
(***************************************************************************)
(* The parts of the monolith that share no state, each proved on its own:  *)
(* the turns of a session, the collection of the index, the quota and the  *)
(* pages of files, the library, and the trip the card asks for.            *)
(***************************************************************************)
EXTENDS Conversation, ContextWindow, VectorIndex, Extraction, KnowledgeBase, TripIntake,
        FiniteSetTheorems, SequenceFacts, TLAPS

(* Conversation.                                                           *)

\* The types the proof needs; how many attempts there are is left out.
CVKinds ==
  /\ session \in {"active", "closed", "deleted"}
  /\ log \in Seq(Message)
  /\ reply \in [Requests -> Replies \cup {"none"}]
  /\ turn \in [Requests -> Turn]
  /\ op \in [at : {"none", "deleting"}, seen : Nat]
  /\ screen \in [Requests -> {"none", "done", "wrong"}]

\* A turn is under way with the lease in its hand, and so is a deletion, of which
\* nobody sees anything before it ends; a deleted session has no turn and no row.
Leased ==
  /\ \A r \in Requests : turn[r].at # "out" => lease = r
  /\ op.at = "deleting" => lease = "operation" /\ op.seen = Len(log) /\ session # "deleted"
  /\ lease = "operation" => op.at = "deleting"
  /\ session = "deleted" => lease = Nobody /\ log = <<>>

\* The reader repairs a card of before the migration, and nothing else.
CardOf(m) == m.role = "assistant" /\ (m.doc = "card" \/ m.body = "recoverable")

\* An answer is what its run replied, with its document, behind its question.
Answers ==
  \A j \in DOMAIN log : log[j].role = "assistant" =>
    /\ log[j].body = reply[log[j].req] /\ log[j].body \in Replies /\ log[j].card = Nobody
    /\ log[j].body \in Documents => log[j].doc = log[j].body
    /\ log[j].body = "recoverable" => log[j].doc \in {"none", "card"}
    /\ \E i \in DOMAIN log : i < j /\ log[i].req = log[j].req /\ log[i].role = "user"

\* A question stands directly behind the card it answers.
AnswersCard(i, card) == i > 1 /\ log[i - 1].req = card /\ CardOf(log[i - 1])
Cards == \A i \in DOMAIN log : log[i].card # Nobody => AnswersCard(i, log[i].card)

\* What a turn that stands somewhere has found out or stored; the lease keeps it true.
Sure(r, at, card) ==
  /\ at \in {"valid", "asking"} /\ card # Nobody /\ Stored(r, "user") = {} =>
       Len(log) > 0 /\ log[Len(log)].req = card /\ CardOf(log[Len(log)])
  /\ at \in {"running", "answering", "emitting", "stopping"} => Stored(r, "user") # {}
  /\ at \in {"answering", "emitting"} => reply[r] # "none"
  /\ at = "emitting" => Stored(r, "assistant") # {}
Turning == \A r \in Requests : Sure(r, turn[r].at, turn[r].card)

Screens ==
  \A r \in Requests :
    /\ screen[r] # "wrong"
    /\ screen[r] = "done" /\ session # "deleted" => Stored(r, "assistant") # {}

CVInv == CVKinds /\ Leased /\ Answers /\ Cards /\ Turning /\ Screens

LEMMA CVStarts == CVInit => CVInv
<1> SUFFICES ASSUME CVInit PROVE CVInv
  OBVIOUS
<1>1. \A r \in Requests : turn[r].at = "out" /\ turn[r] \in Turn
  BY DEF CVInit, Turn, Places
<1>2. turn \in [Requests -> Turn]
  BY <1>1 DEF CVInit
<1>3. CVKinds
  <2>1. reply \in [Requests -> Replies \cup {"none"}] /\ screen \in [Requests -> {"none", "done", "wrong"}]
    BY DEF CVInit
  <2>2. log \in Seq(Message) /\ op \in [at : {"none", "deleting"}, seen : Nat]
    BY DEF CVInit
  <2>3. QED  BY <1>2, <2>1, <2>2 DEF CVInit, CVKinds
<1>4. QED  BY <1>1, <1>3, ConversationAssumption DEF CVInit, CVInv, Leased, Answers, Cards, Turning, Sure, Screens

LEMMA InvImplies == CVInv => DoneIsStored /\ CardsAreAnsweredInTurn
<1> SUFFICES ASSUME CVInv PROVE DoneIsStored /\ CardsAreAnsweredInTurn
  OBVIOUS
<1>0. \A i \in DOMAIN log : log[i] \in Message /\ i \in Nat
  BY DEF CVInv, CVKinds
<1>1. ASSUME NEW r \in Requests, screen[r] = "done", session # "deleted"
      PROVE  \E i \in Stored(r, "user"), j \in Stored(r, "assistant") :
               i < j /\ log[j].body = reply[r] /\ (reply[r] \in Documents => log[j].doc = reply[r])
  <2>1. Stored(r, "assistant") # {}
    BY <1>1 DEF CVInv, Screens
  <2>2. PICK j \in Stored(r, "assistant") : TRUE
    BY <2>1
  <2>3. j \in DOMAIN log /\ log[j].req = r /\ log[j].role = "assistant"
    BY DEF Stored
  <2>4. QED  BY <2>3 DEF CVInv, Answers, Stored
<1>2. DoneIsStored
  BY <1>1 DEF CVInv, Screens, DoneIsStored
<1>3. ASSUME NEW i \in DOMAIN log, log[i].card # Nobody
      PROVE  i > 1 /\ log[i - 1].req = log[i].card /\ Repaired(log[i - 1]).doc = "card"
  <2>1. i > 1 /\ log[i - 1].req = log[i].card /\ CardOf(log[i - 1])
    BY <1>3 DEF CVInv, Cards, AnswersCard
  <2>2. i - 1 \in DOMAIN log /\ log[i - 1] \in Message
    BY <1>0, <2>1 DEF CVInv, CVKinds
  <2>3. Repaired(log[i - 1]).doc = "card"
    <3>1. PICK m \in Message : m = log[i - 1]
      BY <2>2
    <3>2. QED  BY <2>1, <3>1 DEF Repaired, CardOf, Message
  <2>4. QED  BY <2>1, <2>3
<1>4. QED  BY <1>2, <1>3 DEF CardsAreAnsweredInTurn

\* Rows are edited in place: a card that was recognised stays one, and a document
\* that is there stays.
Edits(old, new) ==
  /\ new \in Message /\ new.req = old.req /\ new.role = old.role /\ new.card = old.card /\ new.body = old.body
  /\ \/ new.doc = old.doc
     \/ old.body = "recoverable" /\ old.doc = "none" /\ new.doc = "card"
Edited ==
  /\ log' \in Seq(Message) /\ Len(log') = Len(log)
  /\ \A i \in DOMAIN log : Edits(log[i], log'[i])

LEMMA LogFacts ==
  ASSUME CVKinds
  PROVE  /\ Len(log) \in Nat /\ DOMAIN log = 1..Len(log)
         /\ \A i \in DOMAIN log : log[i] \in Message /\ i \in Nat
  BY DEF CVKinds

LEMMA EditedKeeps ==
  ASSUME CVInv, Edited, reply' = reply
  PROVE  /\ Answers' /\ Cards'
         /\ \A r \in Requests, role \in {"user", "assistant"} : Stored(r, role)' = Stored(r, role)
         /\ \A r \in Requests, at \in Places : \A card : Sure(r, at, card) => Sure(r, at, card)'
<1>1. DOMAIN log' = DOMAIN log /\ DOMAIN log = 1..Len(log) /\ Len(log) \in Nat /\ Len(log') = Len(log)
      /\ \A i \in DOMAIN log : log[i] \in Message /\ i \in Nat
  BY LogFacts DEF Edited, CVInv
<1>2. \A i \in DOMAIN log : Edits(log[i], log'[i])
  BY DEF Edited
<1>3. \A i \in DOMAIN log : CardOf(log[i]) => CardOf(log'[i])
  BY <1>2 DEF Edits, CardOf
<1>4. \A r \in Requests, role \in {"user", "assistant"} : Stored(r, role)' = Stored(r, role)
  BY <1>1, <1>2 DEF Edits, Stored
<1>5. Answers'
  BY <1>1, <1>2 DEF Edits, CVInv, Answers, Documents
<1>6. Cards'
  BY <1>1, <1>2, <1>3 DEF Edits, CVInv, Cards, AnswersCard
<1>7. ASSUME NEW r \in Requests, NEW at \in Places, NEW card, Sure(r, at, card) PROVE Sure(r, at, card)'
  BY <1>1, <1>2, <1>3, <1>4, <1>7 DEF Edits, Sure
<1>8. QED  BY <1>4, <1>5, <1>6, <1>7

\* A step of the turn that has the lease, or takes it.
LEMMA LeasedStep ==
  ASSUME CVInv, NEW r \in Requests, NEW t \in Turn, turn' = [turn EXCEPT ![r] = t],
         session # "deleted", session' \in {session, "active"},
         lease = r \/ lease = Nobody, lease' = IF t.at = "out" THEN Nobody ELSE r, op' = op,
         log' \in Seq(Message), reply' \in [Requests -> Replies \cup {"none"}],
         Answers', Cards', Sure(r, t.at, t.card)',
         \A v \in Requests : Stored(v, "assistant") \subseteq Stored(v, "assistant")',
         screen' \in [Requests -> {"none", "done", "wrong"}],
         \A v \in Requests : \/ screen'[v] \in {screen[v], "none"}
                             \/ v = r /\ screen'[v] = "done" /\ Stored(r, "assistant") # {}
  PROVE  CVInv'
<1>1. turn' \in [Requests -> Turn] /\ turn'[r] = t /\ \A v \in Requests : v # r => turn'[v] = turn[v]
  BY DEF CVInv, CVKinds
<1>2. \A v \in Requests : v # r => turn[v].at = "out"
  BY ConversationAssumption DEF CVInv, Leased
<1>3. CVKinds'
  BY <1>1 DEF CVInv, CVKinds
<1>4. Leased'
  <2>1. op.at # "deleting" /\ r # Nobody /\ r # "operation" /\ Nobody # "operation"
    BY ConversationAssumption DEF CVInv, Leased
  <2>2. \A v \in Requests : turn'[v].at # "out" => lease' = v
    BY <1>1, <1>2
  <2>3. lease' # "operation" /\ session' # "deleted"
    BY <2>1
  <2>4. QED  BY <2>1, <2>2, <2>3 DEF Leased
<1>5. Turning'
  <2>1. \A v \in Requests : v # r => Sure(v, turn[v].at, turn[v].card)'
    BY <1>1, <1>2 DEF Sure
  <2>2. Sure(r, turn[r].at, turn[r].card)'
    BY <1>1 DEF Sure
  <2>3. QED  BY <2>1, <2>2 DEF Turning
<1>6. Screens'
  BY DEF CVInv, Screens
<1>7. QED  BY <1>3, <1>4, <1>5, <1>6 DEF CVInv

\* ... that edits rows at most.
LEMMA TurnStep ==
  ASSUME CVInv, NEW r \in Requests, NEW t \in Turn, turn' = [turn EXCEPT ![r] = t],
         session # "deleted", session' \in {session, "active"},
         lease = r \/ lease = Nobody, lease' = IF t.at = "out" THEN Nobody ELSE r,
         Edited, reply' = reply, op' = op, Sure(r, t.at, t.card),
         screen' \in [Requests -> {"none", "done", "wrong"}],
         \A v \in Requests : \/ screen'[v] \in {screen[v], "none"}
                             \/ v = r /\ screen'[v] = "done" /\ Stored(r, "assistant") # {}
  PROVE  CVInv'
<1>1. t.at \in Places
  BY DEF Turn
<1>2. log' \in Seq(Message) /\ reply' \in [Requests -> Replies \cup {"none"}]
  BY DEF Edited, CVInv, CVKinds
<1>3. Answers' /\ Cards' /\ Sure(r, t.at, t.card)'
      /\ \A v \in Requests : Stored(v, "assistant") \subseteq Stored(v, "assistant")'
  BY <1>1, EditedKeeps
<1>4. QED  BY <1>2, <1>3, LeasedStep

\* Who has a turn under way has the lease.
LEMMA Holds ==
  ASSUME CVInv, NEW r \in Requests, turn[r].at # "out"
  PROVE  lease = r /\ r # Nobody /\ r # "operation" /\ session # "deleted" /\ op.at = "none" /\ turn[r] \in Turn
         /\ Sure(r, turn[r].at, turn[r].card)
  BY ConversationAssumption DEF CVInv, CVKinds, Leased, Turning

LEMMA GoesTo ==
  ASSUME CVInv, NEW r \in Requests, NEW from \in Places, NEW to \in Places, Goes(r, from, to)
  PROVE  \E t \in Turn : /\ turn' = [turn EXCEPT ![r] = t] /\ t.at = to /\ t.card = turn[r].card
                         /\ turn[r].at = from /\ lease' = lease
<1>1. turn[r] \in Turn
  BY DEF CVInv, CVKinds
<1> DEFINE t == [turn[r] EXCEPT !.at = to]
<1>2. t \in Turn /\ t.at = to /\ t.card = turn[r].card
  BY <1>1 DEF Turn
<1>3. turn' = [turn EXCEPT ![r] = t] /\ turn[r].at = from /\ lease' = lease
  BY DEF Goes
<1>4. QED  BY <1>2, <1>3

LEMMA EndsTurn ==
  ASSUME CVInv, NEW r \in Requests, Ends(r)
  PROVE  \E t \in Turn : turn' = [turn EXCEPT ![r] = t] /\ t.at = "out" /\ lease' = Nobody
<1>1. turn[r] \in Turn
  BY DEF CVInv, CVKinds
<1> DEFINE t == [turn[r] EXCEPT !.at = "out", !.cancelled = FALSE, !.files = {}, !.shown = "blank"]
<1>2. t \in Turn /\ t.at = "out"
  BY <1>1 DEF Turn, Places
<1>3. turn' = [turn EXCEPT ![r] = t] /\ lease' = Nobody
  BY DEF Ends
<1>4. QED  BY <1>2, <1>3

LEMMA Unedited == ASSUME CVInv, log' = log PROVE Edited
  BY LogFacts DEF CVInv, CVKinds, Edited, Edits

LEMMA GoStep ==
  ASSUME CVInv, NEW r \in Requests, NEW from \in Places \ {"out"}, NEW to \in Places \ {"out"},
         Goes(r, from, to), Sure(r, to, turn[r].card), Edited, UNCHANGED <<session, screen, reply, op>>
  PROVE  CVInv'
<1>1. PICK t \in Turn : /\ turn' = [turn EXCEPT ![r] = t] /\ t.at = to /\ t.card = turn[r].card
                        /\ turn[r].at = from /\ lease' = lease
  BY GoesTo
<1>2. lease = r /\ session # "deleted"
  BY <1>1, Holds
<1>3. screen' \in [Requests -> {"none", "done", "wrong"}]
  BY DEF CVInv, CVKinds
<1>4. QED  BY <1>1, <1>2, <1>3, TurnStep

LEMMA EndStep ==
  ASSUME CVInv, NEW r \in Requests, turn[r].at # "out", Ends(r), Edited, UNCHANGED <<session, reply, op>>,
         screen' \in [Requests -> {"none", "done", "wrong"}],
         \A v \in Requests : \/ screen'[v] = screen[v]
                             \/ v = r /\ screen'[v] = "done" /\ Stored(r, "assistant") # {}
  PROVE  CVInv'
<1>1. PICK t \in Turn : turn' = [turn EXCEPT ![r] = t] /\ t.at = "out" /\ lease' = Nobody
  BY EndsTurn
<1>2. lease = r /\ session # "deleted"
  BY Holds
<1>3. Sure(r, t.at, t.card)
  BY <1>1 DEF Sure
<1>4. QED  BY <1>1, <1>2, <1>3, TurnStep

LEMMA EndQuietly ==
  ASSUME CVInv, NEW r \in Requests, turn[r].at # "out", Ends(r), Edited, UNCHANGED <<session, screen, reply, op>>
  PROVE  CVInv'
<1>1. screen' \in [Requests -> {"none", "done", "wrong"}]
  BY DEF CVInv, CVKinds
<1>2. QED  BY <1>1, EndStep
-----------------------------------------------------------------------------
LEMMA EnterStep == ASSUME CVInv, NEW r \in Requests, Enter(r) PROVE CVInv'
<1>1. PICK card \in Requests \cup {Nobody}, files \in SUBSET Files :
        turn' = [turn EXCEPT ![r] = [@ EXCEPT !.at = "entered", !.sent = TRUE, !.card = card, !.files = files]]
  <2>1. turn[r] \in Turn
    BY DEF CVInv, CVKinds
  <2>2. turn[r].card \in Requests \cup {Nobody}
    BY <2>1 DEF Turn
  <2>3. QED  BY <2>2 DEF Enter
<1>2. turn[r] \in Turn
  BY DEF CVInv, CVKinds
<1> DEFINE t == [turn[r] EXCEPT !.at = "entered", !.sent = TRUE, !.card = card, !.files = files]
<1>3. t \in Turn /\ t.at = "entered" /\ turn' = [turn EXCEPT ![r] = t]
  BY <1>1, <1>2 DEF Turn, Places
<1> HIDE DEF t
<1>4. Sure(r, t.at, t.card)
  BY <1>3 DEF Sure
<1>5. screen' \in [Requests -> {"none", "done", "wrong"}] /\ \A v \in Requests : screen'[v] \in {screen[v], "none"}
  BY DEF Enter, CVInv, CVKinds
<1>6. lease = Nobody /\ lease' = r /\ session # "deleted" /\ session' = "active" /\ UNCHANGED <<log, reply, op>>
  BY DEF Enter
<1>7. QED  BY <1>3, <1>4, <1>5, <1>6, Unedited, TurnStep

\* What a reader writes back are edits.
LEMMA RepairsEdit ==
  ASSUME CVInv, log' = RepairedLog
  PROVE  Edited
<1>1. \A i \in DOMAIN log : log[i] \in Message
  BY LogFacts DEF CVInv
<1>2. ASSUME NEW m \in Message, m.role = "assistant" /\ m.body = "recoverable" => m.doc \in {"none", "card"}
      PROVE  Edits(m, Repaired(m))
  <2>1. [m EXCEPT !.doc = "card"] \in Message
    BY DEF Message, Documents
  <2>2. QED  BY <1>2, <2>1 DEF Repaired, Edits, Message
<1>3. \A i \in DOMAIN log : log'[i] = Repaired(log[i]) /\ Edits(log[i], log'[i])
  BY <1>1, <1>2 DEF RepairedLog, CVInv, Answers
<1>4. DOMAIN log = 1..Len(log) /\ Len(log) \in Nat
  BY LogFacts DEF CVInv
<1>5. log' \in [1..Len(log) -> Message]
  BY <1>3, <1>4 DEF RepairedLog, Edits
<1>6. log' \in Seq(Message) /\ Len(log') = Len(log)
  BY <1>4, <1>5
<1>7. QED  BY <1>3, <1>6 DEF Edited

LEMMA OpenCards ==
  ASSUME CVInv, NEW r \in Requests, CardOpen(r, RepairedLog)
  PROVE  Sure(r, "valid", turn[r].card)
<1>0. DOMAIN log = 1..Len(log) /\ Len(log) \in Nat /\ \A i \in DOMAIN log : log[i] \in Message
  BY LogFacts DEF CVInv
<1>1. DOMAIN RepairedLog = DOMAIN log /\ Len(RepairedLog) = Len(log)
      /\ \A i \in DOMAIN log : RepairedLog[i] = Repaired(log[i])
  <2>1. DOMAIN RepairedLog = DOMAIN log /\ \A i \in DOMAIN log : RepairedLog[i] = Repaired(log[i])
    BY DEF RepairedLog
  <2>2. \A m \in Message : Repaired(m) \in Message
    BY DEF Repaired, Message, Documents
  <2>3. RepairedLog \in [1..Len(log) -> Message]
    BY <1>0, <2>1, <2>2 DEF RepairedLog
  <2>4. QED  BY <1>0, <2>1, <2>3
<1>2. \A m \in Message : /\ Repaired(m).role = m.role /\ Repaired(m).req = m.req
                         /\ Repaired(m).doc = "card" /\ m.role = "assistant" => CardOf(m)
  BY DEF Repaired, Message, CardOf
<1>3. PICK i \in DOMAIN log :
        /\ RepairedLog[i].role = "assistant" /\ RepairedLog[i].doc = "card" /\ RepairedLog[i].req = turn[r].card
        /\ LET following == {RepairedLog[j] : j \in i + 1 .. Len(log)}
           IN  \/ following = {}
               \/ /\ \A m \in following : m.req = r
                  /\ \E m \in following : m.role = "user" /\ m.card = turn[r].card
  BY <1>1 DEF CardOpen
<1>4. log[i].req = turn[r].card /\ CardOf(log[i]) /\ i \in 1..Len(log)
  BY <1>0, <1>1, <1>2, <1>3
<1>5. CASE i = Len(log)
  BY <1>0, <1>4, <1>5 DEF Sure
<1>6. CASE i < Len(log)
  <2>1. RepairedLog[i + 1] \in {RepairedLog[j] : j \in i + 1 .. Len(log)}
    BY <1>0, <1>4, <1>6
  <2>2. PICK j \in i + 1 .. Len(log) : RepairedLog[j].role = "user" /\ RepairedLog[j].req = r
    BY <1>3, <2>1
  <2>3. j \in DOMAIN log /\ log[j].role = "user" /\ log[j].req = r
    BY <1>0, <1>1, <1>2, <1>4, <2>2
  <2>4. Stored(r, "user") # {}
    BY <2>3 DEF Stored
  <2>5. QED  BY <2>4 DEF Sure
<1>7. QED  BY <1>0, <1>4, <1>5, <1>6

LEMMA ValidateStep == ASSUME CVInv, NEW r \in Requests, Validate(r) PROVE CVInv'
<1>1. Edited /\ UNCHANGED <<session, screen, reply, op>>
  BY Unedited, RepairsEdit DEF Validate, Rest
<1>2. CASE CardOpen(r, RepairedLog)
  <2>1. Goes(r, "entered", "valid") /\ Sure(r, "valid", turn[r].card)
    BY <1>2, OpenCards DEF Validate
  <2>2. QED  BY <1>1, <2>1, GoStep DEF Places
<1>3. CASE ~CardOpen(r, RepairedLog)
  <2>1. turn[r].at = "entered" /\ Ends(r)
    BY <1>3 DEF Validate
  <2>2. QED  BY <1>1, <2>1, EndQuietly
<1>4. QED  BY <1>2, <1>3

LEMMA NothingStep == ASSUME CVInv, NEW r \in Requests, NothingToValidate(r) PROVE CVInv'
<1>1. Edited /\ UNCHANGED <<session, screen, reply, op>>
  BY Unedited DEF NothingToValidate, Rest
<1>2. Goes(r, "entered", "valid") /\ Sure(r, "valid", turn[r].card)
  BY DEF NothingToValidate, Sure
<1>3. QED  BY <1>1, <1>2, GoStep DEF Places

LEMMA NormalizeStep == ASSUME CVInv, NEW r \in Requests, Normalize(r) PROVE CVInv'
<1>1. Edited /\ UNCHANGED <<session, screen, reply, op>>
  BY Unedited DEF Normalize, Rest
<1>2. CASE turn[r].files \subseteq ready
  <2>1. Goes(r, "valid", "asking") /\ turn[r].at = "valid"
    BY <1>2 DEF Normalize, Goes
  <2>2. Sure(r, "asking", turn[r].card)
    BY <2>1 DEF CVInv, Turning, Sure
  <2>3. QED  BY <1>1, <2>1, <2>2, GoStep DEF Places
<1>3. CASE ~(turn[r].files \subseteq ready)
  <2>1. turn[r].at = "valid" /\ Ends(r)
    BY <1>3 DEF Normalize
  <2>2. QED  BY <1>1, <2>1, EndQuietly
<1>4. QED  BY <1>2, <1>3

\* What comes of a write that edits the rows.
LEMMA WrittenStep ==
  ASSUME CVInv, NEW r \in Requests, NEW from \in Places \ {"out"}, NEW to \in Places \ {"out"},
         Written(r, from, to), Sure(r, to, turn[r].card), Edited, UNCHANGED <<session, screen, reply, op>>
  PROVE  CVInv'
<1>1. CASE turn[r].cancelled
  BY <1>1, EndQuietly DEF Written
<1>2. CASE ~turn[r].cancelled
  BY <1>2, GoStep DEF Written
<1>3. QED  BY <1>1, <1>2

LEMMA AskAgainStep == ASSUME CVInv, NEW r \in Requests, AskAgain(r) PROVE CVInv'
<1>0. UNCHANGED <<session, screen, reply, op>>
  BY DEF AskAgain, Rest
<1>1. PICK i \in Stored(r, "user") :
        IF Bindable(i, turn[r].files)
          THEN /\ Written(r, "asking", "running")
               /\ log' = [log EXCEPT ![i].files = @ \cup turn[r].files]
          ELSE /\ turn[r].at = "asking" /\ Ends(r) /\ UNCHANGED log
  BY DEF AskAgain
<1>2. CASE Bindable(i, turn[r].files)
  <2>1. i \in DOMAIN log /\ log[i] \in Message /\ turn[r] \in Turn
    BY LogFacts DEF CVInv, CVKinds, Stored
  <2> DEFINE m == [log[i] EXCEPT !.files = @ \cup turn[r].files]
  <2>2. m \in Message /\ Edits(log[i], m)
    BY <2>1 DEF Message, Edits, Turn
  <2>3. log' = [log EXCEPT ![i] = m]
    BY <1>1, <1>2
  <2> HIDE DEF m
  <2>4. Edited
    <3>1. log' \in Seq(Message) /\ Len(log') = Len(log)
      BY <2>1, <2>2, <2>3, LogFacts DEF CVInv, CVKinds
    <3>2. \A j \in DOMAIN log : log'[j] = IF j = i THEN m ELSE log[j]
      BY <2>3
    <3>3. \A j \in DOMAIN log : log[j] \in Message
      BY LogFacts DEF CVInv
    <3>4. QED  BY <2>2, <3>1, <3>2, <3>3 DEF Edited, Edits
  <2>5. Sure(r, "running", turn[r].card)
    BY <1>1 DEF Sure
  <2>6. QED  BY <1>0, <1>1, <1>2, <2>4, <2>5, WrittenStep DEF Places
<1>3. CASE ~Bindable(i, turn[r].files)
  <2>1. turn[r].at = "asking" /\ Ends(r) /\ log' = log
    BY <1>1, <1>3
  <2>2. QED  BY <1>0, <2>1, Unedited, EndQuietly
<1>4. QED  BY <1>2, <1>3

\* What an appended row changes.
LEMMA AppendFacts ==
  ASSUME CVInv, NEW m \in Message, log' = Append(log, m)
  PROVE  /\ log' \in Seq(Message) /\ DOMAIN log' = DOMAIN log \cup {Len(log) + 1}
         /\ Len(log') = Len(log) + 1 /\ log'[Len(log) + 1] = m /\ Len(log) + 1 \notin DOMAIN log
         /\ DOMAIN log = 1..Len(log) /\ Len(log) \in Nat
         /\ \A i \in DOMAIN log : log'[i] = log[i] /\ i \in Nat
         /\ \A r \in Requests, role \in {"user", "assistant"} :
              Stored(r, role)' = IF m.req = r /\ m.role = role THEN Stored(r, role) \cup {Len(log) + 1}
                                                             ELSE Stored(r, role)
<1>0. log \in Seq(Message) /\ Len(log) \in Nat /\ DOMAIN log = 1..Len(log)
  BY LogFacts DEF CVInv, CVKinds
<1>1. log' \in Seq(Message) /\ Len(log') = Len(log) + 1 /\ log'[Len(log) + 1] = m
      /\ DOMAIN log' = 1..(Len(log) + 1) /\ \A i \in 1..Len(log) : log'[i] = log[i]
  BY <1>0
<1>2. DOMAIN log' = DOMAIN log \cup {Len(log) + 1} /\ Len(log) + 1 \notin DOMAIN log
      /\ \A i \in DOMAIN log : log'[i] = log[i] /\ i \in Nat
  BY <1>0, <1>1
<1>3. \A r \in Requests, role \in {"user", "assistant"} :
        Stored(r, role)' = IF m.req = r /\ m.role = role THEN Stored(r, role) \cup {Len(log) + 1}
                                                       ELSE Stored(r, role)
  BY <1>1, <1>2 DEF Stored
<1>4. QED  BY <1>0, <1>1, <1>2, <1>3

LEMMA AskStep == ASSUME CVInv, NEW r \in Requests, Ask(r) PROVE CVInv'
<1>0. Stored(r, "user") = {} /\ UNCHANGED <<session, screen, reply, op>>
  BY DEF Ask, Rest
<1>1. CASE ~(session = "active" /\ turn[r].files \subseteq ready)
  <2>1. turn[r].at = "asking" /\ Ends(r) /\ log' = log
    BY <1>1 DEF Ask
  <2>2. QED  BY <1>0, <2>1, Unedited, EndQuietly
<1>2. CASE session = "active" /\ turn[r].files \subseteq ready
  <2>0. Written(r, "asking", "running") /\ log' = Append(log, Asked(r))
    BY <1>2 DEF Ask
  <2>1. turn[r].at = "asking" /\ turn[r] \in Turn /\ lease = r /\ session # "deleted" /\ op' = op
    <3>1. turn[r].at = "asking"
      BY <2>0 DEF Written, Goes
    <3>2. QED  BY <1>0, <3>1, Holds
  <2>2. PICK m \in Message : m = Asked(r)
    BY <2>1 DEF Asked, Message, Turn
  <2>3. m.req = r /\ m.role = "user" /\ m.card = turn[r].card
    BY <2>2 DEF Asked
  <2>4. log' = Append(log, m)
    BY <2>0, <2>2
  <2>5. PICK t \in Turn : /\ turn' = [turn EXCEPT ![r] = t] /\ t.at \in {"running", "out"}
                          /\ lease' = IF t.at = "out" THEN Nobody ELSE r
    <3>1. CASE turn[r].cancelled
      BY <2>0, <3>1, EndsTurn DEF Written
    <3>2. CASE ~turn[r].cancelled
      BY <2>0, <2>1, <3>2, GoesTo DEF Written, Places
    <3>3. QED  BY <3>1, <3>2
  <2>6. Stored(r, "user")' # {}
    BY <2>3, <2>4, AppendFacts
  <2>7. Sure(r, t.at, t.card)'
    BY <2>5, <2>6 DEF Sure
  <2>8. Answers'
    <3>1. \A j \in DOMAIN log : \A i \in DOMAIN log : i \in DOMAIN log' /\ log'[i] = log[i] /\ log'[j] = log[j]
      BY <2>4, AppendFacts
    <3>2. log'[Len(log) + 1].role = "user" /\ DOMAIN log' = DOMAIN log \cup {Len(log) + 1}
      BY <2>3, <2>4, AppendFacts
    <3>3. QED  BY <1>0, <3>1, <3>2 DEF CVInv, Answers
  <2>9. Cards'
    <3>1. turn[r].card # Nobody => Len(log) > 0 /\ log[Len(log)].req = turn[r].card /\ CardOf(log[Len(log)])
      BY <1>0, <2>1, Holds DEF Sure
    <3>0. PICK n \in Nat : n = Len(log)
      BY <2>4, AppendFacts
    <3>2. m.card # Nobody => AnswersCard(n + 1, m.card)'
      <4>1. n > 0 => log'[n] = log[n] /\ (n + 1) - 1 = n
        BY <2>4, <3>0, AppendFacts
      <4>2. QED  BY <2>3, <3>0, <3>1, <4>1 DEF AnswersCard, CardOf
    <3>3. ASSUME NEW i \in DOMAIN log, log[i].card # Nobody PROVE AnswersCard(i, log[i].card)'
      <4>1. AnswersCard(i, log[i].card) /\ i - 1 \in DOMAIN log
        BY <3>3, LogFacts DEF CVInv, Cards, AnswersCard
      <4>2. log'[i - 1] = log[i - 1] /\ log'[i] = log[i]
        BY <2>4, <4>1, AppendFacts
      <4>3. QED  BY <4>1, <4>2 DEF AnswersCard, CardOf
    <3>4. DOMAIN log' = DOMAIN log \cup {n + 1} /\ log'[n + 1] = m /\ \A i \in DOMAIN log : log'[i] = log[i]
      BY <2>4, <3>0, AppendFacts
    <3>5. QED  BY <3>2, <3>3, <3>4 DEF Cards
  <2>10. log' \in Seq(Message) /\ \A v \in Requests : Stored(v, "assistant") \subseteq Stored(v, "assistant")'
    BY <2>4, AppendFacts
  <2>11. screen' \in [Requests -> {"none", "done", "wrong"}] /\ reply' \in [Requests -> Replies \cup {"none"}]
         /\ \A v \in Requests : screen'[v] = screen[v]
    BY <1>0 DEF CVInv, CVKinds
  <2>12. session' \in {session, "active"}
    BY <1>0
  <2>13. QED  BY <2>1, <2>5, <2>7, <2>8, <2>9, <2>10, <2>11, <2>12, LeasedStep
<1>3. QED  BY <1>1, <1>2

LEMMA AnswerStep == ASSUME CVInv, NEW r \in Requests, Answer(r) PROVE CVInv'
<1>0. UNCHANGED <<session, screen, reply, op>>
  BY DEF Answer, Rest
<1>1. CASE session # "active"
  <2>1. turn[r].at = "answering" /\ Ends(r) /\ log' = log
    BY <1>1 DEF Answer
  <2>2. QED  BY <1>0, <2>1, Unedited, EndQuietly
<1>2. CASE session = "active"
  <2>0. Written(r, "answering", "emitting") /\ log' = Append(log, Answered(r))
    BY <1>2 DEF Answer
  <2>1. turn[r].at = "answering" /\ lease = r /\ session # "deleted" /\ op' = op
    <3>1. turn[r].at = "answering"
      BY <2>0 DEF Written, Goes
    <3>2. QED  BY <1>0, <3>1, Holds
  <2>2. Stored(r, "user") # {} /\ reply[r] \in Replies
    BY <2>1, Holds DEF Sure, CVInv, CVKinds
  <2>3. PICK m \in Message : m = Answered(r)
    <3>1. PICK body \in Replies : body = reply[r]
      BY <2>2
    <3>2. PICK doc \in Documents \cup {"none"} : doc = IF reply[r] \in Documents THEN reply[r] ELSE "none"
      OBVIOUS
    <3>3. Answered(r) = [req |-> r, role |-> "assistant", card |-> Nobody, files |-> {}, body |-> body, doc |-> doc]
      BY <3>1, <3>2 DEF Answered
    <3>4. QED  BY <3>3 DEF Message
  <2>4. /\ m.req = r /\ m.role = "assistant" /\ m.card = Nobody /\ m.body = reply[r]
        /\ m.body \in Documents => m.doc = m.body
        /\ m.body \notin Documents => m.doc = "none"
    BY <2>3 DEF Answered
  <2>5. log' = Append(log, m)
    BY <2>0, <2>3
  <2>6. PICK t \in Turn : /\ turn' = [turn EXCEPT ![r] = t] /\ t.at \in {"emitting", "out"}
                          /\ lease' = IF t.at = "out" THEN Nobody ELSE r
    <3>1. CASE turn[r].cancelled
      BY <2>0, <3>1, EndsTurn DEF Written
    <3>2. CASE ~turn[r].cancelled
      BY <2>0, <2>1, <3>2, GoesTo DEF Written, Places
    <3>3. QED  BY <3>1, <3>2
  <2>7. PICK n \in Nat : n = Len(log)
    BY <2>5, AppendFacts
  <2>8. DOMAIN log' = DOMAIN log \cup {n + 1} /\ log'[n + 1] = m /\ DOMAIN log = 1..n
        /\ \A i \in DOMAIN log : log'[i] = log[i] /\ i \in Nat
    BY <2>5, <2>7, AppendFacts
  <2>9. /\ Stored(r, "user")' = Stored(r, "user") /\ Stored(r, "assistant")' # {}
        /\ \A v \in Requests : Stored(v, "assistant") \subseteq Stored(v, "assistant")'
    BY <2>4, <2>5, AppendFacts
  <2>10. Sure(r, t.at, t.card)'
    <3>1. reply'[r] # "none"
      BY <1>0, <2>2, ConversationAssumption
    <3>2. QED  BY <2>2, <2>6, <2>9, <3>1 DEF Sure
  <2>11. Answers'
    <3>1. PICK i \in Stored(r, "user") : TRUE
      BY <2>2
    <3>2. i \in DOMAIN log /\ i < n + 1 /\ log'[i].req = r /\ log'[i].role = "user"
      BY <2>8 DEF Stored
    <3>3. \A j \in DOMAIN log : log'[j].role = "assistant" =>
            /\ log'[j].body = reply'[log'[j].req] /\ log'[j].body \in Replies /\ log'[j].card = Nobody
            /\ log'[j].body \in Documents => log'[j].doc = log'[j].body
            /\ log'[j].body = "recoverable" => log'[j].doc \in {"none", "card"}
            /\ \E k \in DOMAIN log : k < j /\ log'[k].req = log'[j].req /\ log'[k].role = "user"
      BY <1>0, <2>8 DEF CVInv, Answers
    <3>4. "recoverable" \notin Documents
      BY DEF Documents
    <3>5. QED  BY <1>0, <2>2, <2>4, <2>8, <3>2, <3>3, <3>4 DEF Answers
  <2>12. Cards'
    <3>1. ASSUME NEW i \in DOMAIN log, log[i].card # Nobody PROVE AnswersCard(i, log[i].card)'
      <4>1. AnswersCard(i, log[i].card) /\ i - 1 \in DOMAIN log
        BY <3>1, LogFacts DEF CVInv, Cards, AnswersCard
      <4>2. log'[i - 1] = log[i - 1] /\ log'[i] = log[i]
        BY <2>8, <4>1
      <4>3. QED  BY <4>1, <4>2 DEF AnswersCard, CardOf
    <3>2. QED  BY <2>4, <2>8, <3>1 DEF Cards
  <2>13. screen' \in [Requests -> {"none", "done", "wrong"}] /\ reply' \in [Requests -> Replies \cup {"none"}]
         /\ (\A v \in Requests : screen'[v] = screen[v]) /\ session' \in {session, "active"}
    BY <1>0 DEF CVInv, CVKinds
  <2>14. log' \in Seq(Message)
    BY <2>5, AppendFacts
  <2>15. QED  BY <2>1, <2>6, <2>9, <2>10, <2>11, <2>12, <2>13, <2>14, LeasedStep
<1>3. QED  BY <1>1, <1>2

\* An answer that is there already has its document.
LEMMA AnswerAgainStep == ASSUME CVInv, NEW r \in Requests, AnswerAgain(r) PROVE CVInv'
<1>0. UNCHANGED <<session, screen, reply, op>>
  BY DEF AnswerAgain, Rest
<1>1. PICK i \in Stored(r, "assistant") :
        /\ Written(r, "answering", "emitting")
        /\ log' = [log EXCEPT ![i].doc = IF @ = "none" THEN Answered(r).doc ELSE @]
  BY DEF AnswerAgain
<1>2. turn[r].at = "answering"
  BY <1>1 DEF Written, Goes
<1>3. i \in DOMAIN log /\ log[i] \in Message /\ log[i].role = "assistant" /\ log[i].req = r
  BY LogFacts DEF CVInv, Stored
<1>4. log[i].body = reply[r] /\ (log[i].body \in Documents => log[i].doc = log[i].body)
  BY <1>3 DEF CVInv, Answers
<1>5. (IF log[i].doc = "none" THEN Answered(r).doc ELSE log[i].doc) = log[i].doc
  BY <1>4 DEF Answered, Documents
<1>6. log' = log
  <2>1. PICK m \in Message : m = log[i]
    BY <1>3
  <2>2. [m EXCEPT !.doc = m.doc] = m
    BY DEF Message
  <2>3. log' = [log EXCEPT ![i] = [m EXCEPT !.doc = m.doc]]
    BY <1>1, <1>5, <2>1
  <2>4. QED  BY <1>3, <2>1, <2>2, <2>3 DEF CVInv, CVKinds
<1>7. Sure(r, "emitting", turn[r].card)
  BY <1>1, <1>2, Holds DEF Sure
<1>8. QED  BY <1>0, <1>1, <1>6, <1>7, Unedited, WrittenStep DEF Places

LEMMA ReplayStep == ASSUME CVInv, NEW r \in Requests, Replay(r) PROVE CVInv'
<1>1. Edited /\ UNCHANGED <<session, screen, reply, op>> /\ Goes(r, "running", "answering") /\ reply[r] # "none"
  BY Unedited DEF Replay, Rest
<1>2. turn[r].at = "running"
  BY <1>1 DEF Goes
<1>3. Sure(r, "answering", turn[r].card)
  BY <1>1, <1>2, Holds DEF Sure
<1>4. QED  BY <1>1, <1>3, GoStep DEF Places

\* A run replies once, so no answer of it is stored yet.
LEMMA CompleteStep == ASSUME CVInv, NEW r \in Requests, Complete(r) PROVE CVInv'
<1>0. /\ turn[r].at = "running" /\ reply[r] = "none" /\ UNCHANGED <<lease, session, screen, op>> /\ log' = log
      /\ reply' \in {[reply EXCEPT ![r] = x] : x \in Replies}
      /\ turn' \in {[turn EXCEPT ![r] = [@ EXCEPT !.at = "answering", !.shown = x]] : x \in {"blank", "part", "draft"}}
  BY DEF Complete, Begins
<1>1. turn[r] \in Turn /\ lease = r /\ session # "deleted" /\ Sure(r, "running", turn[r].card)
  BY <1>0, Holds
<1>2. PICK x \in Replies : reply' = [reply EXCEPT ![r] = x]
  BY <1>0
<1>3. reply' \in [Requests -> Replies \cup {"none"}] /\ reply'[r] = x /\ \A v \in Requests : v # r => reply'[v] = reply[v]
  BY <1>2 DEF CVInv, CVKinds
<1>4. PICK shown \in {"blank", "part", "draft"} :
        turn' = [turn EXCEPT ![r] = [@ EXCEPT !.at = "answering", !.shown = shown]]
  BY <1>0
<1>5. PICK t \in Turn : t = [turn[r] EXCEPT !.at = "answering", !.shown = shown]
  BY <1>1 DEF Turn, Places
<1>6. turn' = [turn EXCEPT ![r] = t] /\ t.at = "answering"
  BY <1>1, <1>4, <1>5 DEF Turn
<1>7. \A v \in Requests, role \in {"user", "assistant"} : Stored(v, role)' = Stored(v, role)
  BY <1>0 DEF Stored
<1>8. Sure(r, t.at, t.card)'
  <2>1. Stored(r, "user") # {} /\ Stored(r, "user")' = Stored(r, "user")
    BY <1>1, <1>7 DEF Sure
  <2>2. Stored(r, "user")' # {} /\ reply'[r] # "none"
    BY <2>1, <1>3, ConversationAssumption
  <2>3. QED  BY <2>2, <1>6 DEF Sure
<1>9. Answers'
  <2>1. \A j \in DOMAIN log : log[j].role = "assistant" => log[j].req # r /\ log[j].req \in Requests
    BY <1>0, LogFacts, ConversationAssumption DEF CVInv, Answers, Message
  <2>2. QED  BY <1>0, <1>3, <2>1 DEF CVInv, Answers
<1>10. Cards'
  BY <1>0 DEF CVInv, Cards, AnswersCard, CardOf
<1>11. screen' \in [Requests -> {"none", "done", "wrong"}] /\ (\A v \in Requests : screen'[v] = screen[v])
       /\ session' \in {session, "active"} /\ log' \in Seq(Message)
  BY <1>0 DEF CVInv, CVKinds
<1>12. lease' = (IF t.at = "out" THEN Nobody ELSE r) /\ op' = op
       /\ \A v \in Requests : Stored(v, "assistant") \subseteq Stored(v, "assistant")'
  BY <1>0, <1>1, <1>6, <1>7
<1>13. QED  BY <1>1, <1>3, <1>5, <1>6, <1>8, <1>9, <1>10, <1>11, <1>12, LeasedStep

LEMMA InterruptedStep == ASSUME CVInv, NEW r \in Requests, Interrupted(r) PROVE CVInv'
<1>1. Edited /\ UNCHANGED <<session, screen, reply, op>> /\ Goes(r, "running", "stopping")
  BY Unedited DEF Interrupted
<1>2. turn[r].at = "running"
  BY <1>1 DEF Goes
<1>3. Sure(r, "stopping", turn[r].card)
  BY <1>2, Holds DEF Sure
<1>4. QED  BY <1>1, <1>3, GoStep DEF Places

\* The ends that leave everything else as it is.
LEMMA EndingStep ==
  ASSUME CVInv, NEW r \in Requests, RunFails(r) \/ EmitInterrupted(r) \/ WorkerDies(r)
  PROVE  CVInv'
<1>1. Ends(r) /\ turn[r].at # "out" /\ log' = log /\ UNCHANGED <<session, screen, reply, op>>
  BY DEF RunFails, EmitInterrupted, WorkerDies, Rest
<1>2. QED  BY <1>1, Unedited, EndQuietly

LEMMA EmitStep == ASSUME CVInv, NEW r \in Requests, Emit(r) PROVE CVInv'
<1>1. Ends(r) /\ turn[r].at = "emitting" /\ log' = log /\ UNCHANGED <<session, reply, op>>
      /\ screen' = [screen EXCEPT ![r] = LastEvents(AfterReset(turn[r].shown, reply[r]), reply[r])]
  BY DEF Emit, Rest
<1>2. Stored(r, "assistant") # {} /\ turn[r] \in Turn
  BY <1>1, Holds DEF Sure
<1>3. PICK shown \in {"blank", "part", "draft"} : shown = turn[r].shown
  BY <1>2 DEF Turn
<1>4. LastEvents(AfterReset(shown, reply[r]), reply[r]) = "done"
  BY DEF LastEvents, AfterReset
<1>5. screen' = [screen EXCEPT ![r] = "done"]
  BY <1>1, <1>3, <1>4
<1>6. screen' \in [Requests -> {"none", "done", "wrong"}] /\ \A v \in Requests : v # r => screen'[v] = screen[v]
  BY <1>5 DEF CVInv, CVKinds
<1>7. screen'[r] = "done"
  BY <1>5 DEF CVInv, CVKinds
<1>8. QED  BY <1>1, <1>2, <1>6, <1>7, Unedited, EndStep

LEMMA CancelStep == ASSUME CVInv, NEW r \in Requests, Cancel(r) PROVE CVInv'
<1>0. turn[r].at # "out" /\ log' = log /\ UNCHANGED <<session, screen, reply, op>>
  BY DEF Cancel, Rest
<1>1. CASE Writing(r)
  <2>1. turn[r] \in Turn /\ lease = r /\ session # "deleted" /\ Sure(r, turn[r].at, turn[r].card)
    BY <1>0, Holds
  <2> DEFINE t == [turn[r] EXCEPT !.cancelled = TRUE]
  <2>2. t \in Turn /\ t.at = turn[r].at /\ t.card = turn[r].card
    BY <2>1 DEF Turn
  <2>3. turn' = [turn EXCEPT ![r] = t] /\ lease' = lease
    BY <1>1 DEF Cancel
  <2> HIDE DEF t
  <2>4. screen' \in [Requests -> {"none", "done", "wrong"}] /\ \A v \in Requests : screen'[v] = screen[v]
    BY <1>0 DEF CVInv, CVKinds
  <2>5. QED  BY <1>0, <2>1, <2>2, <2>3, <2>4, Unedited, TurnStep
<1>2. CASE ~Writing(r)
  <2>1. Ends(r)
    BY <1>2 DEF Cancel
  <2>2. QED  BY <1>0, <2>1, Unedited, EndQuietly
<1>3. QED  BY <1>1, <1>2

-----------------------------------------------------------------------------
LEMMA ExpireStep == ASSUME CVInv, UNCHANGED <<session, lease, log, reply, turn, op, screen>> PROVE CVInv'
  BY DEF CVInv, CVKinds, Leased, Answers, Cards, AnswersCard, CardOf, Turning, Sure, Screens, Stored

LEMMA ReadStep == ASSUME CVInv, ReadSession PROVE CVInv'
<1>1. UNCHANGED <<session, lease, turn, screen, reply, op>> /\ Edited /\ op.at # "deleting"
  BY RepairsEdit DEF ReadSession, Rest
<1>2. /\ Answers' /\ Cards' /\ log' \in Seq(Message)
      /\ \A r \in Requests, role \in {"user", "assistant"} : Stored(r, role)' = Stored(r, role)
      /\ \A r \in Requests, at \in Places : \A card : Sure(r, at, card) => Sure(r, at, card)'
  BY <1>1, EditedKeeps DEF Edited
<1>3. CVKinds'
  BY <1>1, <1>2 DEF CVInv, CVKinds
<1>4. Leased'
  <2>1. log = <<>> => log' = <<>>
    BY <1>1, <1>2 DEF Edited
  <2>2. QED  BY <1>1, <2>1 DEF CVInv, Leased
<1>5. Turning'
  <2>1. \A r \in Requests : turn[r].at \in Places /\ Sure(r, turn[r].at, turn[r].card)
    BY DEF CVInv, CVKinds, Turning, Turn
  <2>2. ASSUME NEW r \in Requests PROVE Sure(r, turn[r].at, turn[r].card)'
    <3>1. PICK at \in Places, card \in Requests \cup {Nobody} : at = turn[r].at /\ card = turn[r].card
      BY <2>1 DEF CVInv, CVKinds, Turn
    <3>2. Sure(r, at, card)'
      BY <1>2, <2>1, <3>1
    <3>3. QED  BY <1>1, <3>1, <3>2
  <2>3. QED  BY <2>2 DEF Turning
<1>6. Screens'
  BY <1>1, <1>2 DEF CVInv, Screens
<1>7. QED  BY <1>2, <1>3, <1>4, <1>5, <1>6 DEF CVInv

LEMMA DeleteStep ==
  ASSUME CVInv, DeleteMessages \/ CloseDeleted \/ DeleteDies
  PROVE  CVInv' /\ (CloseDeleted => log' = <<>>)
<1>0. /\ \A r \in Requests : r # Nobody /\ r # "operation"
      /\ Nobody # "operation" /\ Len(log) \in Nat
  BY ConversationAssumption, LogFacts DEF CVInv
<1>1. CASE DeleteMessages
  <2>1. /\ lease = Nobody /\ session # "deleted" /\ lease' = "operation" /\ op'.at = "deleting" /\ op'.seen = Len(log)
        /\ op' \in [at : {"none", "deleting"}, seen : Nat]
        /\ UNCHANGED <<session, log, reply, turn, screen>>
    BY <1>0, <1>1 DEF DeleteMessages
  <2>2. CVKinds' /\ Answers' /\ Cards' /\ Turning' /\ Screens'
    BY <2>1 DEF CVInv, CVKinds, Answers, Cards, AnswersCard, CardOf, Turning, Sure, Screens, Stored
  <2>3. Leased'
    BY <1>0, <2>1 DEF CVInv, Leased
  <2>4. ~CloseDeleted
    BY <1>0, <1>1 DEF DeleteMessages, CloseDeleted
  <2>5. QED  BY <2>2, <2>3, <2>4 DEF CVInv
<1>2. CASE CloseDeleted
  <2>1. /\ lease = "operation" /\ op.seen = Len(log) /\ lease' = Nobody /\ op' = [at |-> "none", seen |-> 0]
        /\ session' = "deleted" /\ reply' = [r \in Requests |-> "none"] /\ UNCHANGED <<turn, screen>>
    BY <1>2 DEF CloseDeleted, CVInv, Leased
  <2>2. log' = <<>>
    BY <1>0, <1>2, <2>1 DEF CloseDeleted, CVInv, CVKinds
  <2>3. \A r \in Requests : turn[r].at = "out"
    BY <1>0, <2>1 DEF CVInv, Leased
  <2>4. CVKinds'
    BY <2>1, <2>2 DEF CVInv, CVKinds
  <2>5. Leased'
    BY <1>0, <2>1, <2>2, <2>3 DEF Leased
  <2>6. Answers' /\ Cards' /\ Turning' /\ Screens'
    BY <2>1, <2>2, <2>3 DEF CVInv, Answers, Cards, Turning, Sure, Screens
  <2>7. QED  BY <2>2, <2>4, <2>5, <2>6 DEF CVInv
<1>3. CASE DeleteDies
  <2>1. /\ lease = "operation" /\ lease' = Nobody /\ op' = [at |-> "none", seen |-> 0]
        /\ session # "deleted" /\ UNCHANGED <<session, log, reply, turn, screen>>
    BY <1>3 DEF DeleteDies, CVInv, Leased
  <2>2. CVKinds' /\ Answers' /\ Cards' /\ Turning' /\ Screens'
    BY <2>1 DEF CVInv, CVKinds, Answers, Cards, AnswersCard, CardOf, Turning, Sure, Screens, Stored
  <2>3. Leased'
    BY <1>0, <2>1 DEF CVInv, Leased
  <2>4. CloseDeleted => log' = <<>>
    BY <1>0, <2>1 DEF CloseDeleted, CVInv, Leased, CVKinds
  <2>5. QED  BY <2>2, <2>3, <2>4 DEF CVInv
<1>4. QED  BY <1>1, <1>2, <1>3

LEMMA CVStep == CVInv /\ [CVNext]_cvVars => CVInv'
<1> SUFFICES ASSUME CVInv, [CVNext]_cvVars PROVE CVInv'
  OBVIOUS
<1>1. ASSUME NEW r \in Requests,
             \/ Enter(r) \/ Validate(r) \/ NothingToValidate(r) \/ Normalize(r)
             \/ AskAgain(r) \/ Ask(r) \/ Replay(r) \/ Complete(r) \/ Interrupted(r) \/ RunFails(r)
             \/ AnswerAgain(r) \/ Answer(r) \/ Emit(r) \/ EmitInterrupted(r)
             \/ Cancel(r) \/ WorkerDies(r)
      PROVE  CVInv'
  BY <1>1, EnterStep, ValidateStep, NothingStep, NormalizeStep, AskAgainStep, AskStep, ReplayStep,
     CompleteStep, InterruptedStep, EndingStep, AnswerAgainStep, AnswerStep, EmitStep, CancelStep
<1>2. CASE \E f \in Files : Expire(f)
  BY <1>2, ExpireStep DEF Expire
<1>3. CASE ReadSession
  BY <1>3, ReadStep
<1>4. CASE DeleteMessages \/ CloseDeleted \/ DeleteDies
  BY <1>4, DeleteStep
<1>5. CASE UNCHANGED cvVars
  BY <1>5, ExpireStep DEF cvVars
<1>6. QED  BY <1>1, <1>2, <1>3, <1>4, <1>5 DEF CVNext

LEMMA ConversationIsSound == CVSpec => []CVInv
  BY CVStarts, CVStep, PTL DEF CVSpec

\* A turn that says it is done has its question and its answer in the transcript,
\* in this order, and nothing else was shown (stream_message, add_message).
THEOREM DoneStaysStored == CVSpec => []DoneIsStored
  BY ConversationIsSound, InvImplies, PTL

\* A card is answered at most once, directly behind it, although it is looked at
\* long before the submission is stored (_validate_intake_submission).
THEOREM CardsStayInTurn == CVSpec => []CardsAreAnsweredInTurn
  BY ConversationIsSound, InvImplies, PTL

\* Nothing comes back into a deleted session: no turn is under way when it closes,
\* and none is entered again (delete_chat_session).
THEOREM DeletedStay == CVSpec => DeletedStaysEmpty
<1>1. CVInv /\ CVInv' /\ [CVNext]_cvVars =>
        [/\ session = "deleted" => session' = "deleted"
         /\ session' = "deleted" => log' = <<>>]_cvVars
  <2> SUFFICES ASSUME CVInv, CVInv', CVNext, session = "deleted" PROVE session' = "deleted"
    BY DEF CVInv, Leased
  <2>1. lease = Nobody /\ op.at # "deleting" /\ \A r \in Requests : turn[r].at = "out"
    BY ConversationAssumption DEF CVInv, Leased
  <2>2. ASSUME NEW r \in Requests,
               \/ Enter(r) \/ Validate(r) \/ NothingToValidate(r) \/ Normalize(r)
               \/ AskAgain(r) \/ Ask(r) \/ Replay(r) \/ Complete(r) \/ Interrupted(r) \/ RunFails(r)
               \/ AnswerAgain(r) \/ Answer(r) \/ Emit(r) \/ EmitInterrupted(r)
               \/ Cancel(r) \/ WorkerDies(r)
        PROVE  session' = session
    BY <2>2 DEF Enter, Validate, NothingToValidate, Normalize, AskAgain, Ask, Replay, Complete, Interrupted,
       RunFails, AnswerAgain, Answer, Emit, EmitInterrupted, Cancel, WorkerDies
  <2>3. QED  BY <2>1, <2>2 DEF CVNext, Expire, ReadSession, DeleteMessages, CloseDeleted, DeleteDies
<1>2. QED  BY ConversationIsSound, <1>1, PTL DEF CVSpec, DeletedStaysEmpty
-----------------------------------------------------------------------------
(* VectorIndex.                                                            *)

Ingestion == [at : {"idle", "loaded", "embedding", "ready"}, rebuild : BOOLEAN,
              chunks : SUBSET Chunks, build : 0..MaxBuilds, tries : Nat]
Revisions == Nat \X Nat

\* The types the proof needs; the cache of embeddings is left out.
VIKinds ==
  /\ active \in 0..MaxBuilds /\ stamp \in Nat
  /\ rows \in [Builds -> SUBSET Chunks] /\ DOMAIN count = Builds
  /\ ingest \in [Ingests -> Ingestion] /\ last \subseteq Chunks
  /\ sparse \in [revision : Revisions, rows : SUBSET Chunks]
  /\ search \in [Searches -> [at : {"idle", "waiting", "building"}, revision : Revisions]]

\* What an ingestion carries between its transactions.
Carried(n) ==
  n.at # "idle" =>
    /\ OneVersionEach(n.chunks)
    /\ n.at \in {"embedding", "ready"} /\ ~n.rebuild => n.build # 0

\* A revision that is not that of the moment is older, and is never reached again.
Bygone(revision) == revision[2] <= stamp /\ (revision[2] = stamp /\ active # 0 => revision = Revision)
Revised ==
  /\ \A s \in Searches : search[s].at # "idle" => search[s].revision[1] \in Builds /\ Bygone(search[s].revision)
  /\ sparse.revision[2] <= stamp
  /\ active # 0 /\ sparse.revision = Revision => sparse.rows = Active

VIInv == VIKinds /\ (\A i \in Ingests : Carried(ingest[i])) /\ Revised /\ IngestedIsSearchable

LEMMA VIStarts == VIInit => VIInv
<1> SUFFICES ASSUME VIInit PROVE VIInv
  OBVIOUS
<1>1. Idle \in Ingestion /\ Carried(Idle)
  BY VectorIndexAssumption DEF Idle, Ingestion, Carried
<1>2. NoRevision \in Revisions /\ NoRevision[2] = 0
  BY DEF NoRevision, Revisions
<1>3. VIKinds
  BY <1>1, <1>2, VectorIndexAssumption DEF VIInit, VIKinds, Builds
<1>4. Revised
  BY <1>2 DEF VIInit, Revised
<1>5. IngestedIsSearchable
  BY DEF VIInit, IngestedIsSearchable, OneVersionEach, Active
<1>6. QED  BY <1>1, <1>3, <1>4, <1>5 DEF VIInit, VIInv

\* An ingestion that leaves the rows as they are.
LEMMA IngestStep ==
  ASSUME VIInv, NEW i \in Ingests, NEW n \in Ingestion, Step(i, n), Carried(n), KeepIndex, KeepReaders
  PROVE  VIInv'
<1>1. UNCHANGED <<active, stamp, rows, count, last, sparse, search>>
  BY DEF KeepIndex, KeepReaders
<1>2. ingest' \in [Ingests -> Ingestion] /\ \A k \in Ingests : Carried(ingest'[k])
  BY DEF VIInv, VIKinds, Step
<1>3. VIKinds'
  BY <1>1, <1>2 DEF VIInv, VIKinds
<1>4. Revised' /\ IngestedIsSearchable'
  BY <1>1 DEF VIInv, Revised, Bygone, Revision, Active, IngestedIsSearchable
<1>5. QED  BY <1>2, <1>3, <1>4 DEF VIInv

LEMMA Quiet == Idle \in Ingestion /\ Carried(Idle)
  BY VectorIndexAssumption DEF Idle, Ingestion, Carried

LEMMA PrepareStep ==
  ASSUME VIInv, NEW i \in Ingests,
         Load(i) \/ CheckActive(i) \/ EmbedCached(i) \/ Embed(i) \/ EmbedFails(i) \/ IngestDies(i)
  PROVE  VIInv'
<1>0. ingest[i] \in Ingestion /\ Carried(ingest[i]) /\ active \in 0..MaxBuilds
  BY DEF VIInv, VIKinds
<1>1. CASE Load(i)
  <2>1. PICK C \in Menu, rebuild \in BOOLEAN :
          /\ OneVersionEach(C)
          /\ Step(i, [Idle EXCEPT !.at = IF rebuild THEN "embedding" ELSE "loaded", !.rebuild = rebuild, !.chunks = C])
    BY <1>1 DEF Load
  <2>2. PICK n : n = [Idle EXCEPT !.at = IF rebuild THEN "embedding" ELSE "loaded", !.rebuild = rebuild, !.chunks = C]
    OBVIOUS
  <2>3. C \subseteq Chunks
    BY VectorIndexAssumption
  <2>4. n \in Ingestion /\ Carried(n)
    BY <2>1, <2>2, <2>3, Quiet DEF Idle, Ingestion, Carried
  <2>5. QED  BY <1>1, <2>1, <2>2, <2>4, IngestStep DEF Load
<1>2. CASE CheckActive(i)
  <2>1. PICK n \in Ingestion : Step(i, n) /\ Carried(n)
    <3>1. ingest[i].at = "loaded"
      BY <1>2 DEF CheckActive, At
    <3>2. CASE active = 0
      <4>1. [ingest[i] EXCEPT !.at = "embedding", !.rebuild = TRUE] \in Ingestion
        BY <1>0 DEF Ingestion
      <4>2. Carried([ingest[i] EXCEPT !.at = "embedding", !.rebuild = TRUE])
        BY <1>0, <3>1 DEF Ingestion, Carried
      <4>3. QED  BY <1>2, <3>2, <4>1, <4>2 DEF CheckActive
    <3>3. CASE active # 0
      <4>1. [ingest[i] EXCEPT !.at = "embedding", !.build = active] \in Ingestion
        BY <1>0 DEF Ingestion
      <4>2. Carried([ingest[i] EXCEPT !.at = "embedding", !.build = active])
        BY <1>0, <3>1, <3>3 DEF Ingestion, Carried
      <4>3. QED  BY <1>2, <3>3, <4>1, <4>2, Quiet DEF CheckActive
    <3>4. QED  BY <3>2, <3>3
  <2>2. QED  BY <1>2, <2>1, IngestStep DEF CheckActive
<1>3. CASE EmbedCached(i) \/ Embed(i)
  <2>1. PICK n \in Ingestion : Step(i, n) /\ Carried(n)
    BY <1>0, <1>3 DEF EmbedCached, Embed, At, Ingestion, Carried
  <2>2. QED  BY <1>3, <2>1, IngestStep DEF EmbedCached, Embed
<1>4. CASE EmbedFails(i)
  <2>1. PICK n \in Ingestion : Step(i, n) /\ Carried(n)
    <3>1. [ingest[i] EXCEPT !.tries = ingest[i].tries + 1] \in Ingestion
      BY <1>0 DEF Ingestion
    <3>2. Carried([ingest[i] EXCEPT !.tries = ingest[i].tries + 1])
      BY <1>0 DEF Ingestion, Carried
    <3>3. QED  BY <1>4, <3>1, <3>2, Quiet DEF EmbedFails
  <2>2. QED  BY <1>4, <2>1, IngestStep DEF EmbedFails
<1>5. CASE IngestDies(i)
  BY <1>5, Quiet, IngestStep DEF IngestDies
<1>6. QED  BY <1>1, <1>2, <1>3, <1>4, <1>5

\* A commit: the version it writes is active, and every revision read before is past.
LEMMA CommitStep ==
  ASSUME VIInv, NEW i \in Ingests, Step(i, Idle), KeepReaders, NEW b \in Builds, NEW R \in SUBSET Chunks,
         active' = b, stamp' = stamp + 1, rows' = [rows EXCEPT ![b] = R],
         count' = [count EXCEPT ![b] = Cardinality(R)], last' \subseteq Chunks,
         \A c \in last' : \E r \in R : Same(c, r), OneVersionEach(R)
  PROVE  VIInv'
<1>0. b \in 0..MaxBuilds /\ b # 0 /\ stamp \in Nat /\ stamp' \in Nat
  BY DEF VIInv, VIKinds, Builds
<1>1. rows' \in [Builds -> SUBSET Chunks] /\ rows'[b] = R /\ count'[b] = Cardinality(R) /\ DOMAIN count' = Builds
  BY DEF VIInv, VIKinds
<1>2. ingest' \in [Ingests -> Ingestion] /\ \A k \in Ingests : Carried(ingest'[k])
  BY Quiet DEF VIInv, VIKinds, Step
<1>3. sparse' = sparse /\ search' = search
  BY DEF KeepReaders
<1>4. VIKinds'
  BY <1>0, <1>1, <1>2, <1>3 DEF VIInv, VIKinds
<1>5. Active' = R
  BY <1>0, <1>1 DEF Active
<1>6. IngestedIsSearchable'
  BY <1>1, <1>5 DEF IngestedIsSearchable, OneVersionEach
<1>7. Revised'
  <2>1. sparse.revision[2] \in Nat /\ sparse.revision[2] <= stamp
    BY DEF VIInv, VIKinds, Revised, Revisions
  <2>2. sparse'.revision # Revision'
    BY <1>0, <1>3, <2>1 DEF Revision
  <2>3. ASSUME NEW s \in Searches, search[s].at # "idle"
        PROVE  search[s].revision[1] \in Builds /\ search[s].revision[2] <= stamp /\ search[s].revision[2] \in Nat
    BY <2>3 DEF VIInv, VIKinds, Revised, Bygone, Revisions
  <2>4. QED  BY <1>0, <1>3, <2>1, <2>2, <2>3 DEF Revised, Bygone
<1>8. QED  BY <1>2, <1>4, <1>6, <1>7 DEF VIInv

LEMMA PublishStep == ASSUME VIInv, NEW i \in Ingests, Publish(i) PROVE VIInv'
<1>0. Mine(i) \in SUBSET Chunks /\ OneVersionEach(Mine(i)) /\ Step(i, Idle) /\ KeepReaders
  BY DEF VIInv, VIKinds, Publish, At, Mine, Ingestion, Carried
<1>1. CASE ~Staged(Mine(i))
  BY <1>0, <1>1, Quiet, IngestStep DEF Publish
<1>2. CASE Staged(Mine(i))
  <2>1. PICK b \in Builds :
          /\ rows' = [rows EXCEPT ![b] = Mine(i)] /\ count' = [count EXCEPT ![b] = Cardinality(Mine(i))]
          /\ active' = b /\ stamp' = stamp + 1 /\ last' = Mine(i)
    BY <1>2 DEF Publish
  <2>2. PICK C \in SUBSET Chunks : C = Mine(i)
    BY <1>0
  <2>3. \A c \in C : \E r \in C : Same(c, r)
    BY DEF Same
  <2>4. QED  BY <1>0, <2>1, <2>2, <2>3, CommitStep
<1>3. QED  BY <1>1, <1>2

\* Rows of the documents that were not ingested stay, of the others only those of
\* the version that was.
LEMMA OneVersionIsKept ==
  ASSUME NEW old \in SUBSET Chunks, NEW C \in SUBSET Chunks, OneVersionEach(old), OneVersionEach(C), NEW R \in Inserted(old, C)
  PROVE  /\ R \ Replaced(R, C) \in SUBSET Chunks
         /\ OneVersionEach(R \ Replaced(R, C))
         /\ \A c \in C : \E r \in R \ Replaced(R, C) : Same(c, r)
<1>1. R \subseteq old \cup C /\ \A c \in C : \E d \in R : Same(c, d)
  BY DEF Inserted
<1>2. ASSUME NEW r \in R \ Replaced(R, C), NEW c \in C, c.doc = r.doc PROVE r.ver = c.ver
  <2>1. <<r.doc, r.ver>> \in Versions(C)
    BY <1>2 DEF Replaced
  <2>2. PICK d \in C : d.doc = r.doc /\ d.ver = r.ver
    BY <2>1 DEF Versions
  <2>3. QED  BY <1>2, <2>2 DEF OneVersionEach
<1>3. ASSUME NEW r \in R \ Replaced(R, C), NEW d \in R \ Replaced(R, C), r.doc = d.doc PROVE r.ver = d.ver
  <2>1. CASE \E c \in C : c.doc = r.doc
    BY <1>2, <1>3, <2>1
  <2>2. CASE ~\E c \in C : c.doc = r.doc
    BY <1>1, <1>3, <2>2 DEF OneVersionEach
  <2>3. QED  BY <2>1, <2>2
<1>4. ASSUME NEW c \in C PROVE \E r \in R \ Replaced(R, C) : Same(c, r)
  <2>1. PICK d \in R : Same(c, d)
    BY <1>1
  <2>2. <<d.doc, d.ver>> \in Versions(C)
    BY <2>1 DEF Same, Versions
  <2>3. QED  BY <2>1, <2>2 DEF Replaced
<1>5. QED  BY <1>1, <1>3, <1>4 DEF OneVersionEach

LEMMA InsertStep == ASSUME VIInv, NEW i \in Ingests, Insert(i) PROVE VIInv'
<1>0. Mine(i) \in SUBSET Chunks /\ OneVersionEach(Mine(i)) /\ Step(i, Idle) /\ KeepReaders /\ ingest[i].build # 0
  BY DEF VIInv, VIKinds, Insert, At, Mine, Ingestion, Carried
<1>1. CASE ~Unmoved(i)
  BY <1>0, <1>1, Quiet, IngestStep DEF Insert
<1>2. CASE Unmoved(i)
  <2>1. PICK b \in Builds : b = ingest[i].build /\ b = active
    BY <1>0, <1>2, VectorIndexAssumption DEF Unmoved, VIInv, VIKinds, Builds
  <2>2. PICK C \in SUBSET Chunks : C = Mine(i)
    BY <1>0
  <2>3. PICK old \in SUBSET Chunks : old = rows[b]
    BY <2>1 DEF VIInv, VIKinds
  <2>4. PICK R \in Inserted(old, C) :
          /\ rows' = [rows EXCEPT ![b] = R \ Replaced(R, C)]
          /\ count' = [count EXCEPT ![b] = Cardinality(R \ Replaced(R, C))]
          /\ stamp' = stamp + 1 /\ last' = C /\ UNCHANGED active
    BY <1>2, <2>1, <2>2, <2>3 DEF Insert
  <2>5. OneVersionEach(old)
    BY <2>1, <2>3, VectorIndexAssumption DEF VIInv, IngestedIsSearchable, Active, Builds
  <2>6. PICK kept \in SUBSET Chunks : kept = R \ Replaced(R, C)
    BY <1>0, <2>2, <2>5, OneVersionIsKept
  <2>7. OneVersionEach(kept) /\ \A c \in C : \E r \in kept : Same(c, r)
    BY <1>0, <2>2, <2>5, <2>6, OneVersionIsKept
  <2>8. QED  BY <1>0, <2>1, <2>2, <2>4, <2>6, <2>7, CommitStep
<1>3. QED  BY <1>1, <1>2
-----------------------------------------------------------------------------
LEMMA SearchStep ==
  ASSUME VIInv, NEW s \in Searches, ReadRevision(s) \/ UseSparse(s) \/ LockSparse(s) \/ BuildSparse(s)
  PROVE  VIInv'
<1>1. UNCHANGED <<active, stamp, rows, count, ingest, last>>
  BY DEF ReadRevision, UseSparse, LockSparse, BuildSparse, KeepWriters
<1>2. IngestedIsSearchable' /\ \A i \in Ingests : Carried(ingest'[i])
  BY <1>1 DEF VIInv, IngestedIsSearchable, Active
<1>3. PICK entry \in [at : {"idle", "waiting", "building"}, revision : Revisions] :
        /\ Move(s, entry)
        /\ entry.at # "idle" => entry.revision[1] \in Builds /\ Bygone(entry.revision)
  <2>1. search[s] \in [at : {"idle", "waiting", "building"}, revision : Revisions]
        /\ (search[s].at # "idle" => search[s].revision[1] \in Builds /\ Bygone(search[s].revision))
    BY DEF VIInv, VIKinds, Revised
  <2>2. CASE ReadRevision(s)
    <3>1. Revision \in Revisions /\ Revision[1] \in Builds /\ Bygone(Revision)
      BY <2>2, VectorIndexAssumption DEF ReadRevision, VIInv, VIKinds, Revision, Revisions, Builds, Bygone
    <3>2. QED  BY <2>2, <3>1 DEF ReadRevision
  <2>3. CASE LockSparse(s)
    BY <2>1, <2>3 DEF LockSparse, Looking
  <2>4. CASE UseSparse(s) \/ BuildSparse(s)
    BY <2>4 DEF UseSparse, BuildSparse, Leaves, NoRevision, Revisions
  <2>5. QED  BY <2>2, <2>3, <2>4
<1>4. sparse' \in [revision : Revisions, rows : SUBSET Chunks] /\ sparse'.revision[2] <= stamp
      /\ (active # 0 /\ sparse'.revision = Revision => sparse'.rows = Active)
  <2>1. CASE sparse' = sparse
    BY <2>1 DEF VIInv, VIKinds, Revised
  <2>2. CASE sparse' # sparse
    <3>1. Looking(s, "building") /\ sparse' = [revision |-> search[s].revision, rows |-> rows[search[s].revision[1]]]
      BY <2>2 DEF ReadRevision, UseSparse, LockSparse, BuildSparse
    <3>2. search[s].revision \in Revisions /\ search[s].revision[1] \in Builds /\ search[s].revision[2] <= stamp
      BY <3>1 DEF VIInv, VIKinds, Revised, Bygone, Looking
    <3>3. rows[search[s].revision[1]] \in SUBSET Chunks
      BY <3>2 DEF VIInv, VIKinds
    <3>4. QED  BY <3>1, <3>2, <3>3 DEF Revision, Active
  <2>3. QED  BY <2>1, <2>2
<1>5. search' \in [Searches -> [at : {"idle", "waiting", "building"}, revision : Revisions]]
      /\ \A v \in Searches : search'[v] = IF v = s THEN entry ELSE search[v]
  BY <1>3 DEF Move, VIInv, VIKinds
<1>6. VIKinds'
  BY <1>1, <1>4, <1>5 DEF VIInv, VIKinds
<1>7. Revised'
  <2>1. \A v \in Searches : search'[v].at # "idle" =>
          search'[v].revision[1] \in Builds /\ Bygone(search'[v].revision)
    BY <1>3, <1>5 DEF VIInv, Revised
  <2>2. QED  BY <1>1, <1>4, <2>1 DEF Revised, Bygone, Revision, Active
<1>8. QED  BY <1>2, <1>6, <1>7 DEF VIInv

LEMMA VIStutters == VIInv /\ UNCHANGED viVars => VIInv'
  BY DEF VIInv, VIKinds, Revised, Bygone, Revision, Active, IngestedIsSearchable, viVars

LEMMA VIStep == VIInv /\ [VINext]_viVars => VIInv'
  BY PrepareStep, PublishStep, InsertStep, SearchStep, VIStutters DEF VINext

\* A search of the last revision answers from the rows of that revision.
LEMMA SearchesAreCurrent ==
  ASSUME VIInv, VINext, NEW s \in Searches, search[s].at # "idle", search'[s].at = "idle",
         search[s].revision = Revision, Looking(s, "waiting") \/ sparse' # sparse
  PROVE  sparse'.rows = Active
<1>0. \A v \in Searches : search[v].at # "idle" => search[v].revision[1] \in Builds
  BY DEF VIInv, Revised
<1>1. ASSUME NEW i \in Ingests,
             \/ Load(i) \/ CheckActive(i) \/ EmbedCached(i) \/ Embed(i) \/ EmbedFails(i)
             \/ Publish(i) \/ Insert(i) \/ IngestDies(i)
      PROVE  search' = search
  BY <1>1 DEF Load, CheckActive, EmbedCached, Embed, EmbedFails, Publish, Insert, IngestDies, KeepReaders
<1>2. PICK v \in Searches : ReadRevision(v) \/ UseSparse(v) \/ LockSparse(v) \/ BuildSparse(v)
  BY <1>1 DEF VINext
<1>3. v = s
  BY <1>2 DEF ReadRevision, UseSparse, LockSparse, BuildSparse, Leaves, Move, VIInv, VIKinds
<1>4. Revision[1] \in Builds /\ Revision[1] = active
  BY <1>0 DEF Revision
<1>5. active # 0
  BY <1>4, VectorIndexAssumption DEF Builds
<1>6. CASE UseSparse(s)
  BY <1>5, <1>6 DEF UseSparse, IsCached, VIInv, Revised
<1>7. CASE BuildSparse(s)
  BY <1>4, <1>5, <1>7 DEF BuildSparse, Looking, Active
<1>8. ~ReadRevision(s)
  BY DEF ReadRevision, Looking
<1>9. ~LockSparse(s)
  BY DEF LockSparse, Move, VIInv, VIKinds
<1>10. QED  BY <1>2, <1>3, <1>6, <1>7, <1>8, <1>9

\* What was ingested can be found until the next ingestion, and a search that starts
\* after the last commit answers from exactly the rows of the active version
\* (postgres_vector_store.py, add_chunks, replace_chunks, sparse_search).
THEOREM IndexIsAlwaysServed == VISpec => IndexIsServed
<1>1. VISpec => []VIInv
  BY VIStarts, VIStep, PTL DEF VISpec
<1>2. VIInv => IngestedIsSearchable
  BY DEF VIInv
<1>3. VIInv /\ [VINext]_viVars =>
        [\A s \in Searches :
           /\ search[s].at # "idle" /\ search'[s].at = "idle" /\ search[s].revision = Revision
           /\ Looking(s, "waiting") \/ sparse' # sparse
           => sparse'.rows = Active]_viVars
  BY SearchesAreCurrent
<1>4. VISpec => []IngestedIsSearchable
  BY <1>1, <1>2, PTL
<1>5. VISpec => SparseIsCurrent
  BY <1>1, <1>3, PTL DEF VISpec, SparseIsCurrent
<1>6. QED  BY <1>4, <1>5, PTL DEF IndexIsServed
-----------------------------------------------------------------------------
(* Extraction: the quota.                                                  *)

\* The types the proofs need; the bounds of the counters are left out.
EXKinds ==
  /\ shared \in Nat /\ local \in [Workers -> Nat] /\ job \in [Workers -> Job]
  /\ media \in Nat /\ pdfs \in Nat
  /\ chunks \subseteq [page : PageNumbers, text : PageNumbers]
  /\ granted \in Nat /\ fallbacks \in Nat /\ paid \in Nat

\* What the counters may still grant: the one of Redis, and those that a process
\* has begun to use and has not lost.
SharedRoom == {n \in 1..Limit : n > shared}
LocalRoom == {x \in Workers \X (1..Limit) : local[x[1]] > 0 /\ x[2] > local[x[1]]}

\* The calls that images already granted may still cost.
Credit ==
  {x \in Workers \X (0..MaxRetries) :
     job[x[1]].at = "calling" /\ job[x[1]].use = "image" /\ job[x[1]].tries <= x[2]}

Granting ==
  /\ IsFiniteSet(LocalRoom)
  /\ granted + Cardinality(LocalRoom) + Cardinality(SharedRoom) <= Limit * (1 + fallbacks)
Charging ==
  /\ IsFiniteSet(Credit)
  /\ paid + Cardinality(Credit) <= (MaxRetries + 1) * granted

-----------------------------------------------------------------------------
(* Extraction: the pages.                                                  *)

\* What is true of the work on one file, wherever it stands.
Told(j) ==
  /\ \A n \in PageNumbers :
       /\ j.text[n] \in {0, n}
       /\ j.use # "image" /\ j.at # "idle" =>
            /\ j.layer[n] = "text" => j.text[n] = n
            /\ j.text[n] = 0 <=> j.state[n] \in {"intentionally_skipped", "error"}
  /\ j.at = "metering" => j.use = "image"
  /\ j.at = "paging" => j.use # "image"
  /\ j.at = "calling" /\ j.use # "image" => j.page \in Scanned(j.layer)

\* A page of an attachment that was scanned has its text once it had its turn; all
\* of them are read before it is ready.
AllRead(j) ==
  j.use = "attachment" /\ j.at # "idle" =>
    /\ ~OcrEnabled => Scanned(j.layer) = {}
    /\ j.at \in {"paging", "calling"} =>
         \A n \in Scanned(j.layer) : n < j.page => j.text[n] = n
    /\ j.at = "ready" => \A n \in PageNumbers : j.text[n] = n

Paged ==
  /\ \A c \in chunks : c.page = c.text
  /\ \A w \in Workers : Told(job[w]) /\ AllRead(job[w])

EXInv == EXKinds /\ Granting /\ Charging /\ Paged

LEMMA NoJobIsAJob == NoJob \in Job /\ Told(NoJob) /\ AllRead(NoJob)
<1>1. 1 \in 1..NPages + 1 /\ 0 \in 0..MaxRetries /\ 0 \in 0..NPages
  BY ExtractionAssumption
<1>2. NoJob \in Job
  BY <1>1 DEF NoJob, Job, Uses, Layers, States
<1>3. QED  BY <1>2 DEF NoJob, Told, AllRead

LEMMA EXStarts == EXInit => EXInv
<1> SUFFICES ASSUME EXInit PROVE EXInv
  OBVIOUS
<1>1. EXKinds
  BY NoJobIsAJob DEF EXInit, EXKinds
<1>2. Paged
  BY NoJobIsAJob DEF EXInit, Paged
<1>3. LocalRoom = {} /\ SharedRoom = 1..Limit
  BY ExtractionAssumption DEF EXInit, LocalRoom, SharedRoom
<1>4. Credit = {}
  BY DEF EXInit, Credit, NoJob
<1>5. Granting
  BY <1>3, ExtractionAssumption, FS_EmptySet, FS_Interval DEF EXInit, Granting
<1>6. Charging
  BY <1>4, ExtractionAssumption, FS_EmptySet DEF EXInit, Charging
<1>7. QED  BY <1>1, <1>2, <1>5, <1>6 DEF EXInv

\* Replacing the job of one process keeps the invariant of the pages.
LEMMA PagedJobs ==
  ASSUME EXKinds, Paged, NEW w \in Workers, NEW j \in Job, Told(j), AllRead(j), SetJob(w, j)
  PROVE  /\ job' \in [Workers -> Job]
         /\ \A v \in Workers : job'[v] = IF v = w THEN j ELSE job[v]
         /\ \A v \in Workers : Told(job'[v]) /\ AllRead(job'[v])
<1>1. job' \in [Workers -> Job] /\ \A v \in Workers : job'[v] = IF v = w THEN j ELSE job[v]
  BY DEF SetJob, EXKinds
<1>2. QED  BY <1>1 DEF Paged

LEMMA Times == ASSUME NEW a \in Nat, NEW b \in Nat PROVE a * (1 + (b + 1)) = a * (1 + b) + a /\ a * (b + 1) = a * b + a /\ a * b \in Nat
  OBVIOUS

\* The counters of the quota: one grant takes a place of the room.
LEMMA SharedGrants ==
  ASSUME EXKinds, Granting, shared' = shared + 1, local' = local, fallbacks' = fallbacks,
         \/ granted' = granted
         \/ granted' = granted + 1 /\ shared' <= Limit
  PROVE  Granting'
<1> USE ExtractionAssumption
<1>0. shared \in Nat /\ granted \in Nat /\ fallbacks \in Nat
  BY DEF EXKinds
<1>1. LocalRoom' = LocalRoom
  BY DEF LocalRoom
<1>2. IsFiniteSet(SharedRoom) /\ Cardinality(SharedRoom) \in Nat
  <2>1. IsFiniteSet(1..Limit)
    BY FS_Interval
  <2>2. SharedRoom \in SUBSET (1..Limit)
    BY DEF SharedRoom
  <2>3. QED  BY <2>1, <2>2, FS_Subset, FS_CardinalityType
<1>3. SharedRoom' = SharedRoom \ {shared + 1}
  BY <1>0 DEF SharedRoom
<1>4. Cardinality(SharedRoom') =
        IF shared + 1 \in SharedRoom THEN Cardinality(SharedRoom) - 1 ELSE Cardinality(SharedRoom)
  BY <1>2, <1>3, FS_RemoveElement
<1>5. shared' <= Limit => shared + 1 \in SharedRoom
  BY <1>0 DEF SharedRoom
<1>6. Cardinality(LocalRoom) \in Nat /\ Limit * (1 + fallbacks) \in Nat
  BY <1>0, FS_CardinalityType DEF Granting
<1>7. granted' + Cardinality(SharedRoom') <= granted + Cardinality(SharedRoom)
  BY <1>0, <1>2, <1>4, <1>5
<1>8. Limit * (1 + fallbacks') = Limit * (1 + fallbacks)
  OBVIOUS
<1>9. Cardinality(SharedRoom') \in Nat
  BY <1>2, <1>3, FS_RemoveElement, FS_CardinalityType
<1>10. QED  BY <1>0, <1>1, <1>2, <1>6, <1>7, <1>8, <1>9 DEF Granting

LEMMA SharedRoomShrinks ==
  ASSUME EXKinds, shared' \in {shared, shared + 1}
  PROVE  Cardinality(SharedRoom') <= Cardinality(SharedRoom) /\ Cardinality(SharedRoom') \in Nat /\ Cardinality(SharedRoom) \in Nat
<1>1. IsFiniteSet(1..Limit)
  BY FS_Interval, ExtractionAssumption
<1>2. SharedRoom \in SUBSET (1..Limit) /\ SharedRoom' \in SUBSET SharedRoom
  BY ExtractionAssumption DEF SharedRoom, EXKinds
<1>3. QED  BY <1>1, <1>2, FS_Subset, FS_CardinalityType

LEMMA LocalGrants ==
  ASSUME EXKinds, Granting, NEW w \in Workers, shared' \in {shared, shared + 1},
         local' = [local EXCEPT ![w] = @ + 1],
         fallbacks' = IF local[w] = 0 THEN fallbacks + 1 ELSE fallbacks,
         \/ granted' = granted
         \/ granted' = granted + 1 /\ local'[w] <= Limit
  PROVE  Granting'
<1> USE ExtractionAssumption
<1>0. /\ granted \in Nat /\ fallbacks \in Nat /\ local \in [Workers -> Nat] /\ local[w] \in Nat
      /\ Cardinality(LocalRoom) \in Nat /\ IsFiniteSet(LocalRoom)
  BY FS_CardinalityType DEF EXKinds, Granting
<1>1. local'[w] = local[w] + 1 /\ \A v \in Workers : v # w => local'[v] = local[v]
  BY <1>0
<1> DEFINE here == <<w, local[w] + 1>>
           began == {w} \X (2..Limit)
<1>2. IsFiniteSet(began) /\ Cardinality(began) <= Limit - 1 /\ Cardinality(began) \in Nat
  <2>1. IsFiniteSet(2..Limit) /\ Cardinality(2..Limit) = Limit - 1
    BY FS_Interval
  <2>2. IsFiniteSet({w}) /\ Cardinality({w}) = 1
    BY FS_Singleton
  <2>3. IsFiniteSet(began) /\ Cardinality(began) = 1 * (Limit - 1)
    BY <2>1, <2>2, FS_Product, Zenon
  <2>4. QED  BY <2>3
<1>3. CASE local[w] = 0
  <2>1. LocalRoom' \subseteq LocalRoom \cup began
    BY <1>1, <1>3 DEF LocalRoom
  <2>2. IsFiniteSet(LocalRoom \cup began) /\ Cardinality(LocalRoom \cup began) <= Cardinality(LocalRoom) + Cardinality(began)
    <3> HIDE DEF began
    <3>1. IsFiniteSet(LocalRoom \cup began) /\ Cardinality(LocalRoom \cup began)
            = Cardinality(LocalRoom) + Cardinality(began) - Cardinality(LocalRoom \cap began)
      BY <1>0, <1>2, FS_Union
    <3>2. Cardinality(LocalRoom \cap began) \in Nat
      BY <1>0, FS_Intersection, FS_CardinalityType
    <3>3. QED  BY <3>1, <3>2, <1>0, <1>2
  <2>3. IsFiniteSet(LocalRoom') /\ Cardinality(LocalRoom') <= Cardinality(LocalRoom) + (Limit - 1)
    /\ Cardinality(LocalRoom') \in Nat
    BY <2>1, <2>2, <1>0, <1>2, FS_Subset, FS_CardinalityType
  <2>4. Limit * (1 + fallbacks') = Limit * (1 + fallbacks) + Limit /\ Limit * (1 + fallbacks) \in Nat
    BY <1>0, <1>3, Times
  <2>5. granted' <= granted + 1 /\ granted' \in Nat
    BY <1>0
  <2>6. QED  BY <2>3, <2>4, <2>5, <1>0, SharedRoomShrinks DEF Granting
<1>4. CASE local[w] # 0
  <2>1. LocalRoom' = LocalRoom \ {here}
    BY <1>0, <1>1, <1>4 DEF LocalRoom
  <2>2. local'[w] <= Limit => here \in LocalRoom
    BY <1>0, <1>1, <1>4 DEF LocalRoom
  <2>3. IsFiniteSet(LocalRoom') /\ Cardinality(LocalRoom') \in Nat
        /\ Cardinality(LocalRoom') = IF here \in LocalRoom THEN Cardinality(LocalRoom) - 1 ELSE Cardinality(LocalRoom)
    BY <2>1, <1>0, FS_RemoveElement, FS_CardinalityType
  <2>4. granted' + Cardinality(LocalRoom') <= granted + Cardinality(LocalRoom) /\ granted' \in Nat
    BY <2>2, <2>3, <1>0
  <2>5. Limit * (1 + fallbacks') = Limit * (1 + fallbacks) /\ Limit * (1 + fallbacks) \in Nat
    BY <1>0, <1>4, Times
  <2>6. QED  BY <2>3, <2>4, <2>5, <1>0, SharedRoomShrinks DEF Granting
<1>5. QED  BY <1>3, <1>4

\* A restart loses the local counter, and with it what it might have granted.
LEMMA RestartGrants ==
  ASSUME EXKinds, Granting, NEW w \in Workers, local' = [local EXCEPT ![w] = 0],
         UNCHANGED <<shared, granted, fallbacks>>
  PROVE  Granting'
<1>1. LocalRoom' \in SUBSET LocalRoom
  BY DEF LocalRoom, EXKinds
<1>2. IsFiniteSet(LocalRoom') /\ Cardinality(LocalRoom') <= Cardinality(LocalRoom)
      /\ Cardinality(LocalRoom') \in Nat /\ Cardinality(LocalRoom) \in Nat
  BY <1>1, FS_Subset, FS_CardinalityType DEF Granting
<1>3. shared' \in {shared, shared + 1} /\ granted \in Nat /\ Limit * (1 + fallbacks) \in Nat
  BY Times, ExtractionAssumption DEF EXKinds
<1>4. QED  BY <1>2, <1>3, SharedRoomShrinks DEF Granting

LEMMA CountersKept ==
  ASSUME Granting, UNCHANGED <<shared, local, granted, fallbacks>>
  PROVE  Granting'
  BY DEF Granting, LocalRoom, SharedRoom

\* What the calls may still cost: a call takes one from the credit, a grant of the
\* quota opens all the tries of one image.
LEMMA CreditOf ==
  ASSUME EXKinds, NEW w \in Workers, NEW j \in Job, SetJob(w, j)
  PROVE  \A x \in Workers \X (0..MaxRetries) :
           x \in Credit' <=> IF x[1] = w THEN j.at = "calling" /\ j.use = "image" /\ j.tries <= x[2]
                                         ELSE x \in Credit
  BY DEF EXKinds, SetJob, Credit

LEMMA CreditIsPairs == Credit \subseteq Workers \X (0..MaxRetries) /\ Credit' \subseteq Workers \X (0..MaxRetries)
  BY DEF Credit

LEMMA ChargesKept ==
  ASSUME EXKinds, Charging, Credit' \subseteq Credit, paid' = paid, granted' = granted
  PROVE  Charging'
<1>1. IsFiniteSet(Credit') /\ Cardinality(Credit') <= Cardinality(Credit)
      /\ Cardinality(Credit') \in Nat /\ Cardinality(Credit) \in Nat
  BY FS_Subset, FS_CardinalityType DEF Charging
<1>2. (MaxRetries + 1) * granted \in Nat /\ paid \in Nat
  BY ExtractionAssumption DEF EXKinds
<1>3. QED  BY <1>1, <1>2 DEF Charging

LEMMA ChargesOnce ==
  ASSUME EXKinds, Charging, NEW x \in Credit, Credit' \subseteq Credit \ {x},
         paid' \in {paid, paid + 1}, granted' = granted
  PROVE  Charging'
<1>1. IsFiniteSet(Credit \ {x}) /\ Cardinality(Credit \ {x}) = Cardinality(Credit) - 1
      /\ Cardinality(Credit) \in Nat
  BY FS_RemoveElement, FS_CardinalityType DEF Charging
<1>2. IsFiniteSet(Credit') /\ Cardinality(Credit') <= Cardinality(Credit) - 1
      /\ Cardinality(Credit') \in Nat
  BY <1>1, FS_Subset, FS_CardinalityType
<1>3. (MaxRetries + 1) * granted \in Nat /\ paid \in Nat
  BY ExtractionAssumption DEF EXKinds
<1>4. QED  BY <1>1, <1>2, <1>3 DEF Charging

LEMMA ChargesGranted ==
  ASSUME EXKinds, Charging, NEW w \in Workers, Credit' \subseteq Credit \cup ({w} \X (0..MaxRetries)),
         paid' = paid, granted' = granted + 1
  PROVE  Charging'
<1> USE ExtractionAssumption
<1> DEFINE tries == {w} \X (0..MaxRetries)
<1>1. IsFiniteSet(tries) /\ Cardinality(tries) = MaxRetries + 1
  <2>1. IsFiniteSet(0..MaxRetries) /\ Cardinality(0..MaxRetries) = MaxRetries + 1
    BY FS_Interval
  <2>2. IsFiniteSet({w}) /\ Cardinality({w}) = 1
    BY FS_Singleton
  <2>3. IsFiniteSet(tries) /\ Cardinality(tries) = 1 * (MaxRetries + 1)
    BY <2>1, <2>2, FS_Product
  <2>4. QED  BY <2>3
<1> HIDE DEF tries
<1>2. IsFiniteSet(Credit) /\ Cardinality(Credit) \in Nat
  BY FS_CardinalityType DEF Charging
<1>3. IsFiniteSet(Credit \cup tries)
      /\ Cardinality(Credit \cup tries) = Cardinality(Credit) + Cardinality(tries) - Cardinality(Credit \cap tries)
  BY <1>1, <1>2, FS_Union
<1>4. Cardinality(Credit \cap tries) \in Nat
  BY <1>2, FS_Intersection, FS_CardinalityType
<1>5. Credit' \subseteq Credit \cup tries
  BY DEF tries
<1>6. IsFiniteSet(Credit') /\ Cardinality(Credit') <= Cardinality(Credit \cup tries)
      /\ Cardinality(Credit') \in Nat
  BY <1>3, <1>5, FS_Subset, FS_CardinalityType
<1>7. Cardinality(Credit') <= Cardinality(Credit) + (MaxRetries + 1)
  BY <1>1, <1>2, <1>3, <1>4, <1>6
<1>8. granted \in Nat /\ paid \in Nat
  BY DEF EXKinds
<1>9. (MaxRetries + 1) * (granted + 1) = (MaxRetries + 1) * granted + (MaxRetries + 1)
      /\ (MaxRetries + 1) * granted \in Nat
  BY <1>8, Times
<1>10. QED  BY <1>2, <1>6, <1>7, <1>8, <1>9 DEF Charging

\* A job that is not calling for an image has no credit.
LEMMA NoCredit ==
  ASSUME EXKinds, Charging, NEW w \in Workers, NEW j \in Job, SetJob(w, j),
         j.at # "calling" \/ j.use # "image", paid' = paid, granted' = granted
  PROVE  Charging'
<1>1. Credit' \subseteq Credit
  BY CreditOf, CreditIsPairs
<1>2. QED  BY <1>1, ChargesKept

-----------------------------------------------------------------------------
(* Extraction: the steps.                                                  *)

\* A step of one process that keeps the counters and the paid calls.
LEMMA WorkStep ==
  ASSUME EXInv, NEW w \in Workers, NEW j \in Job, SetJob(w, j), Told(j), AllRead(j),
         j.at # "calling" \/ j.use # "image",
         media' \in Nat, pdfs' \in Nat, UNCHANGED Counters, UNCHANGED paid,
         chunks' \subseteq [page : PageNumbers, text : PageNumbers], \A c \in chunks' : c.page = c.text
  PROVE  EXInv'
<1>1. UNCHANGED <<shared, local, granted, fallbacks, paid>>
  BY DEF Counters
<1>2. job' \in [Workers -> Job] /\ \A v \in Workers : Told(job'[v]) /\ AllRead(job'[v])
  BY PagedJobs DEF EXInv
<1>3. EXKinds'
  BY <1>1, <1>2 DEF EXInv, EXKinds
<1>4. Granting'
  BY <1>1, CountersKept DEF EXInv
<1>5. Charging'
  BY <1>1, NoCredit DEF EXInv
<1>6. Paged'
  BY <1>2 DEF Paged
<1>7. QED  BY <1>3, <1>4, <1>5, <1>6 DEF EXInv

LEMMA JobsAreTyped ==
  ASSUME EXInv, NEW w \in Workers
  PROVE  job[w] \in Job /\ Told(job[w]) /\ AllRead(job[w])
  BY DEF EXInv, EXKinds, Paged

LEMMA MeteredStep == ASSUME EXInv, NEW w \in Workers, TakeMetered(w) PROVE EXInv'
<1> DEFINE j == [NoJob EXCEPT !.at = "metering"]
<1>1. j \in Job /\ j.at = "metering" /\ j.use = "image" /\ Told(j) /\ AllRead(j)
  BY NoJobIsAJob DEF NoJob, Job, Told, AllRead
<1>2. SetJob(w, j) /\ media' \in Nat /\ pdfs' \in Nat /\ UNCHANGED <<Counters, paid, chunks>>
  BY DEF TakeMetered, EXInv, EXKinds, Counters
<1> HIDE DEF j
<1>3. UNCHANGED Counters /\ UNCHANGED paid /\ chunks' = chunks
  BY <1>2
<1>4. QED  BY <1>1, <1>2, <1>3, WorkStep DEF EXInv, EXKinds, Paged

\* A grant, whichever counter it came from.
LEMMA GrantStep ==
  ASSUME EXInv, NEW w \in Workers, Does(w, "metering"), NEW ok \in BOOLEAN, Grant(w, ok), Granting',
         shared' \in Nat, local' \in [Workers -> Nat], fallbacks' \in Nat,
         UNCHANGED <<media, pdfs, chunks, paid>>
  PROVE  EXInv'
<1>1. job[w] \in Job /\ Told(job[w]) /\ AllRead(job[w]) /\ job[w].at = "metering"
  BY JobsAreTyped DEF Does
<1>2. CASE ok
  <2> DEFINE j == [job[w] EXCEPT !.at = "calling"]
  <2>1. j \in Job /\ j.at = "calling" /\ j.use = "image" /\ Told(j) /\ AllRead(j)
    BY <1>1 DEF Job, Told, AllRead
  <2>2. SetJob(w, j) /\ granted' = granted + 1
    BY <1>2 DEF Grant
  <2> HIDE DEF j
  <2>3. job' \in [Workers -> Job] /\ \A v \in Workers : Told(job'[v]) /\ AllRead(job'[v])
    BY <2>1, <2>2, PagedJobs DEF EXInv
  <2>4. Credit' \subseteq Credit \cup ({w} \X (0..MaxRetries))
    BY <2>1, <2>2, CreditOf, CreditIsPairs DEF EXInv
  <2>5. Charging'
    BY <2>2, <2>4, ChargesGranted DEF EXInv
  <2>6. EXKinds' /\ Paged'
    BY <2>2, <2>3 DEF EXInv, EXKinds, Paged
  <2>7. QED  BY <2>5, <2>6 DEF EXInv
<1>3. CASE ~ok
  <2>1. SetJob(w, NoJob) /\ granted' = granted
    BY <1>3 DEF Grant, GiveUp
  <2>2. NoJob.at # "calling"
    BY DEF NoJob
  <2>3. job' \in [Workers -> Job] /\ \A v \in Workers : Told(job'[v]) /\ AllRead(job'[v])
    BY <2>1, NoJobIsAJob, PagedJobs DEF EXInv
  <2>4. Charging'
    BY <2>1, <2>2, NoJobIsAJob, NoCredit DEF EXInv
  <2>5. EXKinds' /\ Paged'
    BY <2>1, <2>3 DEF EXInv, EXKinds, Paged
  <2>6. QED  BY <2>4, <2>5 DEF EXInv
<1>4. QED  BY <1>2, <1>3

LEMMA ConsumeStep ==
  ASSUME EXInv, NEW w \in Workers, ConsumeShared(w) \/ ConsumeLocal(w)
  PROVE  EXInv'
<1>0. EXKinds /\ Granting /\ granted \in Nat /\ shared \in Nat /\ fallbacks \in Nat /\ local \in [Workers -> Nat]
  BY DEF EXInv, EXKinds
<1>1. CASE ConsumeShared(w)
  <2>1. PICK ok \in BOOLEAN : ok <=> Within(shared')
    OBVIOUS
  <2>2. Grant(w, ok)
    BY <1>1, <2>1 DEF ConsumeShared, Grant
  <2>3. granted' = granted \/ (granted' = granted + 1 /\ shared' <= Limit)
    BY <1>1, <2>1, <2>2 DEF Grant, Within
  <2>4. Granting'
    BY <1>0, <1>1, <2>3, SharedGrants DEF ConsumeShared
  <2>5. QED  BY <1>0, <1>1, <2>2, <2>4, GrantStep DEF ConsumeShared
<1>2. CASE ConsumeLocal(w)
  <2>1. PICK ok \in BOOLEAN : ok <=> Within(local'[w])
    OBVIOUS
  <2>2. Grant(w, ok)
    BY <1>2, <2>1 DEF ConsumeLocal, Grant
  <2>3. granted' = granted \/ (granted' = granted + 1 /\ local'[w] <= Limit)
    BY <1>2, <2>1, <2>2 DEF Grant, Within
  <2>4. Granting'
    BY <1>0, <1>2, <2>3, LocalGrants DEF ConsumeLocal
  <2>5. shared' \in Nat /\ local' \in [Workers -> Nat] /\ fallbacks' \in Nat
    BY <1>0, <1>2 DEF ConsumeLocal
  <2>6. QED  BY <1>2, <2>2, <2>4, <2>5, GrantStep DEF ConsumeLocal
<1>3. QED  BY <1>1, <1>2

\* A try that is paid takes the credit of this try.
LEMMA CallStep == ASSUME EXInv, NEW w \in Workers, CallAgain(w) \/ MediaEnds(w) PROVE EXInv'
<1>0. job[w] \in Job /\ Told(job[w]) /\ AllRead(job[w]) /\ job[w].at = "calling" /\ paid \in Nat
      /\ EXKinds /\ Charging /\ Granting /\ Paged
  BY JobsAreTyped DEF CallAgain, MediaEnds, Calling, Does, EXInv, EXKinds
<1> DEFINE here == <<w, job[w].tries>>
<1>1. job[w].use = "image" => here \in Credit
  BY <1>0 DEF Credit, Job
<1>2. UNCHANGED <<shared, local, media, pdfs, chunks, granted, fallbacks>>
  BY DEF CallAgain, MediaEnds
<1>3. PICK j \in Job : SetJob(w, j) /\ Told(j) /\ AllRead(j)
                       /\ (j.at = "calling" /\ j.use = "image" => job[w].use = "image" /\ j.tries = job[w].tries + 1)
                       /\ (j.at = "calling" \/ job[w].use = "image")
  <2>1. CASE CallAgain(w)
    <3> DEFINE j == [job[w] EXCEPT !.tries = @ + 1]
    <3>1. job[w].tries + 1 \in 0..MaxRetries
      BY <1>0, <2>1, ExtractionAssumption DEF CallAgain, Job
    <3>2. j \in Job /\ j.at = "calling" /\ j.use = job[w].use /\ j.tries = job[w].tries + 1
      BY <1>0, <3>1 DEF Job
    <3>3. Told(j) /\ AllRead(j)
      BY <1>0 DEF Told, AllRead, Job
    <3>4. SetJob(w, j)
      BY <1>0, <2>1 DEF CallAgain, SetJob, EXKinds
    <3>5. QED  BY <3>2, <3>3, <3>4
  <2>2. CASE MediaEnds(w)
    BY <2>2, NoJobIsAJob DEF MediaEnds, GiveUp, Use, NoJob
  <2>3. QED  BY <2>1, <2>2
<1>4. job' \in [Workers -> Job] /\ \A v \in Workers : Told(job'[v]) /\ AllRead(job'[v])
  BY <1>0, <1>3, PagedJobs
<1>5. paid' \in {paid, paid + 1} /\ (job[w].use # "image" => paid' = paid)
  BY DEF CallAgain, MediaEnds, Charged, Use
<1>6. EXKinds' /\ Paged'
  BY <1>0, <1>2, <1>4, <1>5 DEF EXKinds, Paged
<1>7. Granting'
  BY <1>0, <1>2, CountersKept
<1>8. Charging'
  <2>1. CASE job[w].use = "image"
    <3>1. Credit' \subseteq Credit \ {here}
      BY <1>0, <1>3, CreditOf, CreditIsPairs DEF Credit, Job
    <3>2. QED  BY <1>0, <1>1, <1>2, <1>5, <2>1, <3>1, ChargesOnce
  <2>2. CASE job[w].use # "image"
    BY <1>0, <1>2, <1>3, <1>5, <2>2, NoCredit
  <2>3. QED  BY <2>1, <2>2
<1>9. QED  BY <1>6, <1>7, <1>8 DEF EXInv

LEMMA TakePdfStep == ASSUME EXInv, NEW w \in Workers, TakePdf(w) PROVE EXInv'
<1>0. media' \in Nat /\ pdfs' \in Nat /\ UNCHANGED Counters /\ UNCHANGED paid /\ chunks' = chunks
  BY DEF TakePdf, EXInv, EXKinds, Counters
<1>1. PICK use \in Uses \ {"image"}, layer \in [PageNumbers -> Layers] :
        IF TooMuch(use, layer) THEN GiveUp(w)
        ELSE SetJob(w, [NoJob EXCEPT !.at = "paging", !.use = use, !.layer = layer,
                     !.text = [n \in PageNumbers |-> IF layer[n] = "text" THEN n ELSE 0],
                     !.state = [n \in PageNumbers |-> StateOf(layer[n])]])
  BY DEF TakePdf
<1>2. CASE TooMuch(use, layer)
  <2>1. SetJob(w, NoJob) /\ NoJob.at # "calling"
    BY <1>1, <1>2 DEF GiveUp, NoJob
  <2>2. QED  BY <1>0, <2>1, NoJobIsAJob, WorkStep DEF EXInv, EXKinds, Paged
<1>3. CASE ~TooMuch(use, layer)
  <2>1. PICK text : text = [n \in PageNumbers |-> IF layer[n] = "text" THEN n ELSE 0]
    OBVIOUS
  <2>2. PICK state : state = [n \in PageNumbers |-> StateOf(layer[n])]
    OBVIOUS
  <2>3. text \in [PageNumbers -> 0..NPages]
    BY <2>1, ExtractionAssumption DEF PageNumbers
  <2>4. state \in [PageNumbers -> States]
    BY <2>2 DEF StateOf, States
  <2> DEFINE j == [NoJob EXCEPT !.at = "paging", !.use = use, !.layer = layer, !.text = text, !.state = state]
  <2>5. j \in Job
    BY <2>3, <2>4, NoJobIsAJob DEF Job
  <2>6. j.at = "paging" /\ j.use = use /\ j.layer = layer /\ j.text = text /\ j.state = state /\ j.page = 1
    BY NoJobIsAJob DEF Job, NoJob
  <2>7. SetJob(w, j)
    BY <1>1, <1>3, <2>1, <2>2
  <2> HIDE DEF j
  <2>8. Told(j)
    <3>1. \A n \in PageNumbers : text[n] = (IF layer[n] = "text" THEN n ELSE 0) /\ n # 0
      BY <2>1, ExtractionAssumption DEF PageNumbers
    <3>2. \A n \in PageNumbers :
            state[n] \in {"intentionally_skipped", "error"} <=> layer[n] # "text"
      BY <2>2 DEF StateOf, Layers
    <3>3. QED  BY <2>6, <3>1, <3>2 DEF Told
  <2>9. AllRead(j)
    BY <1>3, <2>6 DEF AllRead, TooMuch, Scanned, PageNumbers
  <2>10. QED  BY <1>0, <2>5, <2>6, <2>7, <2>8, <2>9, WorkStep DEF EXInv, EXKinds, Paged
<1>4. QED  BY <1>2, <1>3

LEMMA RenderStep == ASSUME EXInv, NEW w \in Workers, RenderPage(w) PROVE EXInv'
<1>0. /\ media' \in Nat /\ pdfs' \in Nat /\ UNCHANGED Counters /\ UNCHANGED paid /\ chunks' = chunks
      /\ job[w] \in Job /\ Told(job[w]) /\ AllRead(job[w]) /\ job[w].at = "paging"
      /\ UNCHANGED <<shared, local, granted, fallbacks>>
  BY JobsAreTyped DEF RenderPage, Does, EXInv, EXKinds, Counters
<1>1. PICK next \in Left(w) :
        /\ \A n \in Left(w) : next <= n
        /\ SetJob(w, [job[w] EXCEPT !.at = "calling", !.page = next, !.tries = 0])
  BY DEF RenderPage
<1>2. OcrEnabled /\ next \in Scanned(job[w].layer) /\ next >= job[w].page /\ next \in PageNumbers /\ next \in 1..NPages + 1
      /\ 0 \in 0..MaxRetries
  BY ExtractionAssumption DEF Left, Scanned, PageNumbers
<1>3. \A n \in Scanned(job[w].layer) : n < next => n < job[w].page
  BY <1>0, <1>1, <1>2 DEF Left, Job, Scanned, PageNumbers
<1> DEFINE j == [job[w] EXCEPT !.at = "calling", !.page = next, !.tries = 0]
<1>4. j \in Job /\ j.at = "calling" /\ j.page = next
      /\ j.use = job[w].use /\ j.layer = job[w].layer /\ j.text = job[w].text /\ j.state = job[w].state
  BY <1>0, <1>2 DEF Job
<1>5. SetJob(w, j)
  BY <1>1
<1> HIDE DEF j
<1>6. Told(j)
  BY <1>0, <1>2, <1>4 DEF Told
<1>7. AllRead(j)
  BY <1>0, <1>2, <1>3, <1>4 DEF AllRead
<1>8. j.use # "image"
  BY <1>0, <1>4 DEF Told
<1>9. QED  BY <1>0, <1>4, <1>5, <1>6, <1>7, <1>8, WorkStep DEF EXInv, EXKinds, Paged

\* A page is filed under its own number, or as an error.
LEMMA FiledStep ==
  ASSUME EXInv, NEW w \in Workers, Calling(w), Use(w) # "image", NEW text, NEW state,
         \/ text = job[w].page /\ state = "ocr_text"
         \/ text = 0 /\ state = "error" /\ Use(w) # "attachment",
         SetJob(w, Filed(w, text, state)), UNCHANGED <<media, pdfs, chunks, Counters>>
  PROVE  EXInv'
<1>0. /\ media' \in Nat /\ pdfs' \in Nat /\ UNCHANGED Counters /\ UNCHANGED paid /\ chunks' = chunks
      /\ job[w] \in Job /\ Told(job[w]) /\ AllRead(job[w]) /\ job[w].at = "calling" /\ job[w].use # "image"
  BY JobsAreTyped DEF Calling, Use, Does, EXInv, EXKinds, Counters
<1>1. PICK here \in Scanned(job[w].layer) : here = job[w].page
  BY <1>0 DEF Told
<1>2. here \in PageNumbers /\ here \in Nat \ {0} /\ here + 1 \in 1..NPages + 1 /\ here \in 0..NPages
  BY ExtractionAssumption DEF PageNumbers, Scanned
<1>3. PICK texts : texts = [job[w].text EXCEPT ![here] = text]
  OBVIOUS
<1>4. PICK states : states = [job[w].state EXCEPT ![here] = state]
  OBVIOUS
<1>5. texts \in [PageNumbers -> 0..NPages] /\ texts[here] = text
      /\ \A n \in PageNumbers : n # here => texts[n] = job[w].text[n]
  BY <1>0, <1>1, <1>2, <1>3, ExtractionAssumption DEF Job
<1>6. states \in [PageNumbers -> States] /\ states[here] = state
      /\ \A n \in PageNumbers : n # here => states[n] = job[w].state[n]
  BY <1>0, <1>2, <1>4 DEF Job, States
<1> DEFINE j == [job[w] EXCEPT !.at = "paging", !.page = here + 1, !.text = texts, !.state = states]
<1>7. j \in Job /\ j.at = "paging" /\ j.page = here + 1 /\ j.use = job[w].use
      /\ j.layer = job[w].layer /\ j.text = texts /\ j.state = states
  BY <1>0, <1>2, <1>5, <1>6 DEF Job
<1>8. SetJob(w, j)
  <2>1. Filed(w, text, state) = [job[w] EXCEPT !.at = "paging", !.page = @ + 1, !.text[here] = text, !.state[here] = state]
    BY <1>1 DEF Filed
  <2>2. Filed(w, text, state) = j
    BY <1>0, <1>1, <1>3, <1>4, <2>1 DEF Job
  <2> HIDE DEF j
  <2>3. QED  BY <2>2
<1> HIDE DEF j
<1>9. Told(j)
  <2>1. texts[here] \in {0, here}
        /\ (job[w].layer[here] = "text" => texts[here] = here)
        /\ (texts[here] = 0 <=> states[here] \in {"intentionally_skipped", "error"})
    BY <1>1, <1>2, <1>5, <1>6 DEF Scanned
  <2>2. QED  BY <1>0, <1>5, <1>6, <1>7, <2>1 DEF Told
<1>10. AllRead(j)
  <2>1. job[w].use = "attachment" => text = here
    BY <1>0, <1>1 DEF Use
  <2>2. \A n \in PageNumbers : n < here + 1 => n < here \/ n = here
    BY <1>2 DEF PageNumbers
  <2>3. QED  BY <1>0, <1>1, <1>5, <1>7, <2>1, <2>2 DEF AllRead, Scanned
<1>11. QED  BY <1>0, <1>7, <1>8, <1>9, <1>10, WorkStep DEF EXInv, EXKinds, Paged

LEMMA PageStep == ASSUME EXInv, NEW w \in Workers, PageRead(w) \/ PageFails(w) PROVE EXInv'
<1>1. CASE PageRead(w)
  <2>1. Calling(w) /\ Use(w) # "image" /\ SetJob(w, Filed(w, job[w].page, "ocr_text"))
        /\ UNCHANGED <<media, pdfs, chunks, Counters>>
    BY <1>1 DEF PageRead
  <2>2. QED  BY <2>1, FiledStep
<1>2. CASE PageFails(w) /\ Use(w) # "attachment"
  <2>1. Calling(w) /\ Use(w) # "image" /\ SetJob(w, Filed(w, 0, "error"))
        /\ UNCHANGED <<media, pdfs, chunks, Counters>>
    BY <1>2 DEF PageFails
  <2>2. QED  BY <1>2, <2>1, FiledStep
<1>3. CASE PageFails(w) /\ Use(w) = "attachment"
  <2>1. SetJob(w, NoJob) /\ NoJob.at # "calling" /\ UNCHANGED Counters /\ UNCHANGED paid /\ UNCHANGED <<media, pdfs, chunks>>
    BY <1>3 DEF PageFails, GiveUp, NoJob, Counters
  <2>2. QED  BY <2>1, NoJobIsAJob, WorkStep DEF EXInv, EXKinds, Paged
<1>4. QED  BY <1>1, <1>2, <1>3

LEMMA CollectStep == ASSUME EXInv, NEW w \in Workers, Collect(w) PROVE EXInv'
<1>0. /\ media' \in Nat /\ pdfs' \in Nat /\ UNCHANGED Counters /\ UNCHANGED paid
      /\ job[w] \in Job /\ Told(job[w]) /\ AllRead(job[w]) /\ job[w].at = "paging" /\ Left(w) = {}
      /\ chunks \subseteq [page : PageNumbers, text : PageNumbers] /\ \A c \in chunks : c.page = c.text
  BY JobsAreTyped DEF Collect, Does, EXInv, EXKinds, Paged, Counters
<1>1. chunks' \subseteq [page : PageNumbers, text : PageNumbers] /\ \A c \in chunks' : c.page = c.text
  <2>1. \A n \in Indexed(w) : n \in PageNumbers /\ job[w].text[n] = n
    BY <1>0 DEF Indexed, Told
  <2>2. CASE chunks' = chunks
    BY <1>0, <2>2
  <2>3. CASE chunks' = {[page |-> n, text |-> job[w].text[n]] : n \in Indexed(w)}
    BY <2>1, <2>3
  <2>4. QED  BY <2>2, <2>3 DEF Collect
<1>2. PICK j \in Job : SetJob(w, j) /\ Told(j) /\ AllRead(j) /\ j.at # "calling"
  <2>1. CASE MadeReady(w)
    <3> DEFINE j == [job[w] EXCEPT !.at = "ready", !.page = 1, !.tries = 0]
    <3>1. 1 \in 1..NPages + 1 /\ 0 \in 0..MaxRetries
      BY ExtractionAssumption
    <3>2. j \in Job /\ j.at = "ready" /\ j.use = job[w].use /\ j.layer = job[w].layer
          /\ j.text = job[w].text /\ j.state = job[w].state
      BY <1>0, <3>1 DEF Job
    <3>3. SetJob(w, j)
      BY <2>1 DEF MadeReady
    <3> HIDE DEF j
    <3>4. Told(j)
      BY <1>0, <3>2 DEF Told
    <3>5. AllRead(j)
      <4>1. \A n \in Scanned(job[w].layer) : OcrEnabled => n < job[w].page
        BY <1>0 DEF Left, Scanned, PageNumbers, Job
      <4>2. \A n \in PageNumbers : n \in Scanned(job[w].layer) \/ job[w].text[n] = n
        BY <1>0 DEF Told, Scanned
      <4>3. QED  BY <1>0, <3>2, <4>1, <4>2, ExtractionAssumption DEF AllRead
    <3>6. QED  BY <3>2, <3>3, <3>4, <3>5
  <2>2. CASE GiveUp(w)
    BY <2>2, NoJobIsAJob DEF GiveUp, NoJob
  <2>3. QED  BY <2>1, <2>2 DEF Collect
<1>3. QED  BY <1>0, <1>1, <1>2, WorkStep

LEMMA ProcessRestartStep == ASSUME EXInv, NEW w \in Workers, Restart(w) PROVE EXInv'
<1>0. EXKinds /\ Granting /\ Charging /\ Paged
  BY DEF EXInv
<1>1. SetJob(w, NoJob) /\ NoJob.at # "calling" /\ UNCHANGED <<shared, media, pdfs, chunks, granted, fallbacks, paid>>
      /\ local' = [local EXCEPT ![w] = 0]
  BY DEF Restart, SetJob, NoJob
<1>2. job' \in [Workers -> Job] /\ \A v \in Workers : Told(job'[v]) /\ AllRead(job'[v])
  BY <1>0, <1>1, NoJobIsAJob, PagedJobs
<1>3. local' \in [Workers -> Nat]
  BY <1>0, <1>1 DEF EXKinds
<1>4. EXKinds' /\ Paged'
  BY <1>0, <1>1, <1>2, <1>3 DEF EXKinds, Paged
<1>5. Granting'
  BY <1>0, <1>1, RestartGrants
<1>6. Charging'
  BY <1>0, <1>1, NoJobIsAJob, NoCredit
<1>7. QED  BY <1>4, <1>5, <1>6 DEF EXInv

LEMMA EXStutters == EXInv /\ UNCHANGED exVars => EXInv'
  BY DEF EXInv, EXKinds, Granting, Charging, LocalRoom, SharedRoom, Credit, Paged, exVars

LEMMA ExtractionIsSound == EXSpec => []EXInv
<1>1. EXInv /\ [EXNext]_exVars => EXInv'
  <2> SUFFICES ASSUME EXInv, [EXNext]_exVars PROVE EXInv'
    OBVIOUS
  <2>1. ASSUME NEW w \in Workers,
               \/ TakeMetered(w) \/ ConsumeShared(w) \/ ConsumeLocal(w)
               \/ CallAgain(w) \/ MediaEnds(w)
               \/ TakePdf(w) \/ RenderPage(w) \/ PageRead(w) \/ PageFails(w) \/ Collect(w)
               \/ Restart(w)
        PROVE  EXInv'
    BY <2>1, MeteredStep, ConsumeStep, CallStep, TakePdfStep, RenderStep, PageStep, CollectStep, ProcessRestartStep
  <2>2. QED  BY <2>1, EXStutters DEF EXNext
<1>2. QED  BY EXStarts, <1>1, PTL DEF EXSpec

\* The quota lets through its limit, and the limit again for each process that had
\* to count for itself; a granted image costs its tries, no more
\* (multimodal/quota.py, the retries of the clients).
THEOREM QuotasHold == EXSpec => []QuotaHolds
<1>1. EXInv => QuotaHolds
  <2> SUFFICES ASSUME EXInv PROVE QuotaHolds
    OBVIOUS
  <2>1. /\ granted \in Nat /\ paid \in Nat /\ Cardinality(LocalRoom) \in Nat /\ Cardinality(Credit) \in Nat
        /\ Cardinality(SharedRoom) \in Nat /\ Limit * (1 + fallbacks) \in Nat /\ (MaxRetries + 1) * granted \in Nat
    <3>1. SharedRoom \in SUBSET (1..Limit) /\ IsFiniteSet(1..Limit)
      BY FS_Interval, ExtractionAssumption DEF SharedRoom
    <3>2. granted \in Nat /\ paid \in Nat /\ fallbacks \in Nat /\ Limit \in Nat /\ MaxRetries \in Nat
      BY ExtractionAssumption DEF EXInv, EXKinds
    <3>3. Cardinality(LocalRoom) \in Nat /\ Cardinality(Credit) \in Nat
      BY FS_CardinalityType DEF EXInv, Granting, Charging
    <3>4. IsFiniteSet(SharedRoom)
      BY <3>1, FS_Subset
    <3>5. Cardinality(SharedRoom) \in Nat
      BY <3>4, FS_CardinalityType
    <3>6. Limit * (1 + fallbacks) \in Nat /\ (MaxRetries + 1) * granted \in Nat
      BY <3>2
    <3>7. QED  BY <3>2, <3>3, <3>5, <3>6
  <2>2. granted <= Limit * (1 + fallbacks)
    BY <2>1 DEF EXInv, Granting
  <2>3. paid <= (MaxRetries + 1) * granted
    BY <2>1 DEF EXInv, Charging
  <2>4. QED  BY <2>2, <2>3 DEF QuotaHolds
<1>2. QED  BY ExtractionIsSound, <1>1, PTL

\* A page never gets the text of another, a ready attachment has all its texts, and
\* a rebuild that was written lacks the pages it recorded as skipped or as errors.
THEOREM PagesStayTold == EXSpec => []PagesAreTold
<1>1. EXInv => PagesAreTold
  BY DEF EXInv, Paged, Told, AllRead, PagesAreTold, Does, Use
<1>2. QED  BY ExtractionIsSound, <1>1, PTL
-----------------------------------------------------------------------------
(* KnowledgeBase: the library lists only what is indexed.  A refresh reads the *)
(* directory twice; no upload is inside while it runs, so that it stands still. *)

\* The types the proof needs (cardinalities left out).
Kinds ==
  /\ upload \in [Uploads -> [at : {"new", "in", "created", "refused"}, name : Names]]
  /\ sources \subseteq Names /\ sourceLock \subseteq Uploads
  /\ refresh \in [status : {"idle", "running", "success", "error"},
                  at : {"none", "starting", "loaded", "published", "listed"},
                  loaded : SUBSET Names, asked : SUBSET Names]
  /\ indexed \subseteq Names /\ manifest \subseteq Names

\* Who is inside holds the lock, and no one is while a refresh runs.
Excluded ==
  /\ \A u \in Uploads : upload[u].at = "in" => sourceLock = {u}
  /\ refresh.status = "running" => sourceLock = {}

\* What a refresh knows of the directory, which stands still while it runs.
Known ==
  refresh.status = "running" =>
    /\ refresh.asked = sources
    /\ refresh.at \in {"loaded", "published", "listed"} => refresh.loaded = sources
    /\ refresh.at \in {"published", "listed"} => indexed = refresh.loaded \ Textless
    /\ refresh.at = "listed" => manifest = sources

Listed == manifest \subseteq sources

KBInv == Kinds /\ Excluded /\ Known /\ Listed /\ ListedIsIndexed

LEMMA KBStarts == KBInit => KBInv
  BY DEF KBInit, KBInv, Kinds, Excluded, Known, Listed, ListedIsIndexed, NoRefresh

\* An upload moves the directory only with the lock in its hand.
LEMMA UploadStep ==
  ASSUME KBInv, NEW u \in Uploads, UploadEnters(u) \/ UploadRefused(u) \/ UploadPublished(u)
  PROVE  KBInv'
<1>1. upload[u] \in [at : {"new", "in", "created", "refused"}, name : Names]
  BY DEF KBInv, Kinds
<1>2. CASE UploadEnters(u)
  BY <1>1, <1>2 DEF KBInv, Kinds, Excluded, Known, Listed, ListedIsIndexed, UploadEnters, UploadIs, MayUpload
<1>3. CASE UploadRefused(u)
  BY <1>1, <1>3 DEF KBInv, Kinds, Excluded, Known, Listed, ListedIsIndexed, UploadRefused, UploadIs
<1>4. CASE UploadPublished(u)
  <2>1. sourceLock = {u} /\ refresh.status # "running"
    BY <1>4 DEF UploadPublished, KBInv, Excluded
  <2>2. Kinds'
    BY <1>1, <1>4 DEF KBInv, Kinds, UploadPublished, UploadIs
  <2>3. Excluded'
    BY <1>4, <2>1 DEF KBInv, Kinds, Excluded, UploadPublished, UploadIs
  <2>4. Known' /\ Listed' /\ ListedIsIndexed'
    BY <1>4, <2>1 DEF KBInv, Known, Listed, ListedIsIndexed, UploadPublished
  <2>5. QED  BY <2>2, <2>3, <2>4 DEF KBInv
<1>5. QED  BY <1>2, <1>3, <1>4

\* The steps of a refresh.
LEMMA RefreshStep ==
  ASSUME KBInv, StartRefresh \/ LoadSources \/ PublishIndex \/ WriteManifest \/ RefreshSucceeds \/ RefreshFails
  PROVE  KBInv'
<1> USE DEF KBInv, Kinds, Excluded, Known, Listed, ListedIsIndexed
<1>1. CASE StartRefresh
  BY <1>1 DEF StartRefresh
<1>2. CASE LoadSources
  BY <1>2 DEF LoadSources, RefreshAt
<1>3. CASE PublishIndex
  <2>1. refresh.loaded = sources /\ manifest \subseteq indexed' \cup Textless
    BY <1>3 DEF PublishIndex, RefreshAt
  <2>2. QED  BY <1>3, <2>1 DEF PublishIndex, RefreshAt
<1>4. CASE WriteManifest
  <2>1. refresh.loaded = sources /\ manifest' \subseteq indexed \cup Textless
    BY <1>4 DEF WriteManifest, RefreshAt
  <2>2. QED  BY <1>4, <2>1 DEF WriteManifest, RefreshAt
<1>5. CASE RefreshSucceeds
  BY <1>5 DEF RefreshSucceeds, RefreshAt, EndsAs
<1>6. CASE RefreshFails
  BY <1>6 DEF RefreshFails, EndsAs
<1>7. QED  BY <1>1, <1>2, <1>3, <1>4, <1>5, <1>6

\* A restart leaves the directory, the index and the manifest as they are.
LEMMA RestartStep == KBInv /\ ProcessRestarts => KBInv'
<1> SUFFICES ASSUME KBInv, ProcessRestarts PROVE KBInv'
  OBVIOUS
<1>1. \A u \in Uploads : upload[u] \in [at : {"new", "in", "created", "refused"}, name : Names]
  BY DEF KBInv, Kinds
<1>2. Kinds'
  BY <1>1 DEF KBInv, Kinds, ProcessRestarts, NoRefresh
<1>3. Excluded'
  BY <1>1 DEF Excluded, ProcessRestarts, NoRefresh
<1>4. Known' /\ Listed' /\ ListedIsIndexed'
  BY DEF KBInv, Known, Listed, ListedIsIndexed, ProcessRestarts, NoRefresh
<1>5. QED  BY <1>2, <1>3, <1>4 DEF KBInv

LEMMA KBStutters == KBInv /\ UNCHANGED kbVars => KBInv'
  BY DEF KBInv, Kinds, Excluded, Known, Listed, ListedIsIndexed, kbVars

\* What the library shows as indexed can be found, and a success covers what there
\* was when it was requested, however uploads, refreshes and restarts interleave
\* (knowledge_base_service.py:71-408).
THEOREM LibraryIsHonest == KBSpec => []ListedIsIndexed
<1>1. KBInv /\ [KBNext]_kbVars => KBInv'
  BY UploadStep, RefreshStep, RestartStep, KBStutters DEF KBNext
<1>2. QED  BY KBStarts, <1>1, PTL DEF KBSpec, KBInv

-----------------------------------------------------------------------------
(* TripIntake.                                                             *)

TIKinds ==
  /\ DOMAIN trip \subseteq DOMAIN Values /\ \A k \in DOMAIN trip : trip[k] \in Values[k]
  /\ home \subseteq Cities

TIInv == TIKinds /\ TripIsSound

Dates == {"start_date", "end_date", "duration_days"}

LEMMA MergedIs ==
  ASSUME NEW t, NEW sub
  PROVE  /\ DOMAIN Merged(t, sub) = DOMAIN t \cup DOMAIN sub
         /\ \A k \in DOMAIN sub : Merged(t, sub)[k] = sub[k]
         /\ \A k \in DOMAIN t \ DOMAIN sub : Merged(t, sub)[k] = t[k]
  BY DEF Merged, Has

LEMMA ValuesAre ==
  /\ DOMAIN Values = {"origin", "destination", "start_date", "end_date", "duration_days",
                      "trip_purpose", "work_location", "work_location_verified", "hotels_excluded"}
  /\ Values["origin"] = Cities /\ Values["destination"] = Cities
  /\ Values["start_date"] = Days /\ Values["end_date"] = MaxDays..LastDay
  /\ Values["duration_days"] = 1..MaxDays /\ Values["trip_purpose"] = {1}
  /\ Values["work_location"] = Cities /\ Values["work_location_verified"] = Cities
  /\ Values["hotels_excluded"] = BOOLEAN
  BY DEF Values

\* Whether dates agree is a matter of the dates.
LEMMA DatesAgree ==
  ASSUME NEW t, NEW u, \A k \in Dates : SameField(t, u, k), DatesFit(t)
  PROVE  DatesFit(u)
<1>1. \A k \in Dates : (k \in DOMAIN t <=> k \in DOMAIN u) /\ (k \in DOMAIN t => t[k] = u[k])
  BY DEF SameField, Has
<1>2. /\ "start_date" \in DOMAIN t <=> "start_date" \in DOMAIN u
      /\ "start_date" \in DOMAIN t => t["start_date"] = u["start_date"]
  BY <1>1 DEF Dates
<1>3. /\ "end_date" \in DOMAIN t <=> "end_date" \in DOMAIN u
      /\ "end_date" \in DOMAIN t => t["end_date"] = u["end_date"]
  BY <1>1 DEF Dates
<1>4. /\ "duration_days" \in DOMAIN t <=> "duration_days" \in DOMAIN u
      /\ "duration_days" \in DOMAIN t => t["duration_days"] = u["duration_days"]
  BY <1>1 DEF Dates
<1>5. QED  BY <1>2, <1>3, <1>4 DEF DatesFit, Spans, Has, Length

LEMMA NothingKnown == DOMAIN <<>> = {}
  OBVIOUS

LEMMA TIStarts == TIInit => TIInv
<1> SUFFICES ASSUME TIInit PROVE TIInv
  OBVIOUS
<1>1. DOMAIN trip = {} /\ home \subseteq Cities
  BY NothingKnown DEF TIInit
<1>2. QED  BY <1>1 DEF TIInv, TIKinds, TripIsSound, DatesFit, Spans, Has

\* What an agent or the card changes.
LEMMA CommitKeeps ==
  ASSUME TIInv, NEW keys \in SUBSET Proposable, NEW sub \in Fillings(keys),
         NEW old \in {trip, <<>>}, Commit(old, sub, Forgotten(sub))
  PROVE  TIInv'
<1>1. DOMAIN sub = keys /\ \A k \in keys : sub[k] \in Values[k]
  BY DEF Fillings
<1>2. keys \subseteq DOMAIN Values /\ "work_location_verified" \notin keys
  BY ValuesAre DEF Proposable
<1>3. DOMAIN old \subseteq DOMAIN Values /\ \A k \in DOMAIN old : old[k] \in Values[k]
  BY NothingKnown DEF TIInv, TIKinds
<1>4. trip' = Merged(Without(old, Forgotten(sub)), sub) /\ DatesFit(Merged(old, sub)) /\ home' = home
  BY DEF Commit, Gate
<1>5. /\ DOMAIN trip' = (DOMAIN old \ Forgotten(sub)) \cup keys
      /\ \A k \in keys : trip'[k] = sub[k]
      /\ \A k \in (DOMAIN old \ Forgotten(sub)) \ keys : trip'[k] = old[k]
  <2>1. PICK left : left = Without(old, Forgotten(sub))
    OBVIOUS
  <2>2. /\ DOMAIN left = DOMAIN old \ Forgotten(sub)
        /\ \A k \in DOMAIN old \ Forgotten(sub) : left[k] = old[k]
    BY <2>1 DEF Without, Restrict
  <2>3. trip' = [k \in DOMAIN left \cup DOMAIN sub |-> IF k \in DOMAIN sub THEN sub[k] ELSE left[k]]
    BY <1>4, <2>1 DEF Merged, Has
  <2>4. QED  BY <1>1, <2>2, <2>3
<1>6. TIKinds'
  BY <1>1, <1>2, <1>3, <1>4, <1>5 DEF TIInv, TIKinds
<1>7. DatesFit(trip')
  <2>1. Forgotten(sub) \cap Dates = {}
    BY DEF Forgotten, Dates
  <2>2. /\ DOMAIN Merged(old, sub) = DOMAIN old \cup keys
        /\ \A k \in keys : Merged(old, sub)[k] = sub[k]
        /\ \A k \in DOMAIN old \ keys : Merged(old, sub)[k] = old[k]
    BY <1>1, MergedIs, Zenon
  <2>3. \A k \in Dates : SameField(Merged(old, sub), trip', k)
    BY <1>5, <2>1, <2>2 DEF SameField, Has
  <2>4. QED  BY <1>4, <2>3, DatesAgree
<1>8. ASSUME "work_location_verified" \in DOMAIN trip' PROVE Anchored(trip')
  <2>1. "work_location_verified" \in DOMAIN old /\ "work_location_verified" \notin Forgotten(sub)
    BY <1>2, <1>5, <1>8
  <2>2. old = trip
    BY <2>1, NothingKnown
  <2>3. ~Moves(sub) /\ ~Relocates(sub)
    BY <2>1 DEF Forgotten
  <2>4. Forgotten(sub) = {}
    BY <2>3 DEF Forgotten
  <2>5. /\ {"destination", "work_location", "work_location_verified"} \subseteq DOMAIN trip
        /\ trip["work_location_verified"] = trip["destination"]
        /\ trip["work_location"] = trip["work_location_verified"]
    BY <2>1, <2>2 DEF TIInv, TripIsSound, Anchored, Has
  <2>6. "destination" \in keys => sub["destination"] = trip["destination"]
    BY <1>1, <2>3 DEF Moves, SameField, Has
  <2>7. "work_location" \in keys => sub["work_location"] = trip["work_location"]
    BY <1>1, <2>3 DEF Relocates, SameField, Has
  <2>8. /\ trip'["work_location_verified"] = trip["work_location_verified"]
        /\ trip'["destination"] = trip["destination"]
        /\ trip'["work_location"] = trip["work_location"]
    BY <1>2, <1>5, <2>2, <2>4, <2>5, <2>6, <2>7
  <2>9. {"destination", "work_location", "work_location_verified"} \subseteq DOMAIN trip'
    BY <1>5, <2>2, <2>4, <2>5
  <2>10. QED  BY <2>5, <2>8, <2>9 DEF Anchored, Has
<1>9. QED  BY <1>6, <1>7, <1>8 DEF TIInv, TripIsSound, Has

LEMMA FormKeeps ==
  ASSUME TIInv, SubmitForm
  PROVE  TIInv'
<1> PICK c \in Cities, d \in Cities, from \in Days, to \in MaxDays..LastDay,
         excluded \in BOOLEAN, placed \in BOOLEAN :
      /\ from <= to /\ (to - from) + 1 <= MaxDays
      /\ LET basic == [origin |-> c, destination |-> d, start_date |-> from, end_date |-> to,
                       duration_days |-> (to - from) + 1, trip_purpose |-> 1]
             place == [work_location |-> d, work_location_verified |-> d]
             sub == IF placed THEN Merged(basic, place) ELSE basic
         IN  /\ Gate(trip, sub)
             /\ trip' = Merged(Without(trip, Forgotten(sub) \cup DOMAIN place),
                             Merged(sub, [hotels_excluded |-> excluded]))
      /\ UNCHANGED home
  BY DEF SubmitForm
<1> PICK basic : basic = [origin |-> c, destination |-> d, start_date |-> from, end_date |-> to,
                          duration_days |-> (to - from) + 1, trip_purpose |-> 1]
  OBVIOUS
<1> PICK place : place = [work_location |-> d, work_location_verified |-> d]
  OBVIOUS
<1> PICK excl : excl = [hotels_excluded |-> excluded]
  OBVIOUS
<1> PICK sub : sub = (IF placed THEN Merged(basic, place) ELSE basic)
  OBVIOUS
<1> PICK lost : lost = Forgotten(sub) \cup DOMAIN place
  OBVIOUS
<1>1. trip' = Merged(Without(trip, lost), Merged(sub, excl)) /\ home' = home
  OBVIOUS
<1>2. /\ DOMAIN basic = {"origin", "destination", "start_date", "end_date", "duration_days",
                         "trip_purpose"}
      /\ \A k \in DOMAIN basic : basic[k] \in Values[k]
      /\ basic["start_date"] = from /\ basic["end_date"] = to
      /\ basic["duration_days"] = (to - from) + 1 /\ basic["destination"] = d
  <2>1. (to - from) + 1 \in 1..MaxDays
    BY TripIntakeAssumption DEF Days
  <2>2. /\ c \in Values["origin"] /\ d \in Values["destination"] /\ from \in Values["start_date"]
        /\ to \in Values["end_date"] /\ (to - from) + 1 \in Values["duration_days"]
        /\ 1 \in Values["trip_purpose"]
    BY <2>1, ValuesAre
  <2>3. QED  BY <2>2
<1>3. /\ DOMAIN place = {"work_location", "work_location_verified"}
      /\ place["work_location"] = d /\ place["work_location_verified"] = d
  OBVIOUS
<1>4. DOMAIN excl = {"hotels_excluded"} /\ excl["hotels_excluded"] \in BOOLEAN
  OBVIOUS
<1>5. /\ DOMAIN sub = DOMAIN basic \cup (IF placed THEN DOMAIN place ELSE {})
      /\ \A k \in DOMAIN basic : sub[k] = basic[k]
      /\ placed => \A k \in DOMAIN place : sub[k] = place[k]
  <2>1. CASE placed
    <3>1. sub = [k \in DOMAIN basic \cup DOMAIN place |->
                   IF k \in DOMAIN place THEN place[k] ELSE basic[k]]
      BY <2>1 DEF Merged, Has
    <3>2. DOMAIN basic \cap DOMAIN place = {}
      BY <1>2, <1>3
    <3>3. QED  BY <2>1, <3>1, <3>2
  <2>2. CASE ~placed
    BY <2>2
  <2>3. QED  BY <2>1, <2>2
<1>6. PICK all : all = Merged(sub, excl)
  OBVIOUS
<1>7. /\ DOMAIN all = DOMAIN sub \cup DOMAIN excl
      /\ \A k \in DOMAIN excl : all[k] = excl[k] /\ \A q \in DOMAIN sub \ DOMAIN excl : all[q] = sub[q]
  <2>1. all = [k \in DOMAIN sub \cup DOMAIN excl |-> IF k \in DOMAIN excl THEN excl[k] ELSE sub[k]]
    BY <1>6 DEF Merged, Has
  <2>2. QED  BY <2>1
<1>8. PICK left : left = Without(trip, lost)
  OBVIOUS
<1>9. DOMAIN left = DOMAIN trip \ lost /\ \A k \in DOMAIN trip \ lost : left[k] = trip[k]
  BY <1>8 DEF Without, Restrict
<1>10. trip' = Merged(left, all)
  BY <1>1, <1>6, <1>8
<1>11. /\ DOMAIN trip' = DOMAIN left \cup DOMAIN all
       /\ \A k \in DOMAIN all : trip'[k] = all[k]
       /\ \A k \in DOMAIN left \ DOMAIN all : trip'[k] = left[k]
  <2>1. trip' = [k \in DOMAIN left \cup DOMAIN all |-> IF k \in DOMAIN all THEN all[k] ELSE left[k]]
    BY <1>10 DEF Merged, Has
  <2>2. QED  BY <2>1
<1>12. \A k \in DOMAIN all : k \in DOMAIN Values /\ all[k] \in Values[k]
  BY <1>2, <1>3, <1>4, <1>5, <1>7, ValuesAre
<1>13. TIKinds'
  BY <1>1, <1>9, <1>11, <1>12 DEF TIInv, TIKinds
<1>14. /\ Dates \subseteq DOMAIN trip'
       /\ trip'["start_date"] = from /\ trip'["end_date"] = to
       /\ trip'["duration_days"] = (to - from) + 1 /\ trip'["destination"] = d
       /\ "destination" \in DOMAIN trip'
  <2>1. DOMAIN basic \cap DOMAIN excl = {}
    BY <1>2, <1>4
  <2>2. \A k \in DOMAIN basic : k \in DOMAIN trip' /\ trip'[k] = basic[k]
    <3> TAKE k \in DOMAIN basic
    <3>1. k \in DOMAIN sub /\ k \notin DOMAIN excl /\ sub[k] = basic[k]
      BY <1>5, <2>1
    <3>2. k \in DOMAIN all /\ all[k] = sub[k]
      BY <1>7, <3>1
    <3>3. QED  BY <1>11, <3>1, <3>2
  <2>3. QED  BY <1>2, <2>2 DEF Dates
<1>15. DatesFit(trip')
  BY <1>14 DEF DatesFit, Length, Spans, Has, Dates
<1>16. ASSUME "work_location_verified" \in DOMAIN trip' PROVE Anchored(trip')
  <2>1. "work_location_verified" \in lost
    BY <1>3
  <2>2. "work_location_verified" \in DOMAIN all
    BY <1>9, <1>11, <1>16, <2>1
  <2>3. placed
    BY <1>2, <1>4, <1>5, <1>7, <2>2
  <2>4. /\ {"work_location", "work_location_verified"} \subseteq DOMAIN all
        /\ all["work_location"] = d /\ all["work_location_verified"] = d
    BY <1>3, <1>4, <1>5, <1>7, <2>3
  <2>5. QED  BY <1>11, <1>14, <2>4 DEF Anchored, Has
<1>17. QED  BY <1>13, <1>15, <1>16 DEF TIInv, TripIsSound, Has

LEMMA TINextKeeps == TIInv /\ [TINext]_tiVars => TIInv'
<1> SUFFICES ASSUME TIInv, [TINext]_tiVars PROVE TIInv'
  OBVIOUS
<1>1. ASSUME NEW old \in {trip, <<>>}, Propose(old) PROVE TIInv'
  BY <1>1, CommitKeeps DEF Propose
<1>2. CASE CancelTrip
  <2>1. DOMAIN trip' = {} /\ home' = home
    BY <1>2, NothingKnown DEF CancelTrip
  <2>2. QED  BY <2>1 DEF TIInv, TIKinds, TripIsSound, DatesFit, Spans, Has
<1>3. CASE MoveHome
  BY <1>3 DEF MoveHome, TIInv, TIKinds, TripIsSound
<1>4. CASE UNCHANGED tiVars
  BY <1>4 DEF tiVars, TIInv, TIKinds, TripIsSound
<1>5. QED  BY <1>1, <1>2, <1>3, <1>4, FormKeeps DEF TINext, UpdateTrip, NewTrip

\* The fields of what a card is made from: the home city is where a trip starts
\* from that does not say so.
HomeCity == CHOOSE c \in home : TRUE

LEMMA FromHomeIs ==
  ASSUME NEW t, home \subseteq Cities
  PROVE  /\ DOMAIN FromHome(t) = DOMAIN t \cup (IF home = {} THEN {} ELSE {"origin"})
         /\ \A k \in DOMAIN t : FromHome(t)[k] = t[k]
         /\ home # {} /\ "origin" \notin DOMAIN t =>
              FromHome(t)["origin"] = HomeCity /\ HomeCity \in Cities
<1>1. home # {} => HomeCity \in Cities
  BY DEF HomeCity
<1>2. CASE "origin" \in DOMAIN t \/ home = {}
  BY <1>2 DEF FromHome, Has
<1>3. CASE "origin" \notin DOMAIN t /\ home # {}
  <2>1. PICK here : here = [origin |-> HomeCity]
    OBVIOUS
  <2>2. DOMAIN here = {"origin"} /\ here["origin"] = HomeCity
    BY <2>1
  <2>3. FromHome(t) = [k \in DOMAIN t \cup DOMAIN here |->
                         IF k \in DOMAIN here THEN here[k] ELSE t[k]]
    BY <1>3, <2>1 DEF FromHome, Merged, Has, HomeCity
  <2>4. QED  BY <1>1, <1>3, <2>2, <2>3
<1>4. QED  BY <1>2, <1>3

\* What a card asks for.
LEMMA MissingIs ==
  ASSUME NEW u, DatesFit(u)
  PROVE  /\ Missing(u) \subseteq {"origin", "destination", "start_date", "trip_purpose",
                                  "duration_days"}
         /\ "origin" \in Missing(u) <=> "origin" \notin DOMAIN u
         /\ "destination" \in Missing(u) <=> "destination" \notin DOMAIN u \/ RoundTrip(u)
         /\ "start_date" \in Missing(u) <=> "start_date" \notin DOMAIN u
         /\ "trip_purpose" \in Missing(u) <=> "trip_purpose" \notin DOMAIN u
         /\ "duration_days" \in Missing(u) <=>
              "end_date" \notin DOMAIN u /\ "duration_days" \notin DOMAIN u
<1>1. Missing(u) = {k \in {"origin", "destination", "start_date", "trip_purpose"} : k \notin DOMAIN u}
                   \cup (IF "end_date" \in DOMAIN u \/ "duration_days" \in DOMAIN u
                           THEN {} ELSE {"duration_days"})
                   \cup (IF RoundTrip(u) THEN {"destination"} ELSE {})
  BY DEF Missing, Lacking, Has
<1>2. QED  BY <1>1

\* A start that agrees with the end and the length that are known.
LEMMA AStart ==
  ASSUME NEW end \in MaxDays..LastDay, NEW days \in 1..MaxDays, NEW known \in BOOLEAN
  PROVE  \E from \in Days : /\ from <= end /\ (end - from) + 1 <= MaxDays
                            /\ known => days = (end - from) + 1
<1>1. MaxDays \in Nat /\ MaxDays >= 1 /\ LastDay \in Nat /\ end \in Nat /\ days \in Nat
  BY TripIntakeAssumption
<1>2. CASE known
  <2>1. PICK from \in Int : from = (end - days) + 1
    BY <1>1
  <2>2. from \in Days /\ from <= end /\ (end - from) + 1 = days
    BY <1>1, <2>1 DEF Days
  <2>3. days <= MaxDays
    BY <1>1
  <2>4. QED  BY <2>2, <2>3
<1>3. CASE ~known
  <2>1. end \in Days /\ (end - end) + 1 = 1
    BY <1>1 DEF Days
  <2>2. QED  BY <1>1, <1>3, <2>1
<1>4. QED  BY <1>2, <1>3

LEMMA CardsComplete == TIInv => CardCompletes
<1> SUFFICES ASSUME TIInv PROVE CardCompletes
  OBVIOUS
<1> PICK u : u = FromHome(trip)
  OBVIOUS
<1>1. /\ DOMAIN trip \subseteq DOMAIN Values /\ \A k \in DOMAIN trip : trip[k] \in Values[k]
      /\ home \subseteq Cities /\ DatesFit(trip)
  BY DEF TIInv, TIKinds, TripIsSound
<1>2. /\ DOMAIN u = DOMAIN trip \cup (IF home = {} THEN {} ELSE {"origin"})
      /\ \A k \in DOMAIN trip : u[k] = trip[k]
      /\ home # {} /\ "origin" \notin DOMAIN trip => u["origin"] = HomeCity /\ HomeCity \in Cities
  <2>1. home \subseteq Cities
    BY <1>1
  <2>2. QED  BY <2>1, FromHomeIs
<1>3. DatesFit(u)
  <2>1. \A k \in Dates : SameField(trip, u, k)
    BY <1>2 DEF SameField, Has, Dates
  <2>2. QED  BY <1>1, <2>1, DatesAgree
<1> PICK asked : asked = Missing(u)
  OBVIOUS
<1>4. /\ asked \subseteq {"origin", "destination", "start_date", "trip_purpose", "duration_days"}
      /\ "origin" \in asked <=> "origin" \notin DOMAIN u
      /\ "destination" \in asked <=> "destination" \notin DOMAIN u \/ RoundTrip(u)
      /\ "start_date" \in asked <=> "start_date" \notin DOMAIN u
      /\ "trip_purpose" \in asked <=> "trip_purpose" \notin DOMAIN u
      /\ "duration_days" \in asked <=>
           "end_date" \notin DOMAIN u /\ "duration_days" \notin DOMAIN u
  BY <1>3, MissingIs
<1>5. /\ CardStatus(u) = "ready_to_plan" => asked = {}
      /\ CardStatus(u) = "needs_clarification" => asked # {}
  <2>1. CASE RoundTrip(u) \/ ~DatesFit(u)
    <3>1. CardStatus(u) = "needs_clarification"
      BY <2>1 DEF CardStatus, PlanningReady
    <3>2. "destination" \in asked
      BY <1>3, <1>4, <2>1
    <3>3. QED  BY <3>1, <3>2
  <2>2. CASE ~(RoundTrip(u) \/ ~DatesFit(u)) /\ PlanningReady(u)
    <3>1. asked = {}
      BY <2>2 DEF PlanningReady
    <3>2. CardStatus(u) \in {"ready_to_plan", "collecting_required"}
      BY <2>2 DEF CardStatus
    <3>3. QED  BY <3>1, <3>2
  <2>3. CASE ~(RoundTrip(u) \/ ~DatesFit(u)) /\ ~PlanningReady(u)
    <3>1. CardStatus(u) = "collecting_required"
      BY <2>3 DEF CardStatus
    <3>2. QED  BY <3>1
  <2>4. QED  BY <2>1, <2>2, <2>3
<1>6. PICK from \in Days :
        "start_date" \notin DOMAIN trip /\ "end_date" \in DOMAIN trip =>
          /\ from <= trip["end_date"] /\ (trip["end_date"] - from) + 1 <= MaxDays
          /\ "duration_days" \in DOMAIN trip =>
               trip["duration_days"] = (trip["end_date"] - from) + 1
  <2>1. 1 \in Days /\ 1 \in 1..MaxDays
    BY TripIntakeAssumption DEF Days
  <2>2. CASE "end_date" \in DOMAIN trip
    <3>1. trip["end_date"] \in MaxDays..LastDay
      BY <1>1, <2>2, ValuesAre
    <3>2. CASE "duration_days" \in DOMAIN trip
      <4>1. trip["duration_days"] \in 1..MaxDays
        BY <1>1, <3>2, ValuesAre
      <4>2. QED  BY <3>1, <4>1, AStart
    <3>3. CASE "duration_days" \notin DOMAIN trip
      BY <2>1, <3>1, <3>3, AStart
    <3>4. QED  BY <3>2, <3>3
  <2>3. CASE "end_date" \notin DOMAIN trip
    BY <2>1, <2>3
  <2>4. QED  BY <2>2, <2>3
<1>7. PICK c \in Cities, d \in Cities :
        /\ "origin" \in DOMAIN u => d # u["origin"]
        /\ "origin" \notin DOMAIN u => c # (IF "destination" \in DOMAIN u THEN u["destination"] ELSE d)
  <2>1. PICK x \in Cities, y \in Cities : x # y
    BY TripIntakeAssumption
  <2>2. CASE "origin" \in DOMAIN u
    BY <2>1, <2>2
  <2>3. CASE "origin" \notin DOMAIN u /\ "destination" \in DOMAIN u
    BY <2>1, <2>3
  <2>4. CASE "origin" \notin DOMAIN u /\ "destination" \notin DOMAIN u
    BY <2>1, <2>4
  <2>5. QED  BY <2>2, <2>3, <2>4
<1> PICK days \in 1..MaxDays : days = 1
  BY TripIntakeAssumption
<1> PICK all : all = [origin |-> c, destination |-> d, start_date |-> from,
                      duration_days |-> days, trip_purpose |-> 1]
  OBVIOUS
<1>8. /\ all["origin"] = c /\ all["destination"] = d /\ all["start_date"] = from
      /\ all["duration_days"] = days
  OBVIOUS
<1>s. PICK sub : sub = Restrict(all, asked)
  OBVIOUS
<1>9. DOMAIN sub = asked /\ \A k \in asked : sub[k] = all[k]
  BY <1>s DEF Restrict
<1>v. PICK v : v = Merged(trip, sub)
  OBVIOUS
<1>10. /\ DOMAIN v = DOMAIN trip \cup asked
       /\ \A k \in asked : v[k] = all[k]
       /\ \A k \in DOMAIN trip \ asked : v[k] = trip[k]
  <2>1. v = [k \in DOMAIN trip \cup DOMAIN sub |-> IF k \in DOMAIN sub THEN sub[k] ELSE trip[k]]
    BY <1>v DEF Merged, Has
  <2>2. QED  BY <1>9, <2>1
<1>11. DatesFit(v)
  <2>1. \A k \in Dates : k \in DOMAIN u <=> k \in DOMAIN trip
    BY <1>2 DEF Dates
  <2>2. "end_date" \notin asked
    BY <1>4
  <2>3. CASE "end_date" \notin DOMAIN trip
    BY <1>10, <2>2, <2>3 DEF DatesFit, Spans, Has
  <2>4. CASE "end_date" \in DOMAIN trip
    <3>1. "duration_days" \notin asked
      BY <1>4, <2>1, <2>4 DEF Dates
    <3>2. /\ v["end_date"] = trip["end_date"]
          /\ "duration_days" \in DOMAIN v <=> "duration_days" \in DOMAIN trip
          /\ "duration_days" \in DOMAIN trip => v["duration_days"] = trip["duration_days"]
      BY <1>10, <2>2, <2>4, <3>1
    <3>3. CASE "start_date" \in DOMAIN trip
      <4>1. "start_date" \notin asked
        BY <1>4, <2>1, <3>3 DEF Dates
      <4>2. \A k \in Dates : SameField(trip, v, k)
        BY <1>10, <2>2, <2>4, <3>1, <3>3, <4>1 DEF SameField, Has, Dates
      <4>3. QED  BY <1>1, <4>2, DatesAgree
    <3>4. CASE "start_date" \notin DOMAIN trip
      <4>1. "start_date" \in asked
        BY <1>4, <2>1, <3>4 DEF Dates
      <4>2. v["start_date"] = from
        BY <1>8, <1>10, <4>1
      <4>3. QED  BY <1>6, <2>4, <3>2, <3>4, <4>2 DEF DatesFit, Spans, Has, Length
    <3>5. QED  BY <3>3, <3>4
  <2>5. QED  BY <2>3, <2>4
<1>w. PICK w : w = FromHome(v)
  OBVIOUS
<1>12. /\ DOMAIN w = DOMAIN v \cup (IF home = {} THEN {} ELSE {"origin"})
       /\ \A k \in DOMAIN v : w[k] = v[k]
       /\ home # {} /\ "origin" \notin DOMAIN v => w["origin"] = HomeCity
  <2>1. home \subseteq Cities
    BY <1>1
  <2>2. /\ DOMAIN FromHome(v) = DOMAIN v \cup (IF home = {} THEN {} ELSE {"origin"})
        /\ \A k \in DOMAIN v : FromHome(v)[k] = v[k]
        /\ home # {} /\ "origin" \notin DOMAIN v =>
             FromHome(v)["origin"] = HomeCity /\ HomeCity \in Cities
    BY <2>1, FromHomeIs
  <2>3. QED  BY <1>w, <2>2
<1>13. DatesFit(w)
  <2>1. \A k \in Dates : SameField(v, w, k)
    BY <1>12 DEF SameField, Has, Dates
  <2>2. QED  BY <1>11, <2>1, DatesAgree
<1>14. DOMAIN w = DOMAIN u \cup asked
  BY <1>2, <1>10, <1>12
<1>15. "origin" \in DOMAIN w /\ w["origin"] = IF "origin" \in DOMAIN u THEN u["origin"] ELSE c
  <2>1. CASE "origin" \in DOMAIN trip
    <3>1. "origin" \in DOMAIN u /\ "origin" \notin asked
      BY <1>2, <1>4, <2>1
    <3>2. QED  BY <1>2, <1>10, <1>12, <2>1, <3>1
  <2>2. CASE "origin" \notin DOMAIN trip /\ home # {}
    <3>1. "origin" \in DOMAIN u /\ "origin" \notin asked
      BY <1>2, <1>4, <2>2
    <3>2. "origin" \notin DOMAIN v
      BY <1>10, <2>2, <3>1
    <3>3. QED  BY <1>2, <1>12, <2>2, <3>1, <3>2
  <2>3. CASE "origin" \notin DOMAIN trip /\ home = {}
    <3>1. "origin" \notin DOMAIN u /\ "origin" \in asked
      BY <1>2, <1>4, <2>3
    <3>2. QED  BY <1>8, <1>10, <1>12, <3>1
  <2>4. QED  BY <2>1, <2>2, <2>3
<1>16. /\ "destination" \in DOMAIN w
       /\ w["destination"] = IF "destination" \in asked THEN d ELSE u["destination"]
  <2>1. CASE "destination" \in asked
    BY <1>8, <1>10, <1>12, <2>1
  <2>2. CASE "destination" \notin asked
    <3>1. "destination" \in DOMAIN trip
      BY <1>2, <1>4, <2>2
    <3>2. QED  BY <1>2, <1>10, <1>12, <2>2, <3>1
  <2>3. QED  BY <2>1, <2>2
<1>17. w["origin"] # w["destination"]
  <2>1. CASE "origin" \in DOMAIN u /\ "destination" \in asked
    BY <1>7, <1>15, <1>16, <2>1
  <2>2. CASE "origin" \in DOMAIN u /\ "destination" \notin asked
    <3>1. ~RoundTrip(u) /\ "destination" \in DOMAIN u
      BY <1>4, <2>2
    <3>2. u["origin"] # u["destination"]
      BY <2>2, <3>1 DEF RoundTrip, Has
    <3>3. QED  BY <1>15, <1>16, <2>2, <3>2
  <2>3. CASE "origin" \notin DOMAIN u
    <3>1. ~RoundTrip(u)
      BY <2>3 DEF RoundTrip, Has
    <3>2. QED  BY <1>4, <1>7, <1>15, <1>16, <2>3, <3>1
  <2>4. QED  BY <2>1, <2>2, <2>3
<1>18. ~RoundTrip(w)
  BY <1>17 DEF RoundTrip
<1>19. Missing(w) = {}
  <2>1. /\ "start_date" \in DOMAIN w /\ "trip_purpose" \in DOMAIN w
        /\ "end_date" \in DOMAIN w \/ "duration_days" \in DOMAIN w
    BY <1>4, <1>14
  <2>2. QED  BY <1>13, <1>15, <1>16, <1>18, <2>1, MissingIs
<1>20. Gate(trip, sub) /\ PlanningReady(FromHome(Merged(trip, sub)))
  BY <1>v, <1>w, <1>11, <1>13, <1>18, <1>19 DEF Gate, PlanningReady
<1>21. QED
  <2>1. CardStatus(FromHome(trip)) = "ready_to_plan" => Missing(FromHome(trip)) = {}
    BY <1>5
  <2>2. CardStatus(FromHome(trip)) = "needs_clarification" => Missing(FromHome(trip)) # {}
    BY <1>5
  <2>3. \E c1, d1 \in Cities, from1 \in Days, days1 \in 1..MaxDays :
          LET all1 == [origin |-> c1, destination |-> d1, start_date |-> from1,
                       duration_days |-> days1, trip_purpose |-> 1]
              sub1 == Restrict(all1, Missing(FromHome(trip)))
          IN  Gate(trip, sub1) /\ PlanningReady(FromHome(Merged(trip, sub1)))
    <3>1. LET all1 == [origin |-> c, destination |-> d, start_date |-> from,
                       duration_days |-> days, trip_purpose |-> 1]
              sub1 == Restrict(all1, Missing(FromHome(trip)))
          IN  Gate(trip, sub1) /\ PlanningReady(FromHome(Merged(trip, sub1)))
      BY <1>s, <1>20
    <3>2. QED  BY <3>1
  <2>4. QED  BY <2>1, <2>2, <2>3 DEF CardCompletes

\* Whatever changes came in whatever order, what is stored agrees and the card can be
\* answered: there are answers to exactly the fields it asks for that pass the gate and
\* leave nothing to ask (validation.py:37-101, core/trip_intake.py:69-184).
THEOREM TripsCanBePlanned == TISpec => []TripCanBePlanned
<1>1. TIInit => TIInv
  BY TIStarts
<1>2. TIInv /\ [TINext]_tiVars => TIInv'
  BY TINextKeeps
<1>3. TIInv => TripCanBePlanned
  BY CardsComplete DEF TIInv, TripCanBePlanned
<1>4. QED  BY <1>1, <1>2, <1>3, PTL DEF TISpec

-----------------------------------------------------------------------------
(***************************************************************************)
(* ContextWindow.  The invariant WindowInv says what the rows and the      *)
(* transcripts are and that the history of a turn is what Window would     *)
(* still make of them; that what Window makes is as ContextIsWhole says    *)
(* follows block by block (FromRow), then for the whole (Past), for an end *)
(* of it (Window) and for that with the messages of the turn (Compacted).  *)
(***************************************************************************)

\* The messages of the model; only Compacted makes a body "cleared".
Msg == [req : Turns, role : {"user", "assistant", "tool"}, from : {"row", "run"}, calls : 0..2,
        answers : 0..2, body : {"text", "none", "bulky", "plain", "card", "cleared"}]

\* The calls of message i are answered directly behind it.
Followed(s, i) ==
  /\ i + s[i].calls <= Len(s)
  /\ \A k \in 1 .. s[i].calls :
       s[i + k].role = "tool" /\ s[i + k].answers = k /\ s[i + k].req = s[i].req

\* Every call is answered, but for those of the last message, and every answer
\* has its call.
Nearly(s) ==
  /\ \A i \in 1..Len(s) : s[i].calls > 0 => s[i].role = "assistant" /\ (i = Len(s) \/ Followed(s, i))
  /\ \A j \in 1..Len(s) : s[j].role = "tool" => \E i \in 1 .. j - 1 : s[i].calls >= j - i
Grouped(s) ==
  /\ \A i \in 1..Len(s) : s[i].calls > 0 => s[i].role = "assistant" /\ Followed(s, i)
  /\ \A j \in 1..Len(s) : s[j].role = "tool" => \E i \in 1 .. j - 1 : s[i].calls >= j - i

\* The rows: a question and its answer, request after request.
RowsHold ==
  /\ stored \in Seq(Msg) /\ expired \in 0..Len(stored)
  /\ \A i \in 1..Len(stored) :
       /\ stored[i].from = "row" /\ stored[i].calls = 0 /\ stored[i].role # "tool"
       /\ stored[i].body # "cleared"
  /\ \A i, j \in 1..Len(stored) : i < j =>
       \/ stored[i].req < stored[j].req
       \/ stored[i].req = stored[j].req /\ stored[i].role = "user" /\ stored[j].role = "assistant"

\* A transcript: a question, and what came of it.
Transcript(s, r) ==
  /\ s \in Seq(Msg) /\ Nearly(s)
  /\ \A i \in 1..Len(s) :
       /\ s[i].req = r /\ s[i].from = "run" /\ s[i].body # "cleared"
       /\ i > 1 => s[i].role # "user"
RunsHold == run \in [Turns -> Seq(Msg)] /\ \A r \in Turns : Transcript(run[r], r)

\* The turn of the last question.
TurnHolds ==
  /\ phase \in {"idle", "asking", "acting", "answering"}
  /\ phase # "idle" =>
       /\ stored # <<>> /\ Last(stored).role = "user"
       /\ run[Now] # <<>> /\ history = Window(Now)
       /\ phase = "asking" => Last(run[Now]).calls = 0
       /\ phase = "acting" => Last(run[Now]).calls > 0
WindowInv == RowsHold /\ RunsHold /\ TurnHolds

\* What a message of a sequence of messages is.
LEMMA Messages ==
  ASSUME NEW s \in Seq(Msg), NEW i \in 1..Len(s)
  PROVE  s[i] \in Msg /\ s[i].calls \in Nat /\ s[i].req \in Turns
<1>1. s[i] \in Msg OBVIOUS
<1>2. s[i].calls \in 0..2 /\ s[i].req \in Turns BY <1>1 DEF Msg
<1> QED BY <1>1, <1>2

\* Sequences whose calls are answered are joined to one.
LEMMA GroupedJoins ==
  ASSUME NEW s \in Seq(Msg), NEW t \in Seq(Msg), Grouped(s), Nearly(t)
  PROVE  Nearly(s \o t) /\ (Grouped(t) => Grouped(s \o t))
<1> DEFINE n == Len(s)
           u == s \o t
<1>1. n \in Nat /\ Len(t) \in Nat /\ Len(u) = n + Len(t) /\ u \in Seq(Msg) OBVIOUS
<1>2. \A i \in 1..n : u[i] = s[i] OBVIOUS
<1>3. \A i \in 1..Len(t) : u[n + i] = t[i] OBVIOUS
<1>4. \A i \in 1..n : s[i].calls \in Nat BY Messages
<1>5. \A i \in 1..Len(t) : t[i].calls \in Nat BY Messages
<1> HIDE DEF n, u
<1>n. n = Len(s) BY DEF n
<1>6. ASSUME NEW i \in 1..n, u[i].calls > 0 PROVE u[i].role = "assistant" /\ Followed(u, i)
  <2>1. s[i].role = "assistant" /\ Followed(s, i) /\ u[i] = s[i]
    BY <1>2, <1>6, <1>n DEF Grouped
  <2>2. \A k \in 1 .. s[i].calls : i + k \in 1..n /\ u[i + k] = s[i + k]
    BY <2>1, <1>1, <1>2, <1>4, <1>n DEF Followed
  <2>3. s[i].calls \in Nat /\ i + s[i].calls <= n BY <2>1, <1>4, <1>n DEF Followed
  <2>4. i + u[i].calls <= Len(u) BY <2>1, <2>3, <1>1
  <2>5. ASSUME NEW k \in 1 .. u[i].calls
        PROVE  u[i + k].role = "tool" /\ u[i + k].answers = k /\ u[i + k].req = u[i].req
    <3>1. k \in 1 .. s[i].calls BY <2>1
    <3>2. s[i + k].role = "tool" /\ s[i + k].answers = k /\ s[i + k].req = s[i].req
      BY <3>1, <2>1 DEF Followed
    <3> QED BY <3>1, <3>2, <2>1, <2>2
  <2> QED BY <2>1, <2>4, <2>5 DEF Followed
<1>7. ASSUME NEW i \in 1..Len(t), Followed(t, i) PROVE Followed(u, n + i)
  <2>1. \A k \in 1 .. t[i].calls : i + k \in 1..Len(t) /\ (n + i) + k = n + (i + k) /\ u[n + (i + k)] = t[i + k]
    BY <1>7, <1>1, <1>3, <1>5 DEF Followed
  <2>2. u[n + i] = t[i] BY <1>3
  <2>3. t[i].calls \in Nat /\ i + t[i].calls <= Len(t) BY <1>7, <1>5 DEF Followed
  <2>4. (n + i) + u[n + i].calls <= Len(u) BY <2>2, <2>3, <1>1
  <2>5. ASSUME NEW k \in 1 .. u[n + i].calls
        PROVE  /\ u[(n + i) + k].role = "tool" /\ u[(n + i) + k].answers = k
               /\ u[(n + i) + k].req = u[n + i].req
    <3>1. k \in 1 .. t[i].calls BY <2>2
    <3>2. t[i + k].role = "tool" /\ t[i + k].answers = k /\ t[i + k].req = t[i].req
      BY <3>1, <1>7 DEF Followed
    <3>3. u[(n + i) + k] = t[i + k] BY <3>1, <2>1
    <3> QED BY <3>2, <3>3, <2>2
  <2> QED BY <2>4, <2>5 DEF Followed
<1>8. \A j \in 1..Len(u) : j \in 1..n \/ (j - n \in 1..Len(t) /\ j = n + (j - n)) BY <1>1
<1>9. ASSUME NEW j \in 1..Len(u), u[j].role = "tool" PROVE \E i \in 1 .. j - 1 : u[i].calls >= j - i
  <2>1. CASE j \in 1..n
    <3>1. s[j].role = "tool" BY <1>9, <2>1, <1>2
    <3>2. PICK i \in 1 .. j - 1 : s[i].calls >= j - i BY <3>1, <2>1, <1>n DEF Grouped
    <3>3. i \in 1..n BY <2>1, <1>1
    <3> QED BY <3>2, <3>3, <1>2
  <2>2. CASE j - n \in 1..Len(t) /\ j = n + (j - n)
    <3>1. t[j - n].role = "tool" BY <1>9, <2>2, <1>3
    <3>2. PICK i \in 1 .. (j - n) - 1 : t[i].calls >= (j - n) - i BY <3>1, <2>2 DEF Nearly
    <3>3. i \in 1..Len(t) /\ n + i \in 1 .. j - 1 BY <2>2, <1>1
    <3>4. u[n + i] = t[i] /\ (j - n) - i = j - (n + i) BY <3>3, <1>3, <1>1
    <3> QED BY <3>2, <3>3, <3>4
  <2> QED BY <1>8, <2>1, <2>2
<1>10. Nearly(u)
  <2>1. ASSUME NEW j \in 1..Len(u), u[j].calls > 0
        PROVE  u[j].role = "assistant" /\ (j = Len(u) \/ Followed(u, j))
    <3>1. CASE j \in 1..n BY <3>1, <2>1, <1>6
    <3>2. CASE j - n \in 1..Len(t) /\ j = n + (j - n)
      <4>1. u[j] = t[j - n] BY <3>2, <1>3
      <4>2. t[j - n].role = "assistant" /\ (j - n = Len(t) \/ Followed(t, j - n))
        BY <4>1, <3>2, <2>1 DEF Nearly
      <4>3. Followed(t, j - n) => Followed(u, j) BY <3>2, <1>7
      <4> QED BY <4>1, <4>2, <4>3, <1>1, <3>2
    <3> QED BY <1>8, <3>1, <3>2
  <2> QED BY <2>1, <1>9 DEF Nearly
<1>11. ASSUME Grouped(t) PROVE Grouped(u)
  <2>1. ASSUME NEW j \in 1..Len(u), u[j].calls > 0 PROVE  u[j].role = "assistant" /\ Followed(u, j)
    <3>1. CASE j \in 1..n BY <3>1, <2>1, <1>6
    <3>2. CASE j - n \in 1..Len(t) /\ j = n + (j - n)
      <4>1. u[j] = t[j - n] BY <3>2, <1>3
      <4>2. t[j - n].role = "assistant" /\ Followed(t, j - n)
        BY <4>1, <3>2, <2>1, <1>11 DEF Grouped
      <4>3. Followed(u, j) BY <3>2, <1>7, <4>2
      <4> QED BY <4>1, <4>2, <4>3
    <3> QED BY <1>8, <3>1, <3>2
  <2> QED BY <2>1, <1>9 DEF Grouped
<1> QED BY <1>10, <1>11 DEF u

\* A cut in front of a message that is no answer.
LEMMA GroupedCut ==
  ASSUME NEW s \in Seq(Msg), Grouped(s), NEW k \in 1 .. Len(s) + 1,
         k <= Len(s) => (k = 1 \/ s[k].role # "tool")
  PROVE  Grouped(SubSeq(s, k, Len(s)))
<1> DEFINE n == Len(s)
           u == SubSeq(s, k, n)
<1>1. n \in Nat /\ Len(u) = n - k + 1 /\ u \in Seq(Msg) OBVIOUS
<1>2. \A i \in 1..Len(u) : u[i] = s[(k + i) - 1] /\ (k + i) - 1 \in 1..n
  <2>1. \A i \in 1..(n - k + 1) : u[i] = s[(k + i) - 1] /\ (k + i) - 1 \in 1..n BY SubSeqProperties
  <2> QED BY <2>1, <1>1
<1>4. \A i \in 1..n : s[i].calls \in Nat BY Messages
<1> HIDE DEF n, u
<1>n. n = Len(s) BY DEF n
<1>5. ASSUME NEW i \in 1..Len(u), u[i].calls > 0 PROVE u[i].role = "assistant" /\ Followed(u, i)
  <2>1. s[(k + i) - 1].role = "assistant" /\ Followed(s, (k + i) - 1) /\ u[i] = s[(k + i) - 1]
    BY <1>2, <1>5, <1>n DEF Grouped
  <2> DEFINE q == (k + i) - 1
             c == s[q].calls
  <2>2. c \in Nat /\ q + c <= n /\ u[i].calls = c /\ q \in 1..n BY <2>1, <1>2, <1>4, <1>n DEF Followed
  <2>3. \A m \in 1..c : i + m \in 1..Len(u) /\ (k + (i + m)) - 1 = q + m
    <3> HIDE DEF c
    <3> QED BY <2>2, <1>1
  <2>4. i + u[i].calls <= Len(u)
    <3> HIDE DEF c
    <3> QED BY <2>2, <1>1
  <2>5. ASSUME NEW m \in 1 .. u[i].calls
        PROVE  u[i + m].role = "tool" /\ u[i + m].answers = m /\ u[i + m].req = u[i].req
    <3>1. s[q + m].role = "tool" /\ s[q + m].answers = m /\ s[q + m].req = s[q].req
      BY <2>1, <2>2 DEF Followed
    <3>2. u[i + m] = s[q + m] BY <2>2, <2>3, <1>2
    <3> QED BY <3>1, <3>2, <2>1
  <2> QED BY <2>1, <2>4, <2>5 DEF Followed
<1>6. ASSUME NEW j \in 1..Len(u), u[j].role = "tool" PROVE \E i \in 1 .. j - 1 : u[i].calls >= j - i
  <2> DEFINE q == (k + j) - 1
  <2>1. q \in 1..n /\ s[q].role = "tool" BY <1>2, <1>6
  <2>2. PICK i \in 1 .. q - 1 : s[i].calls >= q - i BY <2>1, <1>n DEF Grouped
  <2>3. i \in 1..n /\ s[i].calls > 0 /\ s[i].calls \in Nat
    <3>1. q \in Nat /\ q <= n /\ i \in 1 .. q - 1 /\ s[i].calls >= q - i BY <2>1, <2>2, <1>1
    <3> HIDE DEF q
    <3>2. i \in 1..n /\ q - i > 0 /\ q - i \in Nat BY <3>1, <1>1
    <3>3. s[i].calls \in Nat BY <3>2, <1>4
    <3> QED BY <3>1, <3>2, <3>3
  <2>4. Followed(s, i) BY <2>3, <1>n DEF Grouped
  <2>5. CASE i >= k
    <3>1. (i - k) + 1 \in 1 .. j - 1 /\ (i - k) + 1 \in 1..Len(u) /\ (k + ((i - k) + 1)) - 1 = i
      <4>1. j \in Nat /\ j >= 1 /\ j <= Len(u) /\ k \in Nat /\ k >= 1 /\ i \in Nat /\ i <= (k + j) - 2
        BY <2>2, <1>1, <1>n
      <4> HIDE DEF q
      <4> QED BY <4>1, <2>5, <1>1
    <3>2. u[(i - k) + 1] = s[i] /\ q - i = j - ((i - k) + 1) BY <3>1, <1>2, <1>1
    <3> QED BY <3>1, <3>2, <2>2
  <2>6. CASE i < k
    <3>1. k - i \in 1 .. s[i].calls /\ i + (k - i) = k BY <2>6, <2>2, <2>3, <1>1
    <3>2. s[k].role = "tool" BY <3>1, <2>4 DEF Followed
    <3>3. k <= Len(s) /\ k # 1 BY <2>6, <2>3, <2>4, <3>1, <1>1, <1>n DEF Followed
    <3> QED BY <3>2, <3>3
  <2> QED BY <2>5, <2>6, <1>1
<1> QED BY <1>5, <1>6 DEF Grouped, u, n

\* Joining groups keeps them.
LEMMA GroupedFlat ==
  ASSUME NEW ss \in Seq(Seq(Msg)), \A i \in 1..Len(ss) : Grouped(ss[i])
  PROVE  FlattenSeq(ss) \in Seq(Msg) /\ Grouped(FlattenSeq(ss))
<1> DEFINE n == Len(ss)
           t == FlattenSeq(ss)
<1>1. PICK at : StartsAt(ss, at) BY StartsExist
<1>2. t \in Seq(Msg) /\ Joins(ss, at, t, n) BY <1>1, Flattened
<1>3. n \in Nat /\ Len(ss) = n OBVIOUS
<1>4. \A i \in 1..n : ss[i] \in Seq(Msg) /\ Len(ss[i]) \in Nat OBVIOUS
<1>5. at[n + 1] = Len(t) /\ \A i \in 1..n : at[i] \in Nat /\ at[i + 1] = at[i] + Len(ss[i])
  <2>1. at[n + 1] = Len(t) BY <1>2 DEF Joins
  <2>2. at \in [1 .. n + 1 -> Nat] /\ \A i \in 1..n : at[i + 1] = at[i] + Len(ss[i])
    BY <1>1, <1>3 DEF StartsAt
  <2>3. \A i \in 1..n : i \in 1 .. n + 1 BY <1>3
  <2> HIDE DEF n
  <2> QED BY <2>1, <2>2, <2>3
<1>6. \A i \in 1..n : \A k \in 1..Len(ss[i]) : t[at[i] + k] = ss[i][k] /\ ss[i][k].calls \in Nat
  BY <1>2, <1>3, <1>4, Messages DEF Joins
<1>7. \A i \in 1..n : at[i] + Len(ss[i]) <= Len(t)
  <2>1. ASSUME NEW i \in 1..n PROVE at[i + 1] <= at[n + 1]
    <3>1. i + 1 \in 1 .. Len(ss) + 1 /\ n + 1 \in (i + 1) .. Len(ss) + 1 BY <1>3
    <3> QED BY <3>1, <1>1, StartsRise
  <2> QED BY <2>1, <1>5
<1>8. \A p \in 1..Len(t) : \E i \in 1..n : \E k \in 1..Len(ss[i]) : p = at[i] + k
  <2>1. n \in 0..Len(ss) BY <1>3
  <2>2. ASSUME NEW p \in 1..Len(t) PROVE \E i \in 1..n : \E k \in 1..Len(ss[i]) : p = at[i] + k
    <3>1. p \in 1..at[n + 1] BY <1>5
    <3>2. Place(ss, at, n, p) BY <2>1, <3>1, <1>1, PlaceOf
    <3> QED BY <3>2 DEF Place
  <2> QED BY <2>2
<1>9. ASSUME NEW p \in 1..Len(t), t[p].calls > 0 PROVE t[p].role = "assistant" /\ Followed(t, p)
  <2>0. PICK i \in 1..n : \E k \in 1..Len(ss[i]) : p = at[i] + k BY <1>8
  <2>1. PICK k \in 1..Len(ss[i]) : p = at[i] + k BY <2>0
  <2> DEFINE u == ss[i]
             c == u[k].calls
  <2>2. t[p] = u[k] /\ u[k].role = "assistant" /\ Followed(u, k) BY <2>1, <1>6, <1>9 DEF Grouped
  <2>3. c \in Nat /\ k + c <= Len(u) /\ Len(u) \in Nat /\ at[i] \in Nat /\ k \in 1..Len(u)
    <3>1. k + c <= Len(u) BY <2>2 DEF Followed
    <3>2. c \in Nat BY <1>6
    <3> QED BY <3>1, <3>2, <1>4, <1>5
  <2>4. \A m \in 1..c : k + m \in 1..Len(u) /\ p + m = at[i] + (k + m)
    <3> HIDE DEF c, u
    <3> QED BY <2>1, <2>3
  <2>5. p + c <= Len(t) BY <2>1, <2>3, <1>7, SMTT(30)
  <2>6. ASSUME NEW m \in 1..c
        PROVE t[p + m].role = "tool" /\ t[p + m].answers = m /\ t[p + m].req = t[p].req
    <3>1. u[k + m].role = "tool" /\ u[k + m].answers = m /\ u[k + m].req = u[k].req
      BY <2>2 DEF Followed
    <3>2. t[p + m] = u[k + m] BY <2>4, <1>6
    <3> QED BY <3>1, <3>2, <2>2
  <2> QED BY <2>2, <2>5, <2>6 DEF Followed
<1>10. ASSUME NEW p \in 1..Len(t), t[p].role = "tool" PROVE \E q \in 1 .. p - 1 : t[q].calls >= p - q
  <2>0. PICK i \in 1..n : \E k \in 1..Len(ss[i]) : p = at[i] + k BY <1>8
  <2>1. PICK k \in 1..Len(ss[i]) : p = at[i] + k BY <2>0
  <2>2. ss[i][k].role = "tool" BY <2>1, <1>6, <1>10
  <2>3. PICK m \in 1 .. k - 1 : ss[i][m].calls >= k - m BY <2>2 DEF Grouped
  <2>4. m \in 1..Len(ss[i]) /\ at[i] + m \in 1 .. p - 1 /\ p - (at[i] + m) = k - m
    <3>1. k \in Nat /\ k <= Len(ss[i]) /\ Len(ss[i]) \in Nat /\ at[i] \in Nat /\ m \in Nat /\ m >= 1 /\ m <= k - 1
      BY <1>4, <1>5
    <3> QED BY <3>1, <2>1, SMTT(30)
  <2>5. t[at[i] + m] = ss[i][m] BY <2>4, <1>6
  <2> QED BY <2>3, <2>4, <2>5
<1> QED BY <1>2, <1>9, <1>10 DEF Grouped

\* The answers directly behind a message with calls are its own.
LEMMA FollowedIsExecuted ==
  ASSUME NEW s \in Seq(Msg), Nearly(s), NEW i \in 1..Len(s), s[i].calls > 0, Followed(s, i)
  PROVE  Batch(s, i) = i + 1 .. i + s[i].calls /\ Executed(s, i)
<1> DEFINE c == s[i].calls
<1>1. c \in Nat /\ Len(s) \in Nat /\ i + c <= Len(s) BY Messages DEF Followed
<1>2. \A k \in 1..c : s[i + k].role = "tool" /\ s[i + k].answers = k BY DEF Followed
<1>3. \A j \in i + 1 .. i + c : j - i \in 1..c /\ i + (j - i) = j BY <1>1
<1>4. \A j \in i + 1 .. i + c : s[j].role = "tool" /\ s[j].answers = j - i BY <1>2, <1>3
<1>5. \A j \in i + 1 .. i + c : j \in i + 1 .. Len(s) BY <1>1
<1>6. ASSUME NEW j \in i + 1 .. Len(s), j = (i + c) + 1 PROVE s[j].role # "tool"
  <2>1. SUFFICES ASSUME s[j].role = "tool" PROVE FALSE OBVIOUS
  <2>2. j \in 1..Len(s) BY <1>1
  <2>3. PICK m \in 1 .. j - 1 : s[m].calls >= j - m BY <2>1, <2>2 DEF Nearly
  <2>4. m \in 1..Len(s) /\ s[m].calls \in Nat /\ s[m].calls > 0 BY <2>3, <2>2, Messages
  <2>5. s[m].role = "assistant" BY <2>4 DEF Nearly
  <2>6. m \notin i + 1 .. i + c BY <1>4, <2>5
  <2>7. m < i BY <2>3, <2>6, <1>1, <1>6
  <2>8. Followed(s, m) BY <2>4, <2>7 DEF Nearly
  <2>9. i - m \in 1 .. s[m].calls /\ m + (i - m) = i BY <2>3, <2>7, <1>6, <1>1, <2>4
  <2>10. s[i].role = "tool" BY <2>8, <2>9 DEF Followed
  <2> QED BY <2>10 DEF Nearly
<1>7. Batch(s, i) = i + 1 .. i + c
  <2>1. ASSUME NEW j \in Batch(s, i) PROVE j \in i + 1 .. i + c
    <3>1. j \in i + 1 .. Len(s) /\ \A k \in i + 1 .. j : s[k].role = "tool" BY DEF Batch
    <3>2. CASE j > i + c
      <4>1. (i + c) + 1 \in i + 1 .. j /\ (i + c) + 1 \in i + 1 .. Len(s) BY <3>1, <3>2, <1>1
      <4> QED BY <4>1, <3>1, <1>6
    <3> QED BY <3>1, <3>2, <1>1
  <2>2. ASSUME NEW j \in i + 1 .. i + c PROVE j \in Batch(s, i)
    <3>1. \A k \in i + 1 .. j : k \in i + 1 .. i + c BY <1>1
    <3> QED BY <3>1, <1>4, <1>5 DEF Batch
  <2> QED BY <2>1, <2>2
<1>8. Cardinality(i + 1 .. i + c) = c
  <2> HIDE DEF c
  <2> DEFINE a == i + 1
             b == i + c
  <2>1. a \in Int /\ b \in Int /\ b - a + 1 = c /\ c \in Nat /\ (a > b => c = 0) BY <1>1
  <2> HIDE DEF a, b
  <2>2. Cardinality(a..b) = IF a > b THEN 0 ELSE b - a + 1 BY <2>1, FS_Interval
  <2>3. Cardinality(a..b) = c BY <2>1, <2>2
  <2> QED BY <2>3 DEF a, b
<1>9. {s[j].answers : j \in i + 1 .. i + c} = 1..c
  <2>1. \A k \in 1..c : i + k \in i + 1 .. i + c /\ (i + k) - i = k BY <1>1
  <2>2. \A k \in 1..c : s[i + k].answers = k BY <1>2
  <2>3. \A j \in i + 1 .. i + c : j - i \in 1..c /\ i + (j - i) = j BY <1>3
  <2>4. ASSUME NEW x \in 1..c PROVE \E j \in i + 1 .. i + c : s[j].answers = x
    <3>1. i + x \in i + 1 .. i + c BY <2>1
    <3> HIDE DEF c
    <3> QED BY <3>1, <2>2
  <2>5. ASSUME NEW j \in i + 1 .. i + c PROVE s[j].answers \in 1..c
    <3>1. j - i \in 1..c /\ s[i + (j - i)].answers = j - i /\ i + (j - i) = j BY <2>2, <2>3
    <3> HIDE DEF c
    <3> QED BY <3>1
  <2> HIDE DEF c
  <2> QED BY <2>4, <2>5
<1> QED BY <1>7, <1>8, <1>9 DEF Executed

\* What settled_messages makes of a message.
LEMMA KeptIs ==
  ASSUME NEW s \in Seq(Msg), Nearly(s), NEW i \in 1..Len(s)
  PROVE  Kept(s, i) = IF s[i].calls > 0 /\ i = Len(s)
                      THEN IF s[i].body = "text" THEN <<[s[i] EXCEPT !.calls = 0]>> ELSE <<>>
                      ELSE <<s[i]>>
<1>0. Len(s) \in Nat /\ \A j \in 1..Len(s) : s[j].calls \in Nat BY Messages
<1>1. CASE s[i].role = "tool"
  <2>1. ~(s[i].calls > 0) BY <1>1 DEF Nearly
  <2>2. PICK c \in 1 .. i - 1 : s[c].calls >= i - c BY <1>1 DEF Nearly
  <2>3. c \in 1..Len(s) /\ c # Len(s) /\ s[c].calls > 0 /\ s[c].calls \in Nat BY <2>2, <1>0
  <2>4. Followed(s, c) BY <2>3 DEF Nearly
  <2>5. Batch(s, c) = c + 1 .. c + s[c].calls /\ Executed(s, c) BY <2>3, <2>4, FollowedIsExecuted
  <2>6. i \in Batch(s, c) BY <2>2, <2>3, <2>5
  <2>7. \E d \in 1 .. i - 1 : s[d].calls > 0 /\ i \in Batch(s, d) /\ Executed(s, d)
    BY <2>2, <2>3, <2>5, <2>6
  <2>8. Kept(s, i) = <<s[i]>> BY <1>1, <2>1, <2>7 DEF Kept
  <2> QED BY <2>1, <2>8
<1>2. CASE s[i].role # "tool" /\ s[i].calls > 0 /\ i # Len(s)
  <2>1. Followed(s, i) BY <1>2 DEF Nearly
  <2>2. Executed(s, i) BY <2>1, <1>2, FollowedIsExecuted
  <2> QED BY <2>2, <1>2 DEF Kept
<1>3. CASE s[i].role # "tool" /\ s[i].calls > 0 /\ i = Len(s)
  <2>1. i + 1 .. Len(s) = {} BY <1>3, <1>0
  <2>2. Batch(s, i) = {} BY <2>1 DEF Batch
  <2>3. ~Executed(s, i) BY <2>2, <1>3, FS_EmptySet DEF Executed
  <2> QED BY <2>3, <1>3 DEF Kept
<1>4. CASE s[i].role # "tool" /\ ~(s[i].calls > 0) BY <1>4 DEF Kept
<1> QED BY <1>1, <1>2, <1>3, <1>4

LEMMA GroupedIsNearly == ASSUME NEW s, Grouped(s) PROVE Nearly(s)
  BY DEF Grouped, Nearly

\* Settled messages are settled.
LEMMA SettledAgain ==
  ASSUME NEW s \in Seq(Msg), Grouped(s)
  PROVE  Settled(s) = s
<1> DEFINE ss == [i \in DOMAIN s |-> Kept(s, i)]
<1>0. Len(s) \in Nat /\ DOMAIN s = 1..Len(s) /\ \A j \in 1..Len(s) : s[j] \in Msg /\ s[j].calls \in Nat
  BY Messages
<1>1. ASSUME NEW i \in 1..Len(s) PROVE Kept(s, i) = <<s[i]>>
  <2>1. s[i].calls \in Nat BY <1>0
  <2> DEFINE c == s[i].calls
  <2>2. c > 0 => i + c <= Len(s) BY DEF Grouped, Followed
  <2>c. c \in Nat BY <2>1
  <2>3. c > 0 => i # Len(s)
    <3> HIDE DEF c
    <3> QED BY <2>2, <2>c, <1>0
  <2> QED BY <2>3, GroupedIsNearly, KeptIs
<1>2. Len(ss) = Len(s) /\ \A i \in 1..Len(ss) : ss[i] = <<s[i]>>
  BY <1>0, <1>1
<1>3. ss \in Seq(Seq(Msg))
  <2> HIDE DEF ss
  <2>1. \A i \in 1..Len(s) : <<s[i]>> \in Seq(Msg) BY <1>0
  <2>2. ss = [i \in 1..Len(s) |-> ss[i]] BY <1>0 DEF ss
  <2>3. ss \in [1..Len(s) -> Seq(Msg)] BY <1>2, <2>1, <2>2
  <2> QED BY <2>3, <1>0
<1> HIDE DEF ss
<1>a. \A i \in 1..Len(ss) : ss[i] = IF i <= Len(s) THEN <<s[i]>> ELSE <<>> BY <1>2
<1>b. Len(s) <= Len(ss) BY <1>0, <1>2
<1>4. FlattenSeq(ss) = s BY <1>a, <1>b, <1>3, Singles
<1> QED BY <1>4 DEF Settled, ss

\* The messages that are settled are those of before, but for calls at the end.
Resembles(t, s) ==
  /\ Len(t) <= Len(s)
  /\ \A p \in 1..Len(t) : /\ t[p].req = s[p].req /\ t[p].role = s[p].role
                          /\ t[p].from = s[p].from /\ t[p].body = s[p].body

LEMMA ItselfResembles == ASSUME NEW S, NEW s \in Seq(S) PROVE Resembles(s, s)
  BY DEF Resembles

\* Without the calls at the end every call is answered.
LEMMA FrontGrouped ==
  ASSUME NEW s \in Seq(Msg), Nearly(s), Len(s) > 0, s[Len(s)].role # "tool"
  PROVE  Grouped(SubSeq(s, 1, Len(s) - 1))
<1> DEFINE n == Len(s)
           f == SubSeq(s, 1, n - 1)
<1>z. n \in Nat /\ n > 0 OBVIOUS
<1>y. f \in Seq(Msg) /\ Len(f) = n - 1 BY <1>z, SMTT(30)
<1>x. \A i \in 1 .. n - 1 : f[i] = s[i] BY <1>z
<1>0. n \in Nat /\ n > 0 /\ f \in Seq(Msg) /\ Len(f) = n - 1 /\ \A i \in 1 .. n - 1 : f[i] = s[i]
  BY <1>x, <1>y, <1>z
<1>a. \A i \in 1..n : s[i].calls \in Nat BY Messages
<1>n. n = Len(s) OBVIOUS
<1> HIDE DEF n, f
<1>1. ASSUME NEW i \in 1 .. n - 1, s[i].calls > 0 PROVE f[i].role = "assistant" /\ Followed(f, i)
  <2>1. i \in 1..n /\ i # n /\ f[i] = s[i] BY <1>0
  <2>2. s[i].role = "assistant" /\ Followed(s, i) BY <2>1, <1>1, <1>n DEF Nearly
  <2> DEFINE c == s[i].calls
  <2>3. i + c <= n /\ c \in Nat BY <2>1, <2>2, <1>a, <1>n DEF Followed
  <2>c. c > 0 BY <1>1
  <2>4. \A k \in 1..c : s[i + k].role = "tool" /\ s[i + k].answers = k /\ s[i + k].req = s[i].req
    BY <2>2 DEF Followed
  <2>d. f[i].calls = c BY <2>1
  <2> HIDE DEF c
  <2>5. i + c # n
    <3>1. c \in 1..c BY <2>3, <2>c
    <3> QED BY <3>1, <2>4, <1>n
  <2>6. i + c <= Len(f) BY <2>3, <2>5, <1>0
  <2>7. \A k \in 1..c : f[i + k] = s[i + k]
    <3>1. \A k \in 1..c : i + k \in 1 .. n - 1 BY <2>3, <2>6, <1>0
    <3> QED BY <3>1, <1>0
  <2> QED BY <2>1, <2>2, <2>4, <2>6, <2>7, <2>d DEF Followed
<1>2. ASSUME NEW j \in 1 .. n - 1, s[j].role = "tool" PROVE \E i \in 1 .. j - 1 : f[i].calls >= j - i
  <2>1. j \in 1..n BY <1>0
  <2>2. PICK i \in 1 .. j - 1 : s[i].calls >= j - i BY <2>1, <1>2, <1>n DEF Nearly
  <2>3. i \in 1 .. n - 1 BY <2>1, <1>0
  <2> QED BY <2>2, <2>3, <1>0
<1> QED BY <1>0, <1>1, <1>2 DEF Grouped, f, n

LEMMA SettledIs ==
  ASSUME NEW s \in Seq(Msg), Nearly(s)
  PROVE  Settled(s) \in Seq(Msg) /\ Grouped(Settled(s)) /\ Resembles(Settled(s), s)
<1> DEFINE n == Len(s)
<1>0. n \in Nat /\ DOMAIN s = 1..n /\ n = Len(s) /\ \A j \in 1..n : s[j] \in Msg /\ s[j].calls \in Nat
  BY Messages
<1> HIDE DEF n
<1>1. CASE ~(n > 0 /\ s[n].calls > 0)
  <2>1. ASSUME NEW i \in 1..n, s[i].calls > 0 PROVE s[i].role = "assistant" /\ Followed(s, i)
    <3>1. i # n
      <4>1. SUFFICES ASSUME i = n PROVE FALSE OBVIOUS
      <4>2. s[n].calls > 0 /\ n > 0 BY <2>1, <4>1, <1>0
      <4> QED BY <4>2, <1>1
    <3> QED BY <2>1, <3>1, <1>0 DEF Nearly
  <2>2. Grouped(s) BY <2>1, <1>0 DEF Grouped, Nearly
  <2>3. Settled(s) = s BY <2>2, SettledAgain
  <2> QED BY <2>2, <2>3, ItselfResembles
<1>2. CASE n > 0 /\ s[n].calls > 0
  <2> DEFINE f == SubSeq(s, 1, n - 1)
             final == [s[n] EXCEPT !.calls = 0]
             ss == [i \in DOMAIN s |-> Kept(s, i)]
             text == s[n].body = "text"
             t == IF text THEN Append(f, final) ELSE f
  <2>1. f \in Seq(Msg) /\ Len(f) = n - 1 /\ \A i \in 1 .. n - 1 : f[i] = s[i] BY <1>0, <1>2
  <2>a. n \in 1..n BY <1>0, <1>2
  <2>2. s[n].role = "assistant" /\ s[n] \in Msg BY <1>0, <1>2, <2>a DEF Nearly
  <2>3. final \in Msg /\ final.calls = 0 /\ final.role = "assistant" /\ final.req = s[n].req
        /\ final.from = s[n].from /\ final.body = s[n].body
    BY <2>2 DEF Msg
  <2>4. Grouped(f) BY <2>2, <1>0, <1>2, FrontGrouped
  <2> HIDE DEF f, final
  <2>5. text => Len(t) = n /\ t[n] = final /\ t \in Seq(Msg) /\ \A i \in 1 .. n - 1 : t[i] = s[i]
    BY <2>1, <2>3, <1>0, <1>2
  <2>6. ~text => Len(t) = n - 1 /\ t \in Seq(Msg) /\ \A i \in 1 .. n - 1 : t[i] = s[i]
    BY <2>1, <1>0, <1>2
  <2>7. Grouped(t)
    <3>1. <<final>> \in Seq(Msg) /\ Len(<<final>>) = 1 /\ <<final>>[1] = final BY <2>3
    <3> DEFINE one == <<final>>
    <3> HIDE DEF one
    <3>2. Grouped(one)
      <4>1. one \in Seq(Msg) /\ Len(one) = 1 /\ one[1] = final BY <3>1 DEF one
      <4>2. \A i \in 1..Len(one) : one[i] = final BY <4>1
      <4> QED BY <4>2, <2>3 DEF Grouped
    <3>3. f \o one = Append(f, final) BY <2>1, <2>3 DEF one
    <3>4. Grouped(f \o one)
      <4>1. one \in Seq(Msg) BY <3>1 DEF one
      <4> QED BY <2>1, <2>4, <3>2, <4>1, GroupedJoins, GroupedIsNearly
    <3> QED BY <3>3, <3>4, <2>4
  <2>8. ASSUME NEW i \in 1..n
        PROVE  Kept(s, i) = IF i = n THEN (IF text THEN <<final>> ELSE <<>>) ELSE <<s[i]>>
    <3>1. i \in 1..Len(s) BY <1>0
    <3>2. CASE i = n BY <3>1, <3>2, <1>0, <1>2, KeptIs DEF final
    <3>3. CASE i # n BY <3>1, <3>3, <1>0, <1>2, KeptIs
    <3> QED BY <3>2, <3>3
  <2> HIDE DEF text, t
  <2>n. n \in Nat /\ n > 0 BY <1>0, <1>2
  <2>9. Len(t) \in Nat /\ Len(t) <= n /\ n - 1 <= Len(t) /\ \A i \in 1 .. n - 1 : t[i] = s[i]
    <3>1. CASE text BY <3>1, <2>5, <2>n
    <3>2. CASE ~text BY <3>2, <2>6, <2>n
    <3> QED BY <3>1, <3>2
  <2>10. ASSUME NEW i \in 1..n PROVE Kept(s, i) = IF i <= Len(t) THEN <<t[i]>> ELSE <<>>
    <3>1. CASE i = n /\ text BY <3>1, <2>5, <2>8
    <3>2. CASE i = n /\ ~text
      <4>1. Kept(s, i) = <<>> /\ ~(i <= Len(t)) BY <3>2, <2>6, <2>8, <1>0
      <4> QED BY <4>1
    <3>3. CASE i # n
      <4>0. i \in 1 .. n - 1 BY <3>3, <2>n
      <4>1. i <= Len(t) /\ t[i] = s[i] BY <4>0, <2>9, <2>n
      <4> QED BY <4>1, <3>3, <2>8
    <3> QED BY <3>1, <3>2, <3>3
  <2>11. Len(ss) = n /\ \A i \in 1..n : ss[i] = Kept(s, i) BY <1>0
  <2>12. ss \in Seq(Seq(Msg))
    <3>1. ss = [i \in 1..n |-> ss[i]] BY <1>0
    <3> HIDE DEF ss
    <3>2. ASSUME NEW i \in 1..n PROVE ss[i] \in Seq(Msg)
      <4>0. <<final>> \in Seq(Msg) /\ <<>> \in Seq(Msg) /\ <<s[i]>> \in Seq(Msg) BY <2>3, <1>0
      <4>1. CASE i = n BY <4>0, <4>1, <2>8, <2>11
      <4>2. CASE i # n BY <4>0, <4>2, <2>8, <2>11
      <4> QED BY <4>1, <4>2
    <3>3. ss \in [1..n -> Seq(Msg)] BY <3>1, <3>2
    <3> QED BY <3>3, <1>0
  <2> HIDE DEF ss
  <2>13. t \in Seq(Msg) BY <2>5, <2>6
  <2>14. FlattenSeq(ss) = t BY <2>9, <2>10, <2>11, <2>12, <2>13, Singles
  <2>15. Resembles(t, s)
    <3>1. ASSUME NEW p \in 1..Len(t)
          PROVE  /\ t[p].req = s[p].req /\ t[p].role = s[p].role
                 /\ t[p].from = s[p].from /\ t[p].body = s[p].body
      <4>1. CASE p = n
        <5>1. text BY <4>1, <2>6, <1>0
        <5> QED BY <5>1, <4>1, <2>5, <2>3, <2>2
      <4>2. CASE p # n
        <5>1. p \in 1 .. n - 1 BY <4>2, <2>9, <2>n
        <5> QED BY <5>1, <2>9
      <4> QED BY <4>1, <4>2
    <3> QED BY <3>1, <2>9, <1>0 DEF Resembles
  <2> QED BY <2>7, <2>13, <2>14, <2>15 DEF Settled, ss
<1> QED BY <1>1, <1>2

\* The size of a sequence, one message after the other.
Sums(s, g) ==
  g \in [0..Len(s) -> Nat] /\ g[0] = 0 /\ \A n \in 1..Len(s) : g[n] = g[n - 1] + Weight(s[n])

\* Size is a sum.
LEMMA SizeSums ==
  ASSUME NEW s \in Seq(Msg)
  PROVE  \E g : Sums(s, g) /\ Size(s) = g[Len(s)]
<1> DEFINE N == Len(s)
           step == [p \in (1..N) \X Nat |-> p[2] + Weight(s[p[1]])]
<1>0. N \in Nat /\ N = Len(s) /\ \A n \in 1..N : Weight(s[n]) \in Nat BY DEF Weight
<1>1. step \in [(1..N) \X Nat -> Nat] BY <1>0
<1>2. \A n \in 1..N, x \in Nat : step[<<n, x>>] = x + Weight(s[n]) BY <1>0
<1> HIDE DEF step, N
<1>3. PICK g : Unfolds(Nat, N, 0, step, g) BY <1>0, <1>1, Recursion
<1>4. g \in [0..N -> Nat] /\ g[0] = 0 BY <1>3 DEF Unfolds
<1>5. ASSUME NEW n \in 1..N PROVE g[n] = g[n - 1] + Weight(s[n]) /\ g[n - 1] \in Nat
  <2>1. n - 1 \in 0..N /\ g[n - 1] \in Nat BY <1>0, <1>4
  <2>2. g[n] = step[<<n, g[n - 1]>>] BY <1>3 DEF Unfolds
  <2> QED BY <1>2, <2>1, <2>2
<1> DEFINE G(x) == [n \in 0..Len(s) |-> IF n = 0 THEN 0 ELSE x[n - 1] + Weight(s[n])]
           sum == CHOOSE x : x = G(x)
<1>6. g = G(g)
  <2>1. ASSUME NEW n \in 0..N PROVE g[n] = IF n = 0 THEN 0 ELSE g[n - 1] + Weight(s[n])
    <3>1. CASE n = 0 BY <3>1, <1>4
    <3>2. CASE n # 0
      <4>1. n \in 1..N BY <3>2, <1>0
      <4> QED BY <4>1, <3>2, <1>5
    <3> QED BY <3>1, <3>2
  <2>2. g = [n \in 0..N |-> g[n]] BY <1>4
  <2>3. G(g) = [n \in 0..N |-> g[n]] BY <2>1, <1>0
  <2> QED BY <2>2, <2>3
<1>7. sum = G(sum)
  <2>1. \E x : x = G(x) BY <1>6
  <2> QED BY <2>1, Zenon
<1> HIDE DEF sum
<1>8. \A n \in 0..N : sum[n] = IF n = 0 THEN 0 ELSE sum[n - 1] + Weight(s[n]) BY <1>7, <1>0
<1>9. \A n \in 0..N : sum[n] = g[n]
  <2> DEFINE T == {n \in 0..N : sum[n] = g[n]}
  <2>1. 0 \in T BY <1>0, <1>4, <1>8
  <2>2. ASSUME NEW n \in 0 .. N - 1, n \in T PROVE n + 1 \in T
    <3>1. n + 1 \in 1..N /\ n + 1 \in 0..N /\ n + 1 # 0 /\ (n + 1) - 1 = n BY <1>0
    <3>2. sum[n + 1] = sum[n] + Weight(s[n + 1]) BY <3>1, <1>8
    <3>3. g[n + 1] = g[n] + Weight(s[n + 1]) BY <3>1, <1>5
    <3> QED BY <3>1, <3>2, <3>3, <2>2
  <2>3. \A n \in 0..N : n \in T
    <3> HIDE DEF T
    <3> QED BY <1>0, <2>1, <2>2, UpTo
  <2> QED BY <2>3
<1>10. Size(s) = sum[Len(s)] BY DEF Size, sum
<1>11. Sums(s, g) BY <1>0, <1>4, <1>5 DEF Sums
<1>12. Len(s) \in 0..N BY <1>0
<1> QED BY <1>9, <1>10, <1>11, <1>12

\* A message adds its weight.
LEMMA SizeIs ==
  ASSUME NEW s \in Seq(Msg)
  PROVE  Size(s) \in Nat /\ \A q \in Msg : Size(Append(s, q)) = Size(s) + Weight(q)
<1> DEFINE N == Len(s)
<1>0. N \in Nat /\ N = Len(s) OBVIOUS
<1>1. PICK g : Sums(s, g) /\ Size(s) = g[N] BY SizeSums
<1>2. g[N] \in Nat BY <1>0, <1>1 DEF Sums
<1>3. ASSUME NEW q \in Msg PROVE Size(Append(s, q)) = Size(s) + Weight(q)
  <2> DEFINE t == Append(s, q)
  <2>1. t \in Seq(Msg) /\ Len(t) = N + 1 /\ t[N + 1] = q /\ \A i \in 1..N : t[i] = s[i] OBVIOUS
  <2> HIDE DEF t, N
  <2>2. PICK h : Sums(t, h) /\ Size(t) = h[N + 1] BY <2>1, SizeSums
  <2>3. \A n \in 0..N : h[n] = g[n]
    <3> DEFINE T == {n \in 0..N : h[n] = g[n]}
    <3>1. 0 \in T BY <1>0, <1>1, <2>2 DEF Sums
    <3>2. ASSUME NEW n \in 0 .. N - 1, n \in T PROVE n + 1 \in T
      <4>1. n + 1 \in 1..N /\ n + 1 \in 0..N /\ (n + 1) - 1 = n /\ n + 1 \in 1 .. N + 1 BY <1>0
      <4>2. h[n + 1] = h[n] + Weight(t[n + 1]) BY <4>1, <2>1, <2>2 DEF Sums
      <4>3. g[n + 1] = g[n] + Weight(s[n + 1]) BY <4>1, <1>0, <1>1 DEF Sums
      <4> QED BY <4>1, <4>2, <4>3, <2>1, <3>2
    <3>3. \A n \in 0..N : n \in T
      <4> HIDE DEF T
      <4> QED BY <1>0, <3>1, <3>2, UpTo
    <3> QED BY <3>3
  <2>4. h[N + 1] = h[N] + Weight(t[N + 1])
    <3>1. N + 1 \in 1..Len(t) /\ (N + 1) - 1 = N BY <1>0, <2>1
    <3> QED BY <3>1, <2>2 DEF Sums
  <2>5. h[N] = g[N] BY <2>3, <1>0
  <2> QED BY <1>1, <2>1, <2>2, <2>4, <2>5 DEF t
<1> QED BY <1>1, <1>2, <1>3

LEMMA TextIs ==
  ASSUME NEW r \in Turns, NEW role \in {"user", "assistant", "tool"}, NEW origin \in {"row", "run"}
  PROVE  /\ Text(r, role, origin) \in Msg /\ Text(r, role, origin).calls = 0
         /\ Text(r, role, origin).req = r /\ Text(r, role, origin).role = role
         /\ Text(r, role, origin).from = origin /\ Text(r, role, origin).body = "text"
  BY DEF Text, Msg

\* Of rows of which those of one request are the last, the others are the first.
LEMMA OthersIs ==
  ASSUME NEW read \in Seq(Msg), NEW now, NEW n \in 0..Len(read),
         \A i \in 1..Len(read) : read[i].req = now <=> i > n
  PROVE  Others(read, now) = SubSeq(read, 1, n)
<1> DEFINE N == Len(read)
           s == SubSeq(read, 1, n)
           ss == [i \in DOMAIN read |-> IF read[i].req = now THEN <<>> ELSE <<read[i]>>]
<1>0. N \in Nat /\ n \in Nat /\ n <= N /\ N = Len(read) /\ DOMAIN read = 1..N
      /\ \A i \in 1..N : read[i] \in Msg
  OBVIOUS
<1> HIDE DEF N
<1>1. s \in Seq(Msg) /\ Len(s) = n /\ \A i \in 1..n : s[i] = read[i]
  BY <1>0, PieceIs
<1> HIDE DEF s
<1>2. Len(ss) = N /\ \A i \in 1..N : ss[i] = IF i <= n THEN <<s[i]>> ELSE <<>>
  <2>1. Len(ss) = N /\ \A i \in 1..N : ss[i] = IF read[i].req = now THEN <<>> ELSE <<read[i]>> BY <1>0
  <2>2. ASSUME NEW i \in 1..N PROVE ss[i] = IF i <= n THEN <<s[i]>> ELSE <<>>
    <3>1. CASE i > n
      <4>1. ~(i <= n) BY <3>1, <1>0
      <4> QED BY <4>1, <3>1, <2>1, <1>0
    <3>2. CASE ~(i > n)
      <4>1. i <= n /\ i \in 1..n BY <3>2, <1>0
      <4> QED BY <4>1, <3>2, <2>1, <1>0, <1>1
    <3> QED BY <3>1, <3>2
  <2> QED BY <2>1, <2>2
<1>3. ss \in Seq(Seq(Msg))
  <2>1. ss = [i \in 1..N |-> ss[i]] BY <1>0
  <2> HIDE DEF ss
  <2>2. ASSUME NEW i \in 1..N PROVE ss[i] \in Seq(Msg)
    <3>1. CASE i <= n
      <4>0. i \in 1..n BY <3>1, <1>0
      <4>1. s[i] \in Msg /\ ss[i] = <<s[i]>> BY <4>0, <3>1, <1>0, <1>1, <1>2
      <4> QED BY <4>1
    <3>2. CASE ~(i <= n)
      <4>1. ss[i] = <<>> BY <3>2, <1>2
      <4> QED BY <4>1
    <3> QED BY <3>1, <3>2
  <2>3. ss \in [1..N -> Seq(Msg)] BY <2>1, <2>2
  <2> QED BY <2>3, <1>0
<1> HIDE DEF ss
<1>4. Len(s) <= Len(ss) BY <1>0, <1>1, <1>2
<1>5. \A i \in 1..Len(ss) : ss[i] = IF i <= Len(s) THEN <<s[i]>> ELSE <<>> BY <1>1, <1>2
<1>6. FlattenSeq(ss) = s BY <1>1, <1>3, <1>4, <1>5, Singles
<1> QED BY <1>6 DEF Others, ss, s

\* The rows that are read follow each other, are not expired, and are of earlier
\* requests.
SeenAt(seen, d, now) ==
  /\ seen \in Seq(Msg) /\ d >= expired /\ d + Len(seen) <= Len(stored)
  /\ \A i \in 1..Len(seen) : seen[i] = stored[d + i] /\ seen[i].req < now

\* n rows are of requests before now, the others of now.
Before(n, now) ==
  /\ n \in 0..Len(stored)
  /\ \A i \in 1..Len(stored) : (stored[i].req = now <=> i > n) /\ (i <= n => stored[i].req < now)

\* Visible is such a part of the rows.
LEMMA RowsVisible ==
  ASSUME stored \in Seq(Msg), expired \in 0..Len(stored), NEW now, NEW n, Before(n, now)
  PROVE  \E d \in Nat : /\ SeenAt(Visible(now), d, now)
                        /\ Visible(now) = IF d >= n THEN <<>> ELSE SubSeq(stored, d + 1, n)
                        /\ d = IF n - expired > RowLimit THEN n - RowLimit ELSE expired
<1> DEFINE N == Len(stored)
           read == SubSeq(stored, expired + 1, N)
           all == Others(read, now)
           seen == Visible(now)
           d == IF n - expired > RowLimit THEN n - RowLimit ELSE expired
<1>0. N \in Nat /\ N = Len(stored) /\ n \in 0..N /\ expired \in 0..N /\ RowLimit \in Nat \ {0}
  BY ContextWindowAssumption DEF Before
<1>1. seen = SubSeq(all, IF Len(all) > RowLimit THEN Len(all) - RowLimit + 1 ELSE 1, Len(all))
  BY DEF Visible
<1> HIDE DEF N, seen
<1>2. read \in Seq(Msg) /\ Len(read) = N - expired /\ \A i \in 1 .. N - expired : read[i] = stored[expired + i]
  <2>1. expired + 1 \in Nat \ {0} /\ N \in Nat /\ N <= Len(stored) /\ expired + 1 <= N + 1
        /\ (N - (expired + 1)) + 1 = N - expired
        /\ \A i \in 1 .. N - expired : ((expired + 1) + i) - 1 = expired + i
    BY <1>0
  <2> QED BY <2>1, PieceIs
<1> HIDE DEF read
<1> DEFINE m == IF n <= expired THEN 0 ELSE n - expired
<1>3. m \in 0..Len(read) /\ \A i \in 1..Len(read) : read[i].req = now <=> i > m
  <2>1. m \in 0..Len(read) BY <1>0, <1>2
  <2>2. ASSUME NEW i \in 1..Len(read) PROVE read[i].req = now <=> i > m
    <3>1. expired + i \in 1..N /\ read[i] = stored[expired + i] BY <1>0, <1>2
    <3>2. (expired + i > n) <=> (i > m) BY <1>0, <1>2
    <3> HIDE DEF m
    <3> QED BY <1>0, <3>1, <3>2 DEF Before
  <2> QED BY <2>1, <2>2
<1>m. m \in Nat /\ m <= N - expired BY <1>0
<1>4. all = SubSeq(read, 1, m)
  <2> HIDE DEF m
  <2> QED BY <1>2, <1>3, OthersIs
<1>5. all \in Seq(Msg) /\ Len(all) = m /\ \A i \in 1..m : all[i] = stored[expired + i]
  <2> HIDE DEF m, all
  <2>1. m <= Len(read) /\ 1 <= m + 1 /\ (m - 1) + 1 = m /\ \A i \in 1..m : (1 + i) - 1 = i
    BY <1>m, <1>0, <1>2
  <2>2. all \in Seq(Msg) /\ Len(all) = m /\ \A i \in 1..m : all[i] = read[i]
    BY <2>1, <1>m, <1>2, <1>4, PieceIs
  <2>3. \A i \in 1..m : i \in 1 .. N - expired BY <1>m, <1>0
  <2> QED BY <2>2, <2>3, <1>2
<1> HIDE DEF all
<1>6. d \in Nat /\ d >= expired BY <1>0
<1>7. CASE d >= n
  <2>1. m = 0 BY <1>7, <1>0
  <2>2. all = <<>> BY <2>1, <1>5
  <2>3. seen = <<>> BY <2>1, <2>2, <1>0, <1>1, <1>5
  <2>4. SeenAt(seen, d, now)
    <3>1. d <= N BY <1>0
    <3> HIDE DEF d, m
    <3>2. seen \in Seq(Msg) /\ Len(seen) = 0 BY <2>3
    <3> QED BY <3>1, <3>2, <1>6, <1>0 DEF SeenAt
  <2> QED BY <2>3, <2>4, <1>6, <1>7 DEF seen
<1>8. CASE d < n
  <2> DEFINE e == d - expired
  <2>1. m = n - expired /\ e \in Nat /\ e < m /\ d = expired + e BY <1>8, <1>0
  <2>2. (IF m > RowLimit THEN m - RowLimit + 1 ELSE 1) = e + 1 BY <1>8, <1>0
  <2>3. seen = SubSeq(all, e + 1, m)
    <3> HIDE DEF d, e, m
    <3> QED BY <2>2, <1>1, <1>5
  <2> HIDE DEF d, e, m
  <2>4. seen \in Seq(Msg) /\ Len(seen) = m - e /\ \A i \in 1 .. m - e : seen[i] = all[e + i]
    <3>1. e + 1 \in Nat \ {0} /\ m <= Len(all) /\ e + 1 <= m + 1 /\ (m - (e + 1)) + 1 = m - e
          /\ \A i \in 1 .. m - e : ((e + 1) + i) - 1 = e + i
      BY <2>1, <1>m, <1>5, SMTT(30)
    <3> QED BY <3>1, <1>m, <1>5, <2>3, PieceIs
  <2>5. \A i \in 1 .. m - e : e + i \in 1..m /\ expired + (e + i) = d + i BY <2>1, <1>m, <1>0
  <2>6. \A i \in 1 .. m - e : seen[i] = stored[d + i] BY <2>4, <2>5, <1>5
  <2>7. \A i \in 1 .. m - e : d + i \in 1..n /\ d + i \in 1..N BY <2>1, <1>m, <1>0, <1>6
  <2>8. \A i \in 1 .. m - e : seen[i].req < now BY <2>6, <2>7, <1>0 DEF Before
  <2>9. d + (m - e) = n /\ n <= N BY <2>1, <1>m, <1>0, <1>6
  <2>10. SeenAt(seen, d, now) BY <2>4, <2>6, <2>8, <2>9, <1>6, <1>0 DEF SeenAt
  <2>11. seen = SubSeq(stored, d + 1, n)
    <3> DEFINE t == SubSeq(stored, d + 1, n)
    <3>1. d + 1 \in Nat \ {0} /\ n \in Nat /\ n <= Len(stored) /\ d + 1 <= n + 1 /\ (n - (d + 1)) + 1 = m - e
          /\ \A i \in 1 .. m - e : ((d + 1) + i) - 1 = d + i
      BY <2>1, <2>9, <1>m, <1>0, <1>6, <1>8
    <3>2. t \in Seq(Msg) /\ Len(t) = m - e /\ \A i \in 1 .. m - e : t[i] = stored[d + i]
      BY <3>1, PieceIs
    <3> HIDE DEF t
    <3>3. t = seen BY <3>2, <2>4, <2>6
    <3> QED BY <3>3 DEF t
  <2>12. ~(d >= n) BY <1>0, <1>6, <1>8
  <2> QED BY <2>10, <2>11, <2>12, <1>6 DEF seen, d
<1>9. d >= n \/ d < n BY <1>0, <1>6
<1> QED BY <1>7, <1>8, <1>9

\* What history_from_rows makes of a row: the row, the settled transcript of its
\* request, or nothing when that stands at an earlier row.
Block(b, seen, i) ==
  /\ b \in Seq(Msg) /\ Grouped(b)
  /\ \A p \in 1..Len(b) :
       /\ b[p].req = seen[i].req /\ b[p].body # "cleared"
       /\ p > 1 => b[p].role # "user"
  /\ Native(seen, seen[i].req) =>
       /\ \A p \in 1..Len(b) : b[p].from = "run"
       /\ (\E j \in 1 .. i - 1 : seen[j].req = seen[i].req) => b = <<>>
  /\ ~Native(seen, seen[i].req) => b = <<seen[i]>> /\ seen[i].from = "row"

\* FromRow does that.
LEMMA BlockIs ==
  ASSUME RowsHold, RunsHold, NEW d \in Nat, NEW now, NEW seen, SeenAt(seen, d, now), NEW i \in 1..Len(seen)
  PROVE  Block(FromRow(seen, i), seen, i)
<1> DEFINE m == seen[i]
           r == m.req
<1>1. m \in Msg /\ r \in Turns BY Messages DEF SeenAt
<1>2. m = stored[d + i] /\ d + i \in 1..Len(stored)
  <2>1. Len(stored) \in Nat /\ Len(seen) \in Nat /\ d + Len(seen) <= Len(stored) BY DEF SeenAt, RowsHold
  <2>2. d + i \in 1..Len(stored) BY <2>1
  <2> QED BY <2>2 DEF SeenAt
<1>3. m.from = "row" /\ m.calls = 0 /\ m.role # "tool" /\ m.body # "cleared" BY <1>2 DEF RowsHold
<1>4. run[r] \in Seq(Msg) /\ Transcript(run[r], r) BY <1>1 DEF RunsHold, Transcript
<1> HIDE DEF m, r
<1>5. CASE ~Native(seen, r)
  <2> DEFINE b == <<m>>
  <2>1. FromRow(seen, i) = b BY <1>5 DEF FromRow, m, r
  <2>2. b \in Seq(Msg) /\ Len(b) = 1 /\ \A p \in 1..Len(b) : b[p] = m /\ ~(p > 1) BY <1>1
  <2> HIDE DEF b
  <2>3. Grouped(b) BY <2>2, <1>3 DEF Grouped
  <2>4. \A p \in 1..Len(b) : b[p].req = seen[i].req /\ b[p].body # "cleared" /\ (p > 1 => b[p].role # "user")
    BY <2>2, <1>3 DEF m
  <2>5. b = <<seen[i]>> /\ seen[i].from = "row" /\ ~Native(seen, seen[i].req) BY <1>3, <1>5 DEF b, m, r
  <2>6. Block(b, seen, i) BY <2>2, <2>3, <2>4, <2>5 DEF Block
  <2> QED BY <2>1, <2>6
<1>6. CASE Native(seen, r) /\ \E j \in 1 .. i - 1 : seen[j].req = r
  <2> DEFINE b == <<>>
  <2>1. FromRow(seen, i) = b BY <1>6 DEF FromRow, m, r
  <2>2. b \in Seq(Msg) /\ Len(b) = 0 OBVIOUS
  <2>a. b = <<>> OBVIOUS
  <2> HIDE DEF b
  <2>3. Grouped(b) BY <2>2 DEF Grouped
  <2>4. Native(seen, seen[i].req) BY <1>6 DEF m, r
  <2>5. Block(b, seen, i) BY <2>2, <2>3, <2>4, <2>a DEF Block
  <2> QED BY <2>1, <2>5
<1>7. CASE Native(seen, r) /\ ~\E j \in 1 .. i - 1 : seen[j].req = r
  <2> DEFINE b == Settled(run[r])
  <2>1. FromRow(seen, i) = b BY <1>7 DEF FromRow, m, r
  <2>2. b \in Seq(Msg) /\ Grouped(b) /\ Resembles(b, run[r]) BY <1>4, SettledIs DEF Transcript
  <2> HIDE DEF b
  <2>3. ASSUME NEW p \in 1..Len(b)
        PROVE  /\ b[p].req = r /\ b[p].body # "cleared" /\ b[p].from = "run" /\ (p > 1 => b[p].role # "user")
    <3>1. p \in 1..Len(run[r])
      <4>1. Len(b) \in Nat /\ Len(run[r]) \in Nat /\ Len(b) <= Len(run[r]) BY <2>2, <1>4 DEF Resembles
      <4> QED BY <4>1
    <3>2. /\ b[p].req = run[r][p].req /\ b[p].role = run[r][p].role
          /\ b[p].from = run[r][p].from /\ b[p].body = run[r][p].body
      BY <2>2 DEF Resembles
    <3> QED BY <3>1, <3>2, <1>4 DEF Transcript
  <2>4. Native(seen, seen[i].req) /\ seen[i].req = r /\ ~\E j \in 1 .. i - 1 : seen[j].req = seen[i].req
    BY <1>7 DEF m, r
  <2>5. Block(b, seen, i) BY <2>2, <2>3, <2>4 DEF Block
  <2> QED BY <2>1, <2>5
<1> QED BY <1>5, <1>6, <1>7

\* Requests in order and in one form each; what is past its retention is no more
\* than the other half of what is displayed.
Ordered(s) ==
  /\ \A i, j \in 1..Len(s) : i < j =>
       s[i].req < s[j].req \/ (s[i].req = s[j].req /\ s[j].role # "user")
  /\ \A i, j \in 1..Len(s) : s[i].req = s[j].req => s[i].from = s[j].from
PastHolds(s, now) ==
  /\ s \in Seq(Msg) /\ Grouped(s) /\ Ordered(s)
  /\ \A i \in 1..Len(s) :
       /\ s[i].req < now /\ s[i].body # "cleared"
       /\ \A j \in 1..expired : s[i].req = stored[j].req =>
            s[i].from = "row" /\ stored[j].role # s[i].role

\* Past joins the blocks of the rows that are read.
LEMMA PastIs ==
  ASSUME RowsHold, RunsHold, NEW d \in Nat, NEW now, SeenAt(Visible(now), d, now)
  PROVE  PastHolds(Past(now), now)
<1> DEFINE seen == Visible(now)
           n == Len(seen)
           ss == [i \in DOMAIN seen |-> FromRow(seen, i)]
           s == FlattenSeq(ss)
<1>1. seen \in Seq(Msg) /\ n \in Nat /\ d >= expired /\ d + n <= Len(stored)
      /\ \A i \in 1..n : seen[i] = stored[d + i] /\ seen[i].req < now
  BY DEF SeenAt
<1>s. Past(now) = s BY DEF Past
<1>t. SeenAt(seen, d, now) OBVIOUS
<1> HIDE DEF seen
<1>0. Len(stored) \in Nat /\ expired \in 0..Len(stored) BY DEF RowsHold
<1>2. \A i \in 1..n : d + i \in 1..Len(stored) /\ d + i > expired
  <2>1. expired \in Nat BY <1>0
  <2> HIDE DEF n
  <2> QED BY <1>0, <1>1, <2>1
<1>3. Len(ss) = n /\ DOMAIN seen = 1..n /\ \A i \in 1..n : ss[i] = FromRow(seen, i) BY <1>1
<1> HIDE DEF n
<1>4. \A i \in 1..n : Block(ss[i], seen, i)
  <2>1. ASSUME NEW i \in 1..n PROVE Block(FromRow(seen, i), seen, i)
    BY <1>t, BlockIs DEF n
  <2> QED BY <2>1, <1>3
<1>5. ss \in Seq(Seq(Msg))
  <2>1. ss = [i \in 1..n |-> ss[i]] BY <1>3
  <2> HIDE DEF ss
  <2>2. \A i \in 1..n : ss[i] \in Seq(Msg) BY <1>4 DEF Block
  <2>3. ss \in [1..n -> Seq(Msg)] BY <2>1, <2>2
  <2> QED BY <2>3, <1>1
<1> HIDE DEF ss
<1>6. s \in Seq(Msg) /\ Grouped(s)
  <2>1. \A i \in 1..Len(ss) : Grouped(ss[i]) BY <1>3, <1>4 DEF Block
  <2> QED BY <2>1, <1>5, GroupedFlat
<1>7. PICK at : StartsAt(ss, at) BY <1>5, StartsExist
<1>8. Joins(ss, at, s, n) BY <1>3, <1>5, <1>7, Flattened
<1> HIDE DEF s
\* Every message is one of a block.
<1> DEFINE In(p, i, k) == i \in 1..n /\ k \in 1..Len(ss[i]) /\ p = at[i] + k /\ s[p] = ss[i][k]
<1>9. ASSUME NEW p \in 1..Len(s) PROVE \E i, k : In(p, i, k)
  <2>1. n \in 0..Len(ss) /\ p \in 1..at[n + 1] BY <1>1, <1>3, <1>8 DEF Joins
  <2>2. Place(ss, at, n, p) BY <2>1, <1>5, <1>7, PlaceOf
  <2>3. PICK i \in 1..n : \E k \in 1..Len(ss[i]) : p = at[i] + k BY <2>2 DEF Place
  <2>4. PICK k \in 1..Len(ss[i]) : p = at[i] + k BY <2>3
  <2>5. s[at[i] + k] = ss[i][k] BY <1>8 DEF Joins
  <2> QED BY <2>4, <2>5
<1>10. \A i \in 1 .. n + 1 : at[i] \in Nat BY <1>3, <1>7 DEF StartsAt
<1>11. ASSUME NEW p, NEW i, NEW k, In(p, i, k), NEW q, NEW j, NEW l, In(q, j, l), p < q
       PROVE  i < j \/ (i = j /\ k < l)
  <2>1. ss[i] \in Seq(Msg) /\ ss[j] \in Seq(Msg) BY <1>3, <1>5, <1>11
  <2>2. at[i] \in Nat /\ at[j] \in Nat /\ Len(ss[j]) \in Nat /\ k \in Nat /\ l \in Nat /\ i \in Nat /\ j \in Nat
        /\ k >= 1 /\ l <= Len(ss[j])
    BY <2>1, <1>1, <1>10, <1>11
  <2>3. CASE j < i
    <3>1. j \in 1..Len(ss) /\ j + 1 \in 1 .. Len(ss) + 1 /\ i \in (j + 1) .. Len(ss) + 1 BY <2>3, <2>2, <1>1, <1>3, <1>11
    <3>2. at[j + 1] = at[j] + Len(ss[j]) BY <3>1, <1>7 DEF StartsAt
    <3>3. at[j + 1] <= at[i] BY <3>1, <1>5, <1>7, StartsRise
    <3>4. q <= at[i] /\ p > at[i] BY <2>2, <3>2, <3>3, <1>11, SMTT(30)
    <3>5. p \in Nat /\ q \in Nat BY <2>2, <1>11, SMTT(30)
    <3> QED BY <3>4, <3>5, <2>2, <1>11
  <2>4. CASE i = j BY <2>4, <2>2, <1>11
  <2> QED BY <2>2, <2>3, <2>4
<1>12. ASSUME NEW p, NEW i, NEW k, In(p, i, k)
       PROVE  s[p].req = seen[i].req /\ s[p].body # "cleared" /\ (k > 1 => s[p].role # "user")
  BY <1>4, <1>12 DEF Block
<1>13. ASSUME NEW p, NEW i, NEW k, In(p, i, k), ~Native(seen, seen[i].req)
       PROVE  s[p] = stored[d + i] /\ s[p].from = "row"
  <2>1. ss[i] = <<seen[i]>> /\ seen[i].from = "row" BY <1>4, <1>13 DEF Block
  <2>2. Len(<<seen[i]>>) = 1 /\ <<seen[i]>>[1] = seen[i] OBVIOUS
  <2>3. k = 1 BY <2>1, <2>2, <1>13
  <2> QED BY <2>1, <2>2, <2>3, <1>1, <1>13
<1>14. ASSUME NEW p, NEW i, NEW k, In(p, i, k), Native(seen, seen[i].req)
       PROVE  s[p].from = "run" /\ ~\E j \in 1 .. i - 1 : seen[j].req = seen[i].req
  <2>1. ss[i][k].from = "run" BY <1>4, <1>14 DEF Block
  <2>2. ss[i] # <<>>
    <3>1. Len(<<>>) = 0 OBVIOUS
    <3> QED BY <3>1, <1>14
  <2>3. ~\E j \in 1 .. i - 1 : seen[j].req = seen[i].req BY <2>2, <1>4, <1>14 DEF Block
  <2> QED BY <2>1, <2>3, <1>14
<1> HIDE DEF In
<1>i. ASSUME NEW p, NEW i, NEW k, In(p, i, k) PROVE i \in 1..n BY <1>i DEF In
<1>15. ASSUME NEW p \in 1..Len(s), NEW q \in 1..Len(s), p < q
       PROVE  s[p].req < s[q].req \/ (s[p].req = s[q].req /\ s[q].role # "user")
  <2>1. PICK i, k : In(p, i, k) BY <1>9
  <2>2. PICK j, l : In(q, j, l) BY <1>9
  <2>3. s[p].req = seen[i].req /\ s[q].req = seen[j].req BY <2>1, <2>2, <1>12
  <2>4. i \in 1..n /\ j \in 1..n /\ seen[i] = stored[d + i] /\ seen[j] = stored[d + j] BY <2>1, <2>2, <1>1, <1>i
  <2>5. CASE i < j
    <3>1. d + i \in 1..Len(stored) /\ d + j \in 1..Len(stored) /\ d + i < d + j BY <2>4, <2>5, <1>1, <1>2
    <3>2. \/ seen[i].req < seen[j].req
          \/ seen[i].req = seen[j].req /\ seen[j].role = "assistant"
      BY <3>1, <2>4 DEF RowsHold
    <3>3. CASE seen[i].req = seen[j].req /\ seen[j].role = "assistant"
      <4>1. i \in 1 .. j - 1 BY <2>4, <2>5, <1>1
      <4>2. ~Native(seen, seen[j].req) BY <4>1, <3>3, <2>2, <1>14
      <4>3. s[q] = stored[d + j] BY <4>2, <2>2, <1>13
      <4> QED BY <4>3, <3>3, <2>3, <2>4
    <3> QED BY <3>2, <3>3, <2>3
  <2>6. CASE i = j
    <3>1. k < l BY <2>1, <2>2, <2>6, <1>11, <1>15, <2>4, <1>1
    <3>2. l > 1
      <4>1. k \in Nat /\ k >= 1 /\ l \in Nat BY <2>1, <2>2 DEF In
      <4> QED BY <3>1, <4>1
    <3> QED BY <3>2, <2>2, <2>3, <2>6, <1>12
  <2> QED BY <2>1, <2>2, <2>5, <2>6, <1>11, <1>15
<1>16. ASSUME NEW p \in 1..Len(s), NEW q \in 1..Len(s), s[p].req = s[q].req PROVE s[p].from = s[q].from
  <2>1. PICK i, k : In(p, i, k) BY <1>9
  <2>2. PICK j, l : In(q, j, l) BY <1>9
  <2>3. seen[i].req = seen[j].req BY <2>1, <2>2, <1>12, <1>16
  <2> QED BY <2>1, <2>2, <2>3, <1>13, <1>14
<1>17. ASSUME NEW p \in 1..Len(s)
       PROVE  /\ s[p].req < now /\ s[p].body # "cleared"
              /\ \A j \in 1..expired : s[p].req = stored[j].req =>
                   s[p].from = "row" /\ stored[j].role # s[p].role
  <2>1. PICK i, k : In(p, i, k) BY <1>9
  <2>2. s[p].req = seen[i].req /\ s[p].body # "cleared" /\ i \in 1..n BY <2>1, <1>12, <1>i
  <2>3. ASSUME NEW j \in 1..expired, s[p].req = stored[j].req
        PROVE  s[p].from = "row" /\ stored[j].role # s[p].role
    <3>1. ~Native(seen, seen[i].req) BY <2>2, <2>3 DEF Native
    <3>2. s[p] = stored[d + i] /\ s[p].from = "row" BY <3>1, <2>1, <1>13
    <3>3. j \in 1..Len(stored) /\ j < d + i /\ d + i \in 1..Len(stored) BY <2>2, <1>0, <1>1, <1>2
    <3>4. \/ stored[j].req < stored[d + i].req
          \/ stored[j].role = "user" /\ stored[d + i].role = "assistant"
      BY <3>3 DEF RowsHold
    <3>5. ~(stored[j].req < stored[d + i].req)
      <4>1. stored[j].req = stored[d + i].req BY <3>2, <2>3
      <4>2. stored[d + i].req \in Nat BY <3>3, Messages DEF RowsHold, Turns
      <4> QED BY <4>1, <4>2
    <3> QED BY <3>2, <3>4, <3>5
  <2> QED BY <2>2, <2>3, <1>1
<1>18. Ordered(s) BY <1>15, <1>16 DEF Ordered
<1>19. PastHolds(s, now) BY <1>6, <1>17, <1>18 DEF PastHolds
<1> QED BY <1>19, <1>s

\* The end of a past is one.
LEMMA PastCut ==
  ASSUME expired \in Nat, NEW now, NEW s, PastHolds(s, now), NEW k \in 1 .. Len(s) + 1,
         k <= Len(s) => (k = 1 \/ s[k].role # "tool")
  PROVE  PastHolds(SubSeq(s, k, Len(s)), now)
<1> DEFINE n == Len(s)
           u == SubSeq(s, k, n)
<1>1. s \in Seq(Msg) /\ Grouped(s) /\ Ordered(s) /\ n \in Nat /\ n = Len(s) BY DEF PastHolds
<1>2. Grouped(u) BY <1>1, GroupedCut
<1> HIDE DEF n
<1>3. u \in Seq(Msg) /\ Len(u) = (n - k) + 1
      /\ \A i \in 1 .. (n - k) + 1 : u[i] = s[(k + i) - 1] /\ (k + i) - 1 \in k..n
  <2>1. k \in Nat \ {0} /\ n \in Nat /\ n <= Len(s) /\ k <= n + 1 BY <1>1
  <2> QED BY <2>1, <1>1, PieceIs
<1> HIDE DEF u
<1>4. \A i \in 1..Len(u) : u[i] = s[(k + i) - 1] /\ (k + i) - 1 \in 1..n BY <1>1, <1>3
<1>5. \A i, j \in 1..Len(u) : i < j => (k + i) - 1 < (k + j) - 1 BY <1>1, <1>3
<1>6. Ordered(u)
  <2>1. ASSUME NEW i \in 1..Len(u), NEW j \in 1..Len(u), i < j
        PROVE  u[i].req < u[j].req \/ (u[i].req = u[j].req /\ u[j].role # "user")
    <3> DEFINE a == (k + i) - 1
               b == (k + j) - 1
    <3>1. a \in 1..Len(s) /\ b \in 1..Len(s) /\ u[i] = s[a] /\ u[j] = s[b] BY <1>1, <1>4
    <3>2. a < b BY <2>1, <1>5
    <3> HIDE DEF a, b
    <3> QED BY <3>1, <3>2, <1>1 DEF Ordered
  <2>2. ASSUME NEW i \in 1..Len(u), NEW j \in 1..Len(u), u[i].req = u[j].req PROVE u[i].from = u[j].from
    <3> DEFINE a == (k + i) - 1
               b == (k + j) - 1
    <3>1. a \in 1..Len(s) /\ b \in 1..Len(s) /\ u[i] = s[a] /\ u[j] = s[b] BY <1>1, <1>4
    <3> HIDE DEF a, b
    <3>2. s[a].req = s[b].req BY <2>2, <3>1
    <3>3. s[a].from = s[b].from BY <3>1, <3>2, <1>1 DEF Ordered
    <3> QED BY <3>1, <3>3
  <2> QED BY <2>1, <2>2 DEF Ordered
<1>7. ASSUME NEW i \in 1..Len(u)
      PROVE  /\ u[i].req < now /\ u[i].body # "cleared"
             /\ \A j \in 1..expired : u[i].req = stored[j].req =>
                  u[i].from = "row" /\ stored[j].role # u[i].role
  BY <1>1, <1>4 DEF PastHolds
<1>8. PastHolds(u, now) BY <1>2, <1>3, <1>6, <1>7 DEF PastHolds
<1> QED BY <1>8 DEF u, n

\* The window is an end of the session that starts with a question.
LEMMA WindowIs ==
  ASSUME expired \in Nat, Now \in Turns, PastHolds(Past(Now), Now)
  PROVE  PastHolds(Window(Now), Now) /\ WholeTurns(Window(Now))
<1> DEFINE all == Past(Now)
           n == Len(all)
           q == Text(Now, "user", "run")
           s == Append(all, q)
           starts == {i \in DOMAIN s : s[i].role = "user"}
           before == starts \ {Len(s)}
           fitting == {i \in before : Size(SubSeq(s, i, Len(s))) <= Budget}
           start == IF before = {} THEN 1 ELSE Min(fitting \cup {Max(before)})
           asked == {k \in DOMAIN all : all[k].role = "user"}
           end(k) == SubSeq(all, k, Len(all))
<1>0. all \in Seq(Msg) /\ n \in Nat /\ n = Len(all) /\ DOMAIN all = 1..n BY DEF PastHolds
<1>1. q \in Msg /\ q.role = "user" /\ Weight(q) = 1 BY TextIs DEF Weight
<1>2. Settled(all) = all BY <1>0, SettledAgain DEF PastHolds
<1>3. Window(Now) = SubSeq(s, start, Len(s) - 1) BY <1>2 DEF Window
<1>p. PastHolds(all, Now) OBVIOUS
<1>w. \A h : WholeTurns(h) <=>
         \/ asked = {} /\ h = all
         \/ \E k \in asked : /\ h = end(k) /\ (k # Max(asked) => Size(h) < Budget)
                             /\ \A j \in asked : j < k => Size(end(j)) >= Budget
  BY DEF WholeTurns
<1> HIDE DEF all, n, q
<1>4. Len(s) = n + 1 /\ DOMAIN s = 1 .. n + 1 /\ s[n + 1] = q /\ \A i \in 1..n : s[i] = all[i] BY <1>0, <1>1
<1>5. before = asked
  <2> HIDE DEF s
  <2>1. \A i : i \in before <=> i \in 1..n /\ all[i].role = "user" BY <1>0, <1>4
  <2>2. \A i : i \in asked <=> i \in 1..n /\ all[i].role = "user" BY <1>0
  <2> QED BY <2>1, <2>2
<1>6. asked \subseteq 1..n BY <1>0
<1>7. ASSUME NEW i \in 1..n
      PROVE  /\ SubSeq(s, i, Len(s)) = Append(end(i), q) /\ end(i) \in Seq(Msg)
             /\ Size(end(i)) \in Nat /\ Size(SubSeq(s, i, Len(s))) = Size(end(i)) + 1
  <2>1. i \in Nat \ {0} /\ i <= Len(all) + 1 /\ n \in Nat /\ n <= Len(all) /\ i <= n + 1 BY <1>0
  <2>2. SubSeq(s, i, Len(all) + 1) = Append(end(i), q) BY <2>1, <1>0, <1>1, PieceOfAppended
  <2>3. end(i) \in Seq(Msg) BY <2>1, <1>0, PieceIs
  <2>4. Len(s) = Len(all) + 1 BY <1>0, <1>4
  <2> HIDE DEF s
  <2>5. Size(end(i)) \in Nat /\ Size(Append(end(i), q)) = Size(end(i)) + 1 BY <2>3, <1>1, SizeIs
  <2> QED BY <2>2, <2>3, <2>4, <2>5
<1>8. ASSUME NEW i \in 1 .. n + 1 PROVE SubSeq(s, i, Len(s) - 1) = end(i)
  <2>1. i \in Nat \ {0} /\ i <= Len(all) + 1 /\ Len(s) - 1 = Len(all) BY <1>0, <1>4
  <2> HIDE DEF s
  <2>2. SubSeq(s, i, Len(all)) = end(i) BY <2>1, <1>0, <1>1, PieceOfAppended DEF s
  <2> QED BY <2>1, <2>2
<1>9. CASE asked = {}
  <2>1. start = 1 BY <1>5, <1>9
  <2>2. 1 \in 1 .. n + 1 BY <1>0
  <2>3. Window(Now) = end(1) BY <2>1, <2>2, <1>3, <1>8
  <2>4. end(1) = all BY <1>0, WholePiece
  <2>5. WholeTurns(Window(Now)) BY <2>3, <2>4, <1>w, <1>9
  <2> QED BY <2>3, <2>4, <2>5, <1>p
<1>10. CASE asked # {}
  <2> HIDE DEF asked
  <2>0. Max(asked) \in asked
    <3>1. asked \subseteq 0..n BY <1>6, <1>0
    <3> QED BY <3>1, <1>0, <1>10, MaxIs
  <2> DEFINE some == fitting \cup {Max(asked)}
  <2>f. \A i : i \in fitting <=> i \in asked /\ Size(SubSeq(s, i, Len(s))) <= Budget BY <1>5
  <2>1. some \subseteq asked /\ some # {} BY <2>0, <2>f
  <2>n. \A i \in asked : i \in Nat /\ i \in 1..n /\ i \in 1 .. n + 1 BY <1>6, <1>0
  <2>2. some \subseteq Nat
    <3> HIDE DEF some
    <3> QED BY <2>1, <2>n
  <2>s. start = Min(some) BY <1>5, <1>10
  <2> HIDE DEF fitting, start
  <2>3. start \in some /\ \A y \in some : start <= y
    <3> HIDE DEF some
    <3> QED BY <2>1, <2>2, <2>s, MinIs
  <2>4. start \in asked /\ start \in 1..n /\ start \in 1 .. n + 1
    <3> HIDE DEF some
    <3> QED BY <2>1, <2>3, <2>n
  <2>5. Window(Now) = end(start) BY <2>4, <1>3, <1>8
  <2>6. start # Max(asked) => Size(end(start)) < Budget
    <3>1. ASSUME start # Max(asked) PROVE Size(end(start)) < Budget
      <4>1. start \in fitting BY <3>1, <2>3
      <4>2. Size(SubSeq(s, start, Len(s))) <= Budget BY <4>1, <2>f
      <4>3. Size(end(start)) + 1 <= Budget /\ Size(end(start)) \in Nat BY <4>2, <2>4, <1>7
      <4> QED BY <4>3, ContextWindowAssumption
    <3> QED BY <3>1
  <2>7. ASSUME NEW j \in asked, j < start PROVE Size(end(j)) >= Budget
    <3>1. j \in 1..n BY <1>6
    <3>2. j \notin some BY <3>1, <2>3, <2>4, <2>7
    <3>3. ~(Size(SubSeq(s, j, Len(s))) <= Budget) BY <3>2, <2>f
    <3>4. ~(Size(end(j)) + 1 <= Budget) /\ Size(end(j)) \in Nat BY <3>1, <3>3, <1>7
    <3> QED BY <3>4, ContextWindowAssumption
  <2>8. WholeTurns(Window(Now)) BY <2>4, <2>5, <2>6, <2>7, <1>w
  <2>9. PastHolds(end(start), Now)
    <3>1. all[start].role = "user" BY <2>4 DEF asked
    <3>2. start \in 1 .. Len(all) + 1 BY <2>4, <1>0
    <3> QED BY <3>1, <3>2, <1>p, PastCut
  <2> QED BY <2>5, <2>8, <2>9
<1> QED BY <1>9, <1>10

\* compact_tool_history changes bodies, and only before the newest calls.
Clears(s, t) ==
  /\ Len(t) = Len(s) /\ t \in Seq(Msg)
  /\ \A i \in 1..Len(s) :
       /\ t[i].req = s[i].req /\ t[i].role = s[i].role /\ t[i].from = s[i].from
       /\ t[i].calls = s[i].calls /\ t[i].answers = s[i].answers
       /\ t[i].body # "cleared" => t[i] = s[i]
       /\ t[i].body = "cleared" => /\ Size(s) > Target
                                   /\ \E j \in i + 1 .. Len(s) : s[j].calls > 0

\* Compacted does that.
LEMMA CompactedIs ==
  ASSUME NEW s \in Seq(Msg), \A i \in 1..Len(s) : s[i].body # "cleared"
  PROVE  Clears(s, Compacted(s))
<1> DEFINE n == Len(s)
           called == {i \in DOMAIN s : s[i].calls > 0} \cup {0}
           newest == Max(called)
           old == {i \in 1 .. newest - 1 : s[i].body = "bulky"}
           Cleared(i) == Size(s) - 2 * Cardinality({j \in old : j < i}) > Target
           t == Compacted(s)
<1>0. n \in Nat /\ n = Len(s) /\ DOMAIN s = 1..n /\ \A i \in 1..n : s[i] \in Msg OBVIOUS
<1>1. newest \in called /\ newest \in 0..n
  <2>1. called \subseteq 0..n /\ called # {} BY <1>0
  <2> HIDE DEF called
  <2> QED BY <2>1, <1>0, MaxIs
<1>2. t = [i \in DOMAIN s |-> IF i \in old /\ Cleared(i) THEN [s[i] EXCEPT !.body = "cleared"] ELSE s[i]]
  BY DEF Compacted
<1> HIDE DEF t, n, newest
<1>3. ASSUME NEW i, Cleared(i) PROVE Size(s) > Target
  <2> DEFINE some == {j \in old : j < i}
  <2>1. IsFiniteSet(1..n)
    <3>1. 1 \in Int /\ n \in Int BY <1>0
    <3> QED BY <3>1, FS_Interval
  <2>2. some \subseteq 1..n BY <1>0, <1>1
  <2>3. IsFiniteSet(some) BY <2>1, <2>2, FS_Subset
  <2>4. Cardinality(some) \in Nat BY <2>3, FS_CardinalityType
  <2>5. Size(s) \in Nat /\ Target \in Nat BY SizeIs, ContextWindowAssumption
  <2>6. Size(s) - 2 * Cardinality(some) > Target BY <1>3
  <2> HIDE DEF some
  <2> QED BY <2>4, <2>5, <2>6
<1>4. \A i \in old : i \in 1..n /\ \E j \in i + 1 .. n : s[j].calls > 0
  <2>1. ASSUME NEW i \in old PROVE i \in 1..n /\ \E j \in i + 1 .. n : s[j].calls > 0
    <3>1. i \in 1 .. newest - 1 OBVIOUS
    <3>2. newest # 0 /\ newest \in i + 1 .. n /\ i \in 1..n BY <3>1, <1>0, <1>1
    <3>3. s[newest].calls > 0 BY <3>2, <1>1
    <3> QED BY <3>2, <3>3
  <2> QED BY <2>1
<1> DEFINE hit(i) == i \in old /\ Cleared(i)
<1>h. \A i : hit(i) => Size(s) > Target /\ \E j \in i + 1 .. n : s[j].calls > 0 BY <1>3, <1>4
<1>5. DOMAIN t = 1..n /\ \A i \in 1..n : t[i] = IF hit(i) THEN [s[i] EXCEPT !.body = "cleared"] ELSE s[i]
  BY <1>0, <1>2
<1> HIDE DEF hit, old
<1>6. ASSUME NEW i \in 1..n
      PROVE /\ t[i] \in Msg
            /\ t[i].req = s[i].req /\ t[i].role = s[i].role /\ t[i].from = s[i].from
            /\ t[i].calls = s[i].calls /\ t[i].answers = s[i].answers
            /\ t[i].body # "cleared" => t[i] = s[i]
            /\ t[i].body = "cleared" => hit(i)
  <2>1. s[i] \in Msg /\ s[i].body # "cleared" BY <1>0
  <2>2. CASE hit(i)
    <3> DEFINE m == [s[i] EXCEPT !.body = "cleared"]
    <3>1. /\ m \in Msg /\ m.req = s[i].req /\ m.role = s[i].role /\ m.from = s[i].from
          /\ m.calls = s[i].calls /\ m.answers = s[i].answers /\ m.body = "cleared"
      BY <2>1 DEF Msg
    <3>2. t[i] = m BY <2>2, <1>5
    <3> HIDE DEF m
    <3> QED BY <3>1, <3>2, <2>2
  <2>3. CASE ~hit(i)
    <3>1. t[i] = s[i] BY <2>3, <1>5
    <3> QED BY <3>1, <2>1
  <2> QED BY <2>2, <2>3
<1>7. t \in Seq(Msg) /\ Len(t) = n
  <2>1. t = [i \in 1..n |-> t[i]] BY <1>2, <1>0
  <2>2. t \in [1..n -> Msg] BY <2>1, <1>6
  <2> QED BY <2>2, <1>0
<1>8. Clears(s, t) BY <1>0, <1>6, <1>7, <1>h DEF Clears
<1> QED BY <1>8 DEF t

\* The last row has the greatest request.
LEMMA NowIs ==
  ASSUME RowsHold
  PROVE  /\ Now \in 0..MaxTurns /\ Now \in Nat
         /\ stored # <<>> => /\ Now \in Turns /\ Last(stored) = stored[Len(stored)]
                             /\ Len(stored) \in 1..Len(stored) /\ Now = stored[Len(stored)].req
         /\ \A i \in 1..Len(stored) : stored[i].req \in Turns /\ stored[i].req <= Now
         /\ Before(Len(stored), Now + 1)
         /\ stored # <<>> /\ Last(stored).role = "user" => Before(Len(stored) - 1, Now)
<1> DEFINE n == Len(stored)
<1>0. n \in Nat /\ n = Len(stored) /\ MaxTurns \in Nat /\ \A i \in 1..n : stored[i].req \in Turns
  BY Messages, ContextWindowAssumption DEF RowsHold
<1>1. CASE stored = <<>>
  <2>1. n = 0 /\ Now = 0 BY <1>1 DEF Now
  <2> QED BY <1>0, <1>1, <2>1 DEF Before
<1>2. CASE stored # <<>>
  <2>0. n > 0 BY <1>2, <1>0 DEF RowsHold
  <2>1. Last(stored) = stored[n] /\ Now = stored[n].req BY <1>2 DEF Last, Now
  <2>2. n \in 1..n /\ Now \in Turns BY <1>0, <2>0, <2>1
  <2>3. Now \in 0..MaxTurns /\ Now \in Nat BY <1>0, <2>2 DEF Turns
  <2> HIDE DEF n
  <2>4. ASSUME NEW i \in 1..n, i < n
        PROVE  \/ stored[i].req < Now
               \/ stored[i].req = Now /\ stored[n].role = "assistant"
    BY <2>1, <2>2, <2>4, <1>0 DEF RowsHold
  <2>5. ASSUME NEW i \in 1..n PROVE stored[i].req <= Now /\ stored[i].req \in Nat /\ stored[i].req \in Turns
    <3>1. stored[i].req \in Nat /\ stored[i].req \in Turns BY <1>0 DEF Turns
    <3>2. CASE i = n BY <3>1, <3>2, <2>1
    <3>3. CASE i # n
      <4>1. i < n BY <3>3, <1>0
      <4> QED BY <4>1, <3>1, <2>3, <2>4
    <3> QED BY <3>1, <3>2, <3>3
  <2>6. Before(n, Now + 1)
    <3>1. ASSUME NEW i \in 1..n PROVE stored[i].req # Now + 1 /\ ~(i > n) /\ stored[i].req < Now + 1
      BY <2>3, <2>5, <1>0
    <3> QED BY <3>1, <1>0 DEF Before
  <2>7. ASSUME Last(stored).role = "user" PROVE Before(n - 1, Now)
    <3>1. ASSUME NEW i \in 1..n PROVE (stored[i].req = Now <=> i > n - 1) /\ (i <= n - 1 => stored[i].req < Now)
      <4>1. CASE i = n
        <5>1. i > n - 1 /\ ~(i <= n - 1) BY <4>1, <1>0
        <5> QED BY <5>1, <4>1, <2>1
      <4>2. CASE i # n
        <5>1. i < n /\ ~(i > n - 1) BY <4>2, <1>0
        <5>2. stored[n].role = "user" BY <2>1, <2>7
        <5>3. stored[i].req < Now BY <5>1, <5>2, <2>4
        <5>4. stored[i].req # Now BY <5>3, <2>3, <2>5
        <5> QED BY <5>1, <5>3, <5>4
      <4> QED BY <4>1, <4>2
    <3>2. n - 1 \in 0..n BY <1>0, <2>0
    <3> QED BY <3>1, <3>2, <1>0 DEF Before
  <2> QED BY <1>0, <2>1, <2>2, <2>3, <2>5, <2>6, <2>7
<1> QED BY <1>1, <1>2

\* What the model is shown, before old results are cleared.
LEMMA TogetherIs ==
  ASSUME expired \in Nat, Now \in Turns, NEW h, PastHolds(h, Now), NEW t, Transcript(t, Now), Grouped(t)
  PROVE  /\ h \o t \in Seq(Msg) /\ Grouped(h \o t) /\ Ordered(h \o t)
         /\ \A i \in 1..Len(h \o t) :
              /\ (h \o t)[i].body # "cleared"
              /\ \A j \in 1..expired : (h \o t)[i].req = stored[j].req /\ (h \o t)[i].req # Now =>
                   (h \o t)[i].from = "row" /\ stored[j].role # (h \o t)[i].role
<1> DEFINE n == Len(h)
           u == h \o t
<1>0. h \in Seq(Msg) /\ t \in Seq(Msg) /\ n \in Nat /\ n = Len(h) /\ Len(t) \in Nat
  BY DEF PastHolds, Transcript
<1>1. u \in Seq(Msg) /\ Len(u) = n + Len(t) /\ \A i \in 1..n : u[i] = h[i] BY <1>0
<1>2. \A i \in 1..Len(t) : u[n + i] = t[i] BY <1>0
<1>3. Grouped(u) BY <1>0, GroupedJoins DEF PastHolds, Transcript
<1> HIDE DEF n, u
<1>4. \A i \in 1..Len(u) : i \in 1..n \/ (i - n \in 1..Len(t) /\ i = n + (i - n)) BY <1>0, <1>1
<1>5. \A i \in 1..n : u[i] = h[i] /\ u[i].req < Now /\ u[i].body # "cleared" BY <1>0, <1>1 DEF PastHolds
<1>6. ASSUME NEW i \in 1..Len(u), i \notin 1..n
      PROVE  /\ u[i].req = Now /\ u[i].from = "run" /\ u[i].body # "cleared"
             /\ (i > n + 1 => u[i].role # "user") /\ i >= n + 1
  <2>1. i - n \in 1..Len(t) /\ i = n + (i - n) BY <1>4, <1>6
  <2>2. u[i] = t[i - n] BY <2>1, <1>2
  <2>3. i > n + 1 => i - n > 1 BY <2>1, <1>0
  <2>4. i >= n + 1 BY <2>1, <1>0
  <2> DEFINE k == i - n
  <2> HIDE DEF k
  <2>5. k \in 1..Len(t) /\ u[i] = t[k] /\ (i > n + 1 => k > 1) BY <2>1, <2>2, <2>3 DEF k
  <2> QED BY <2>4, <2>5 DEF Transcript
<1>7. Now \in Nat /\ \A i \in 1..Len(u) : u[i].req \in Nat
  <2>1. \A i \in 1..Len(u) : u[i].req \in Turns BY <1>1, Messages
  <2> QED BY <2>1 DEF Turns
<1>8. ASSUME NEW i \in 1..Len(u), NEW j \in 1..Len(u), i < j
      PROVE  u[i].req < u[j].req \/ (u[i].req = u[j].req /\ u[j].role # "user")
  <2>1. CASE i \in 1..n /\ j \in 1..n BY <2>1, <1>0, <1>5, <1>8 DEF PastHolds, Ordered
  <2>2. CASE i \in 1..n /\ j \notin 1..n BY <2>2, <1>5, <1>6
  <2>3. CASE i \notin 1..n
    <3>1. i >= n + 1 /\ u[i].req = Now BY <2>3, <1>6
    <3>2. j \notin 1..n /\ j > n + 1 BY <3>1, <1>0, <1>8
    <3> QED BY <3>1, <3>2, <1>6
  <2> QED BY <2>1, <2>2, <2>3
<1>9. ASSUME NEW i \in 1..Len(u), NEW j \in 1..Len(u), u[i].req = u[j].req PROVE u[i].from = u[j].from
  <2>1. CASE i \in 1..n /\ j \in 1..n BY <2>1, <1>0, <1>5, <1>9 DEF PastHolds, Ordered
  <2>2. CASE i \in 1..n /\ j \notin 1..n
    <3>1. u[i].req < Now /\ u[j].req = Now BY <2>2, <1>5, <1>6
    <3> QED BY <3>1, <1>7, <1>9
  <2>3. CASE i \notin 1..n /\ j \in 1..n
    <3>1. u[j].req < Now /\ u[i].req = Now BY <2>3, <1>5, <1>6
    <3> QED BY <3>1, <1>7, <1>9
  <2>4. CASE i \notin 1..n /\ j \notin 1..n BY <2>4, <1>6
  <2> QED BY <2>1, <2>2, <2>3, <2>4
<1>10. ASSUME NEW i \in 1..Len(u), NEW j \in 1..expired, u[i].req = stored[j].req, u[i].req # Now
       PROVE  u[i].from = "row" /\ stored[j].role # u[i].role
  <2>1. i \in 1..n BY <1>6, <1>10
  <2> QED BY <2>1, <1>0, <1>5, <1>10 DEF PastHolds
<1>11. Ordered(u) BY <1>8, <1>9 DEF Ordered
<1>12. \A i \in 1..Len(u) : u[i].body # "cleared" BY <1>5, <1>6
<1>13. /\ u \in Seq(Msg) /\ Grouped(u) /\ Ordered(u)
       /\ \A i \in 1..Len(u) :
            /\ u[i].body # "cleared"
            /\ \A j \in 1..expired : u[i].req = stored[j].req /\ u[i].req # Now =>
                 u[i].from = "row" /\ stored[j].role # u[i].role
  BY <1>1, <1>3, <1>10, <1>11, <1>12
<1> QED BY <1>13 DEF u

\* What the rows and the transcripts make of a turn.
LEMMA HistoryIs ==
  ASSUME WindowInv, phase # "idle"
  PROVE  PastHolds(history, Now) /\ WholeTurns(history) /\ Now \in Turns
<1>1. Now \in Turns /\ Before(Len(stored) - 1, Now) /\ history = Window(Now)
  BY NowIs DEF WindowInv, TurnHolds
<1>2. stored \in Seq(Msg) /\ expired \in 0..Len(stored) /\ expired \in Nat BY DEF WindowInv, RowsHold
<1>3. PICK d \in Nat : SeenAt(Visible(Now), d, Now) BY <1>1, <1>2, RowsVisible
<1>4. PastHolds(Past(Now), Now) BY <1>3, PastIs DEF WindowInv
<1> QED BY <1>1, <1>2, <1>4, WindowIs

\* What is shown to the model in such a state.
LEMMA WindowInvContext ==
  ASSUME WindowInv
  PROVE  ContextIsWhole
<1> SUFFICES ASSUME phase = "asking" PROVE ContextIsWhole BY DEF ContextIsWhole
<1> DEFINE s == history \o run[Now]
           shown == Compacted(s)
           called == {i \in DOMAIN shown : shown[i].calls > 0} \cup {0}
           newest == Max(called)
<1>1. PastHolds(history, Now) /\ WholeTurns(history) /\ Now \in Turns BY HistoryIs
<1>2. Transcript(run[Now], Now) /\ run[Now] \in Seq(Msg) /\ expired \in Nat
  BY <1>1 DEF WindowInv, RunsHold, RowsHold, Transcript
<1>3. Grouped(run[Now])
  <2> DEFINE t == run[Now]
             n == Len(t)
  <2>1. n \in Nat /\ t # <<>> /\ t[n].calls = 0 /\ t \in Seq(Msg) BY <1>2 DEF WindowInv, TurnHolds, Last
  <2>2. \A i \in 1..n : t[i].calls > 0 => i # n BY <2>1
  <2> QED BY <2>2, <1>2 DEF Transcript, Nearly, Grouped
<1>4. /\ s \in Seq(Msg) /\ Grouped(s) /\ Ordered(s)
      /\ \A i \in 1..Len(s) :
           /\ s[i].body # "cleared"
           /\ \A j \in 1..expired : s[i].req = stored[j].req /\ s[i].req # Now =>
                s[i].from = "row" /\ stored[j].role # s[i].role
  BY <1>1, <1>2, <1>3, TogetherIs
<1>5. Clears(s, shown) BY <1>4, CompactedIs
<1>w. ContextIsWhole <=>
        /\ Paired(shown) /\ Lawful(shown) /\ WholeTurns(history)
        /\ \A i \in newest + 1 .. Len(shown) : shown[i].body # "cleared"
        /\ (\E i \in DOMAIN shown : shown[i].body = "cleared") => Size(s) > Target
  BY DEF ContextIsWhole
<1> HIDE DEF s, shown
<1>6. shown \in Seq(Msg) /\ Len(shown) = Len(s) /\ Len(s) \in Nat /\ DOMAIN shown = 1..Len(s)
      /\ \A i \in 1..Len(s) :
           /\ shown[i].req = s[i].req /\ shown[i].role = s[i].role /\ shown[i].from = s[i].from
           /\ shown[i].calls = s[i].calls /\ shown[i].answers = s[i].answers
  BY <1>4, <1>5 DEF Clears
<1>7. Paired(shown)
  <2>1. ASSUME NEW i \in 1..Len(s), shown[i].calls > 0
        PROVE  /\ i + shown[i].calls <= Len(shown)
               /\ \A k \in 1 .. shown[i].calls : shown[i + k].answers = k /\ shown[i + k].req = shown[i].req
    <3> DEFINE c == s[i].calls
    <3>1. Followed(s, i) /\ shown[i].calls = c BY <2>1, <1>4, <1>6 DEF Grouped
    <3>2. i + c <= Len(s) /\ c \in Nat BY <3>1, <1>4, Messages DEF Followed
    <3>3. \A k \in 1..c : s[i + k].answers = k /\ s[i + k].req = s[i].req BY <3>1 DEF Followed
    <3> HIDE DEF c
    <3>4. \A k \in 1..c : i + k \in 1..Len(s) BY <3>2, <1>6
    <3> QED BY <3>1, <3>2, <3>3, <3>4, <1>6
  <2>2. ASSUME NEW j \in 1..Len(s), shown[j].role = "tool" PROVE \E i \in 1 .. j - 1 : shown[i].calls >= j - i
    <3>1. PICK i \in 1 .. j - 1 : s[i].calls >= j - i BY <2>2, <1>4, <1>6 DEF Grouped
    <3>2. i \in 1..Len(s) BY <1>6
    <3> QED BY <3>1, <3>2, <1>6
  <2> QED BY <2>1, <2>2, <1>6 DEF Paired
<1>8. Lawful(shown)
  <2>1. ASSUME NEW i \in 1..Len(s), NEW j \in 1..Len(s), i < j
        PROVE  shown[i].req < shown[j].req \/ (shown[i].req = shown[j].req /\ shown[j].role # "user")
    BY <2>1, <1>4, <1>6 DEF Ordered
  <2>2. ASSUME NEW i \in 1..Len(s), NEW j \in 1..Len(s), shown[i].req = shown[j].req
        PROVE  shown[i].from = shown[j].from
    BY <2>2, <1>4, <1>6 DEF Ordered
  <2>3. ASSUME NEW i \in 1..Len(s), NEW j \in 1..expired,
               shown[i].req = stored[j].req, shown[i].req # Now
        PROVE  shown[i].from = "row" /\ stored[j].role # shown[i].role
    BY <2>3, <1>4, <1>6
  <2> QED BY <2>1, <2>2, <2>3, <1>6 DEF Lawful
<1>9. \A i \in newest + 1 .. Len(shown) : shown[i].body # "cleared"
  <2>1. called \subseteq 0..Len(s) /\ called # {} BY <1>6
  <2>2. newest \in called /\ \A y \in called : newest >= y
    <3> HIDE DEF called
    <3> QED BY <2>1, <1>6, MaxIs
  <2>c. newest \in Nat BY <2>1, <2>2
  <2> HIDE DEF newest
  <2>3. ASSUME NEW i \in newest + 1 .. Len(shown), shown[i].body = "cleared" PROVE FALSE
    <3>1. i \in 1..Len(s) /\ i > newest BY <2>c, <1>6
    <3>2. PICK j \in i + 1 .. Len(s) : s[j].calls > 0 BY <3>1, <2>3, <1>5 DEF Clears
    <3>3. j \in 1..Len(s) /\ j > newest BY <3>1, <2>c, <1>6
    <3>4. j \in called BY <3>2, <3>3, <1>6
    <3> QED BY <3>3, <3>4, <2>2, <2>c
  <2> QED BY <2>3
<1>10. (\E i \in DOMAIN shown : shown[i].body = "cleared") => Size(s) > Target
  BY <1>5, <1>6 DEF Clears
<1> QED BY <1>1, <1>7, <1>8, <1>9, <1>10, <1>w

\* What the session showed stays while only the transcript of the request grows.
LEMMA WindowKept ==
  ASSUME NEW now, NEW seen, NEW d \in Nat, SeenAt(seen, d, now), seen = Visible(now), seen = Visible(now)',
         now \in Nat, expired' = expired, \A r \in Turns : r # now => run'[r] = run[r],
         \A i \in 1..expired : stored'[i] = stored[i]
  PROVE  Window(now)' = Window(now)
<1>1. seen \in Seq(Msg) /\ DOMAIN seen = 1..Len(seen) /\ \A i \in 1..Len(seen) : seen[i].req < now
  BY DEF SeenAt
<1>2. \A i \in DOMAIN seen : FromRow(seen, i)' = FromRow(seen, i)
  <2>1. ASSUME NEW i \in 1..Len(seen) PROVE FromRow(seen, i)' = FromRow(seen, i)
    <3> DEFINE r == seen[i].req
    <3>1. r \in Turns /\ r < now BY <1>1, Messages
    <3>2. r # now BY <3>1 DEF Turns
    <3>3. run'[r] = run[r] BY <3>1, <3>2
    <3>4. Native(seen, r)' = Native(seen, r) BY <3>3 DEF Native
    <3> QED BY <3>3, <3>4 DEF FromRow
  <2> QED BY <2>1, <1>1
<1>3. Past(now) = FlattenSeq([i \in DOMAIN seen |-> FromRow(seen, i)]) BY DEF Past
<1>4. Past(now)' = FlattenSeq([i \in DOMAIN seen |-> FromRow(seen, i)']) BY DEF Past
<1>5. [i \in DOMAIN seen |-> FromRow(seen, i)'] = [i \in DOMAIN seen |-> FromRow(seen, i)] BY <1>2
<1>6. Past(now)' = Past(now) BY <1>3, <1>4, <1>5
<1> QED BY <1>6 DEF Window

\* A row is added behind those of its request or of earlier ones.
LEMMA RowAdded ==
  ASSUME RowsHold, NEW m \in Msg, stored' = Append(stored, m), expired' = expired,
         m.from = "row", m.calls = 0, m.role # "tool", m.body # "cleared",
         \A i \in 1..Len(stored) :
           stored[i].req < m.req \/ (stored[i].req = m.req /\ stored[i].role = "user" /\ m.role = "assistant")
  PROVE  RowsHold' /\ Len(stored') = Len(stored) + 1 /\ Now' = m.req /\ stored' # <<>> /\ Last(stored') = m
<1> DEFINE n == Len(stored)
           t == Append(stored, m)
<1>0. stored \in Seq(Msg) /\ n \in Nat /\ n = Len(stored) /\ expired \in 0..n BY DEF RowsHold
<1>1. t \in Seq(Msg) /\ Len(t) = n + 1 /\ t[n + 1] = m /\ \A i \in 1..n : t[i] = stored[i] BY <1>0
<1> HIDE DEF n, t
<1>2. stored' = t BY DEF t
<1>3. \A i \in 1..Len(t) : i \in 1..n \/ i = n + 1 BY <1>0, <1>1
<1>4. \A i \in 1..Len(t) : t[i].from = "row" /\ t[i].calls = 0 /\ t[i].role # "tool" /\ t[i].body # "cleared"
  BY <1>0, <1>1, <1>3 DEF RowsHold
<1>5. ASSUME NEW i \in 1..Len(t), NEW j \in 1..Len(t), i < j
      PROVE  \/ t[i].req < t[j].req
             \/ t[i].req = t[j].req /\ t[i].role = "user" /\ t[j].role = "assistant"
  <2>1. i \in 1..n BY <1>0, <1>1, <1>5
  <2>2. CASE j \in 1..n BY <2>1, <2>2, <1>0, <1>1, <1>5 DEF RowsHold
  <2>3. CASE j = n + 1 BY <2>1, <2>3, <1>0, <1>1
  <2> QED BY <2>2, <2>3, <1>3
<1>6. expired' \in 0..Len(t) BY <1>0, <1>1
<1>7. RowsHold' BY <1>1, <1>2, <1>4, <1>5, <1>6 DEF RowsHold
<1>8. t # <<>>
  <2>1. Len(<<>>) = 0 OBVIOUS
  <2> QED BY <2>1, <1>0, <1>1
<1>9. Last(stored') = m
  <2>1. Last(t) = m BY <1>1 DEF Last
  <2> QED BY <2>1, <1>2
<1>10. Now' = m.req BY <1>2, <1>8, <1>9 DEF Now
<1> QED BY <1>1, <1>2, <1>7, <1>8, <1>9, <1>10 DEF n

\* A transcript grows by messages of its run.
LEMMA TranscriptGrows ==
  ASSUME NEW r, NEW s, Transcript(s, r), s # <<>>, NEW t \in Seq(Msg), Nearly(s \o t),
         \A i \in 1..Len(t) : t[i].req = r /\ t[i].from = "run" /\ t[i].body # "cleared" /\ t[i].role # "user"
  PROVE  Transcript(s \o t, r)
<1> DEFINE n == Len(s)
           u == s \o t
<1>0. s \in Seq(Msg) /\ n \in Nat /\ n = Len(s) /\ Len(t) \in Nat /\ n > 0 BY DEF Transcript
<1>1. u \in Seq(Msg) /\ Len(u) = n + Len(t) /\ \A i \in 1..n : u[i] = s[i] BY <1>0
<1>2. \A i \in 1..Len(t) : u[n + i] = t[i] BY <1>0
<1> HIDE DEF n, u
<1>3. ASSUME NEW i \in 1..Len(u)
      PROVE  u[i].req = r /\ u[i].from = "run" /\ u[i].body # "cleared" /\ (i > 1 => u[i].role # "user")
  <2>1. CASE i \in 1..n BY <2>1, <1>0, <1>1 DEF Transcript
  <2>2. CASE i \notin 1..n
    <3>1. i - n \in 1..Len(t) /\ i = n + (i - n) BY <2>2, <1>0, <1>1
    <3>2. u[i] = t[i - n] BY <3>1, <1>2
    <3> QED BY <3>1, <3>2
  <2> QED BY <2>1, <2>2
<1>4. Nearly(u) BY DEF u
<1>5. Transcript(u, r) BY <1>1, <1>3, <1>4 DEF Transcript
<1> QED BY <1>5 DEF u

\* The results of the calls at the end answer them.
LEMMA ResultsAnswer ==
  ASSUME NEW s \in Seq(Msg), Nearly(s), NEW c \in Nat, Len(s) > 0, s[Len(s)].calls = c, c > 0,
         NEW t \in Seq(Msg), Len(t) = c,
         \A k \in 1..c : t[k].role = "tool" /\ t[k].calls = 0 /\ t[k].answers = k /\ t[k].req = s[Len(s)].req
  PROVE  Grouped(s \o t)
<1> DEFINE n == Len(s)
           u == s \o t
<1>0. n \in Nat /\ n = Len(s) /\ n > 0 /\ n \in 1..n OBVIOUS
<1>1. u \in Seq(Msg) /\ Len(u) = n + c /\ \A i \in 1..n : u[i] = s[i] OBVIOUS
<1>2. \A i \in 1..c : u[n + i] = t[i] OBVIOUS
<1>3. \A i \in 1..n : s[i].calls \in Nat BY Messages
<1> HIDE DEF n, u
<1>4. \A i \in 1..Len(u) : i \in 1..n \/ (i - n \in 1..c /\ i = n + (i - n)) BY <1>0, <1>1
<1>5. ASSUME NEW i \in 1..Len(u), u[i].calls > 0 PROVE u[i].role = "assistant" /\ Followed(u, i)
  <2>1. i \in 1..n
    <3>1. SUFFICES ASSUME i \notin 1..n PROVE FALSE OBVIOUS
    <3>2. i - n \in 1..c /\ u[i] = t[i - n] BY <3>1, <1>2, <1>4
    <3> QED BY <3>2, <1>5
  <2>2. u[i] = s[i] /\ s[i].calls > 0 BY <2>1, <1>1, <1>5
  <2>3. s[i].role = "assistant" /\ (i = n \/ Followed(s, i)) BY <2>1, <2>2, <1>0 DEF Nearly
  <2>4. CASE i = n
    <3>1. \A k \in 1..c : u[i + k].role = "tool" /\ u[i + k].answers = k /\ u[i + k].req = s[i].req
      BY <2>4, <1>0, <1>2
    <3>2. u[i].calls = c BY <2>2, <2>4, <1>0
    <3> QED BY <2>2, <2>3, <2>4, <3>1, <3>2, <1>1 DEF Followed
  <2>5. CASE Followed(s, i)
    <3> DEFINE e == s[i].calls
    <3>1. e \in Nat /\ i + e <= n BY <2>1, <2>5, <1>0, <1>3 DEF Followed
    <3>2. \A k \in 1..e : s[i + k].role = "tool" /\ s[i + k].answers = k /\ s[i + k].req = s[i].req
      BY <2>5 DEF Followed
    <3>3. u[i].calls = e BY <2>2
    <3> HIDE DEF e
    <3>4. \A k \in 1..e : i + k \in 1..n BY <3>1, <2>1, <1>0
    <3>5. i + e <= Len(u) BY <3>1, <1>0, <1>1
    <3> QED BY <2>2, <2>3, <3>2, <3>3, <3>4, <3>5, <1>1 DEF Followed
  <2> QED BY <2>3, <2>4, <2>5
<1>6. ASSUME NEW j \in 1..Len(u), u[j].role = "tool" PROVE \E i \in 1 .. j - 1 : u[i].calls >= j - i
  <2>1. CASE j \in 1..n
    <3>1. PICK i \in 1 .. j - 1 : s[i].calls >= j - i BY <2>1, <1>0, <1>1, <1>6 DEF Nearly
    <3>2. i \in 1..n BY <2>1, <1>0
    <3> QED BY <3>1, <3>2, <1>1
  <2>2. CASE j - n \in 1..c /\ j = n + (j - n)
    <3>1. n \in 1 .. j - 1 /\ c >= j - n /\ u[n].calls = c BY <2>2, <1>0, <1>1
    <3> QED BY <3>1
  <2> QED BY <2>1, <2>2, <1>4
<1> QED BY <1>5, <1>6 DEF Grouped, u

LEMMA OneMessage ==
  ASSUME NEW m \in Msg, m.role # "tool", m.calls > 0 => m.role = "assistant"
  PROVE  <<m>> \in Seq(Msg) /\ Len(<<m>>) = 1 /\ <<m>>[1] = m /\ Nearly(<<m>>)
<1> DEFINE s == <<m>>
<1>1. s \in Seq(Msg) /\ Len(s) = 1 /\ s[1] = m /\ s = <<m>> OBVIOUS
<1> HIDE DEF s
<1>2. \A i \in 1..Len(s) : s[i] = m /\ i = Len(s) BY <1>1
<1>3. Nearly(s) BY <1>2 DEF Nearly
<1> QED BY <1>1, <1>3

LEMMA LastOf ==
  ASSUME NEW S, NEW s \in Seq(S), NEW t \in Seq(S), Len(t) > 0
  PROVE  s \o t # <<>> /\ Last(s \o t) = t[Len(t)]
<1>1. Len(s \o t) = Len(s) + Len(t) /\ Len(s) \in Nat /\ Len(t) \in Nat OBVIOUS
<1>2. Len(<<>>) = 0 OBVIOUS
<1>3. s \o t # <<>> BY <1>1, <1>2
<1>4. (s \o t)[Len(s) + Len(t)] = t[Len(t)] BY <1>1
<1> QED BY <1>1, <1>3, <1>4 DEF Last

\* A step of the turn that adds messages to its transcript.
LEMMA TurnGrows ==
  ASSUME WindowInv, phase # "idle", UNCHANGED <<stored, expired, history>>,
         NEW t \in Seq(Msg), Len(t) > 0, Extend(t), Nearly(run[Now] \o t),
         \A i \in 1..Len(t) : t[i].req = Now /\ t[i].from = "run" /\ t[i].body # "cleared" /\ t[i].role # "user",
         phase' \in {"asking", "acting", "answering"},
         phase' = "asking" => t[Len(t)].calls = 0, phase' = "acting" => t[Len(t)].calls > 0
  PROVE  WindowInv'
<1>1. PICK now : now = Now OBVIOUS
<1>2. now \in Turns /\ now \in Nat /\ Before(Len(stored) - 1, now) BY <1>1, NowIs DEF WindowInv, TurnHolds
<1>3. Now' = now BY <1>1 DEF Now
<1>4. run \in [Turns -> Seq(Msg)] /\ Transcript(run[now], now) /\ run[now] \in Seq(Msg) /\ run[now] # <<>>
  BY <1>1, <1>2 DEF WindowInv, RunsHold, TurnHolds
<1> DEFINE u == run[now] \o t
<1>5. run' = [run EXCEPT ![now] = u] BY <1>1 DEF Extend
<1>6. u \in Seq(Msg) /\ u # <<>> /\ Last(u) = t[Len(t)] BY <1>4, LastOf
<1>7. Transcript(u, now)
  <2>1. Nearly(run[now] \o t) BY <1>1
  <2>2. \A i \in 1..Len(t) : t[i].req = now /\ t[i].from = "run" /\ t[i].body # "cleared" /\ t[i].role # "user"
    BY <1>1
  <2> QED BY <1>4, <2>1, <2>2, TranscriptGrows
<1> HIDE DEF u
<1>8. run' \in [Turns -> Seq(Msg)] /\ run'[now] = u /\ \A r \in Turns : r # now => run'[r] = run[r]
  BY <1>2, <1>4, <1>5, <1>6
<1>9. RunsHold'
  <2>1. ASSUME NEW r \in Turns PROVE Transcript(run'[r], r)
    <3>1. CASE r = now BY <3>1, <1>7, <1>8
    <3>2. CASE r # now BY <3>2, <1>8 DEF RunsHold, WindowInv
    <3> QED BY <3>1, <3>2
  <2> QED BY <2>1, <1>8 DEF RunsHold
<1>10. RowsHold' BY DEF RowsHold, WindowInv
<1>11. Window(now)' = Window(now)
  <2>1. stored \in Seq(Msg) /\ expired \in 0..Len(stored) BY DEF WindowInv, RowsHold
  <2>2. PICK d \in Nat : SeenAt(Visible(now), d, now) BY <1>2, <2>1, RowsVisible
  <2>3. PICK seen : seen = Visible(now) OBVIOUS
  <2>4. seen = Visible(now)' BY <2>3 DEF Visible
  <2> QED BY <1>2, <1>8, <2>2, <2>3, <2>4, WindowKept
<1>12. history' = Window(Now)' BY <1>1, <1>3, <1>11 DEF WindowInv, TurnHolds
<1>13. run'[Now'] # <<>> /\ Last(run'[Now']) = t[Len(t)] BY <1>3, <1>6, <1>8
<1>14. TurnHolds' BY <1>12, <1>13 DEF TurnHolds, WindowInv
<1> QED BY <1>9, <1>10, <1>14 DEF WindowInv

\* A turn asks when all its calls are answered.
LEMMA AskingGrouped ==
  ASSUME WindowInv, phase = "asking"
  PROVE  Grouped(run[Now]) /\ Now \in Turns /\ run[Now] \in Seq(Msg)
<1> DEFINE t == run[Now]
           n == Len(t)
<1>0. Now \in Turns BY NowIs DEF WindowInv, TurnHolds
<1>1. t \in Seq(Msg) /\ Transcript(t, Now) BY <1>0 DEF WindowInv, RunsHold
<1>2. n \in Nat /\ t # <<>> /\ t[n].calls = 0 BY <1>1 DEF WindowInv, TurnHolds, Last
<1>3. \A i \in 1..n : t[i].calls > 0 => i # n BY <1>2
<1> QED BY <1>0, <1>1, <1>3 DEF Transcript, Nearly, Grouped

LEMMA CallsIs ==
  ASSUME NEW r \in Turns, NEW n \in 1..2, NEW body \in {"text", "none"}
  PROVE  /\ Calls(r, n, body) \in Msg /\ Calls(r, n, body).calls = n /\ Calls(r, n, body).req = r
         /\ Calls(r, n, body).from = "run" /\ Calls(r, n, body).body # "cleared"
         /\ Calls(r, n, body).role = "assistant"
<1> DEFINE a == Text(r, "assistant", "run")
           b == [a EXCEPT !.calls = n]
           c == [b EXCEPT !.body = body]
<1>1. a \in Msg /\ a.req = r /\ a.role = "assistant" /\ a.from = "run" BY TextIs
<1> HIDE DEF a
<1>2. b \in Msg /\ b.calls = n /\ b.req = r /\ b.role = "assistant" /\ b.from = "run" BY <1>1 DEF Msg
<1> HIDE DEF b
<1>3. c \in Msg /\ c.calls = n /\ c.req = r /\ c.role = "assistant" /\ c.from = "run" /\ c.body = body
  BY <1>2 DEF Msg
<1> HIDE DEF c
<1>4. Calls(r, n, body) = c BY DEF Calls, a, b, c
<1> QED BY <1>3, <1>4

\* The steps, one by one.
LEMMA CallToolsStep ==
  ASSUME WindowInv, CallTools
  PROVE  WindowInv'
<1>1. PICK n \in 1..2, body \in {"text", "none"} : Extend(<<Calls(Now, n, body)>>) BY DEF CallTools
<1> DEFINE m == Calls(Now, n, body)
           t == <<m>>
<1>2. phase = "asking" /\ phase' = "acting" /\ UNCHANGED <<stored, expired, history>> BY DEF CallTools
<1>3. Grouped(run[Now]) /\ Now \in Turns /\ run[Now] \in Seq(Msg) BY <1>2, AskingGrouped
<1>4. m \in Msg /\ m.calls = n /\ m.req = Now /\ m.from = "run" /\ m.body # "cleared" /\ m.role = "assistant"
  BY <1>3, CallsIs
<1> HIDE DEF m
<1>5. t \in Seq(Msg) /\ Len(t) = 1 /\ t[1] = m /\ Nearly(t) BY <1>4, OneMessage
<1> HIDE DEF t
<1>6. Nearly(run[Now] \o t) BY <1>3, <1>5, GroupedJoins
<1>7. Extend(t) BY <1>1 DEF m, t
<1>8. Len(t) > 0 /\ t[Len(t)].calls > 0 BY <1>4, <1>5
<1>9. \A i \in 1..Len(t) : t[i].req = Now /\ t[i].from = "run" /\ t[i].body # "cleared" /\ t[i].role # "user"
  BY <1>4, <1>5
<1>10. phase' # "asking" /\ phase # "idle" /\ phase' \in {"asking", "acting", "answering"} BY <1>2
<1> QED BY <1>2, <1>5, <1>6, <1>7, <1>8, <1>9, <1>10, TurnGrows

LEMMA ReplyTextStep ==
  ASSUME WindowInv, ReplyText
  PROVE  WindowInv'
<1> DEFINE m == Text(Now, "assistant", "run")
           t == <<m>>
<1>1. Extend(t) BY DEF ReplyText
<1>2. phase = "asking" /\ phase' = "answering" /\ UNCHANGED <<stored, expired, history>> BY DEF ReplyText
<1>3. Grouped(run[Now]) /\ Now \in Turns /\ run[Now] \in Seq(Msg) BY <1>2, AskingGrouped
<1>4. m \in Msg /\ m.calls = 0 /\ m.req = Now /\ m.from = "run" /\ m.body # "cleared" /\ m.role = "assistant"
  BY <1>3 DEF Text, Msg
<1> HIDE DEF m
<1>5. t \in Seq(Msg) /\ Len(t) = 1 /\ t[1] = m /\ Nearly(t) BY <1>4, OneMessage
<1> HIDE DEF t
<1>6. Nearly(run[Now] \o t) BY <1>3, <1>5, GroupedJoins
<1> QED BY <1>1, <1>2, <1>4, <1>5, <1>6, TurnGrows, SMTT(30)

LEMMA ResultIs ==
  ASSUME NEW r \in Turns, NEW k \in 1..2, NEW body \in {"bulky", "plain", "card"}
  PROVE  /\ Result(r, k, body) \in Msg /\ Result(r, k, body).role = "tool" /\ Result(r, k, body).calls = 0
         /\ Result(r, k, body).answers = k /\ Result(r, k, body).req = r
         /\ Result(r, k, body).from = "run" /\ Result(r, k, body).body = body
<1> DEFINE a == Text(r, "tool", "run")
           b == [a EXCEPT !.answers = k]
           c == [b EXCEPT !.body = body]
<1>1. a \in Msg /\ a.req = r /\ a.role = "tool" /\ a.from = "run" /\ a.calls = 0 BY TextIs
<1> HIDE DEF a
<1>2. b \in Msg /\ b.answers = k /\ b.req = r /\ b.role = "tool" /\ b.from = "run" /\ b.calls = 0
  BY <1>1 DEF Msg
<1> HIDE DEF b
<1>3. c \in Msg /\ c.answers = k /\ c.req = r /\ c.role = "tool" /\ c.from = "run" /\ c.calls = 0
      /\ c.body = body
  BY <1>2 DEF Msg
<1> HIDE DEF c
<1>4. Result(r, k, body) = c BY DEF Result, a, b, c
<1> QED BY <1>3, <1>4

LEMMA TakeResultsStep ==
  ASSUME WindowInv, TakeResults
  PROVE  WindowInv'
<1> DEFINE s == run[Now]
           c == Last(s).calls
<1>0. phase = "acting" /\ UNCHANGED <<stored, expired, history>> BY DEF TakeResults
<1>1. Now \in Turns /\ s # <<>> /\ c > 0 BY <1>0, NowIs DEF WindowInv, TurnHolds
<1>2. s \in Seq(Msg) /\ Transcript(s, Now) BY <1>1 DEF WindowInv, RunsHold
<1>3. Len(s) \in 1..Len(s) /\ Last(s) = s[Len(s)] /\ Len(s) > 0 BY <1>1, <1>2 DEF Last
<1>4. c \in 1..2
  <2>1. s[Len(s)] \in Msg BY <1>2, <1>3
  <2>2. s[Len(s)].calls \in 0..2 BY <2>1 DEF Msg
  <2>3. c \in 0..2 BY <1>3, <2>2
  <2> QED BY <1>1, <2>3
<1>5. s[Len(s)].calls = c /\ s[Len(s)].req = Now /\ Nearly(s) BY <1>2, <1>3 DEF Transcript
<1>6. \E body \in {"bulky", "plain", "card"} : Extend([k \in 1..c |-> Result(Now, k, body)]) /\ phase' \in {"asking", "answering"}
  <2>1. CASE \E body \in {"bulky", "plain"} : Extend([k \in 1..c |-> Result(Now, k, body)]) /\ phase' = "asking"
    BY <2>1
  <2>2. CASE c = 1 /\ Extend(<<Result(Now, 1, "card")>>) /\ phase' = "answering"
    <3>1. [k \in 1..1 |-> Result(Now, k, "card")] = <<Result(Now, 1, "card")>> OBVIOUS
    <3>2. Extend([k \in 1..c |-> Result(Now, k, "card")]) BY <2>2, <3>1
    <3> QED BY <2>2, <3>2
  <2> QED BY <2>1, <2>2 DEF TakeResults
<1>7. PICK body \in {"bulky", "plain", "card"} :
        Extend([k \in 1..c |-> Result(Now, k, body)]) /\ phase' \in {"asking", "answering"}
  BY <1>6
<1> DEFINE t == [k \in 1..c |-> Result(Now, k, body)]
<1> HIDE DEF c
<1>8. \A k \in 1..c : k \in 1..2 BY <1>4
<1>9. \A k \in 1..c : /\ t[k] \in Msg /\ t[k].role = "tool" /\ t[k].calls = 0 /\ t[k].answers = k
                      /\ t[k].req = Now /\ t[k].from = "run" /\ t[k].body # "cleared"
  BY <1>1, <1>8, ResultIs
<1>10. t \in Seq(Msg) /\ Len(t) = c
  <2>1. t \in [1..c -> Msg] BY <1>9
  <2> HIDE DEF t
  <2>2. c \in Nat BY <1>4
  <2> QED BY <2>1, <2>2
<1>11. Extend(t) BY <1>7
<1> HIDE DEF t
<1>12. Nearly(s \o t)
  <2>1. c \in Nat /\ c > 0 BY <1>4
  <2>2. Grouped(s \o t) BY <1>2, <1>3, <1>5, <1>9, <1>10, <2>1, ResultsAnswer
  <2> QED BY <2>2, GroupedIsNearly
<1>13. Len(t) > 0 /\ t[Len(t)].calls = 0 /\ \A i \in 1..Len(t) : t[i].req = Now /\ t[i].from = "run"
                                                /\ t[i].body # "cleared" /\ t[i].role # "user"
  BY <1>4, <1>9, <1>10
<1>14. phase' \in {"asking", "acting", "answering"} /\ phase' # "acting" /\ phase # "idle" BY <1>0, <1>7
<1> QED BY <1>0, <1>10, <1>11, <1>12, <1>13, <1>14, TurnGrows

LEMMA StoreAnswerStep ==
  ASSUME WindowInv, StoreAnswer
  PROVE  WindowInv'
<1> DEFINE m == Text(Now, "assistant", "row")
<1>1. /\ phase # "idle" /\ phase' = "idle" /\ stored' = Append(stored, m) /\ expired' = expired /\ run' = run
  BY DEF StoreAnswer
<1>2. /\ Now \in Turns /\ Now \in Nat /\ Last(stored) = stored[Len(stored)] /\ Last(stored).role = "user"
      /\ Now = stored[Len(stored)].req /\ Before(Len(stored) - 1, Now)
  BY <1>1, NowIs DEF WindowInv, TurnHolds
<1>3. m \in Msg /\ m.from = "row" /\ m.calls = 0 /\ m.role = "assistant" /\ m.body = "text" /\ m.req = Now
  BY <1>2, TextIs
<1> HIDE DEF m
<1>4. ASSUME NEW i \in 1..Len(stored)
      PROVE  stored[i].req < m.req \/ (stored[i].req = m.req /\ stored[i].role = "user" /\ m.role = "assistant")
  <2>1. Len(stored) \in Nat BY DEF WindowInv, RowsHold
  <2>2. CASE i = Len(stored) BY <2>2, <1>2, <1>3
  <2>3. CASE i # Len(stored)
    <3>1. i <= Len(stored) - 1 BY <2>1, <2>3
    <3> QED BY <3>1, <1>2, <1>3 DEF Before
  <2> QED BY <2>2, <2>3
<1>5. RowsHold' BY <1>1, <1>3, <1>4, RowAdded DEF WindowInv
<1>6. RunsHold' BY <1>1 DEF WindowInv, RunsHold
<1>7. TurnHolds' BY <1>1 DEF TurnHolds
<1> QED BY <1>5, <1>6, <1>7 DEF WindowInv

LEMMA RetryTurnStep ==
  ASSUME WindowInv, RetryTurn
  PROVE  WindowInv'
<1>1. /\ Now > 0 /\ Last(stored).role = "user" /\ run[Now] # <<>> /\ UNCHANGED <<stored, expired, run>>
      /\ history' = Window(Now)
  BY DEF RetryTurn, Unanswered, Attempt
<1>2. stored # <<>> BY <1>1 DEF Now
<1> DEFINE c == Last(run[Now]).calls
<1>3. c \in Nat
  <2>1. Now \in Turns BY <1>2, NowIs DEF WindowInv
  <2>2. run[Now] \in Seq(Msg) BY <2>1 DEF WindowInv, RunsHold
  <2>3. Len(run[Now]) \in 1..Len(run[Now]) BY <1>1, <2>2
  <2> QED BY <2>2, <2>3, Messages DEF Last
<1>4. phase' = CASE Terminal(run[Now]) -> "answering" [] c > 0 -> "acting" [] OTHER -> "asking"
  BY DEF RetryTurn, Attempt
<1> HIDE DEF c
<1>5. phase' \in {"asking", "acting", "answering"} /\ (phase' = "asking" => c = 0) /\ (phase' = "acting" => c > 0)
  <2>1. CASE Terminal(run[Now]) /\ c > 0 BY <2>1, <1>4
  <2>2. CASE Terminal(run[Now]) /\ ~(c > 0) BY <2>2, <1>4
  <2>3. CASE ~Terminal(run[Now]) /\ c > 0 BY <2>3, <1>4
  <2>4. CASE ~Terminal(run[Now]) /\ ~(c > 0)
    <3>1. phase' = "asking" /\ c = 0 BY <2>4, <1>3, <1>4
    <3> QED BY <3>1
  <2> QED BY <2>1, <2>2, <2>3, <2>4
<1>u. UNCHANGED <<stored, expired, run>> BY <1>1
<1>6. Window(Now)' = Window(Now) /\ Now' = Now /\ run' = run /\ stored' = stored
  BY <1>u, SMTT(30) DEF Window, Past, FromRow, Native, Visible, Now
<1>7. RowsHold' /\ RunsHold' BY <1>1 DEF WindowInv, RowsHold, RunsHold
<1>8. TurnHolds' BY <1>1, <1>2, <1>5, <1>6 DEF TurnHolds, c
<1> QED BY <1>7, <1>8 DEF WindowInv

LEMMA BeginTurnStep ==
  ASSUME WindowInv, BeginTurn
  PROVE  WindowInv'
<1>0. PICK now : now = Now + 1 OBVIOUS
<1> DEFINE m == Text(now, "user", "row")
           n == Len(stored)
<1>1. /\ phase = "idle" /\ Now < MaxTurns /\ stored' = Append(stored, m) /\ expired' = expired
  BY <1>0 DEF BeginTurn
<1>2. /\ now \in Turns /\ now \in Nat /\ Before(n, now) /\ Now \in Nat
      /\ \A i \in 1..n : stored[i].req <= Now /\ stored[i].req \in Nat
  <2>1. Now \in Nat /\ Before(n, Now + 1) /\ \A i \in 1..n : stored[i].req \in Turns /\ stored[i].req <= Now
    BY NowIs DEF WindowInv
  <2>2. now \in 1..MaxTurns BY <2>1, <1>0, <1>1, ContextWindowAssumption
  <2> QED BY <2>1, <2>2, <1>0 DEF Turns
<1>3. m \in Msg /\ m.from = "row" /\ m.calls = 0 /\ m.role = "user" /\ m.body = "text" /\ m.req = now
  BY <1>2, TextIs
<1>s. stored \in Seq(Msg) /\ n \in Nat /\ n = Len(stored) /\ expired \in 0..n BY DEF WindowInv, RowsHold
<1> HIDE DEF m, n
<1>4. \A i \in 1..n : stored[i].req < m.req BY <1>0, <1>2, <1>3
<1>5. RowsHold' /\ Now' = now /\ stored' # <<>> /\ Last(stored') = m
  BY <1>1, <1>3, <1>4, <1>s, RowAdded DEF WindowInv
<1>6. CASE UNCHANGED <<run, phase, history>>
  <2>1. RunsHold' BY <1>6 DEF WindowInv, RunsHold
  <2>2. TurnHolds' BY <1>1, <1>6 DEF TurnHolds
  <2> QED BY <1>5, <2>1, <2>2 DEF WindowInv
<1>7. CASE run' = [run EXCEPT ![Now + 1] = <<Text(Now + 1, "user", "run")>>] /\ Attempt("asking", Now + 1)
  <2> DEFINE q == Text(now, "user", "run")
             t == <<q>>
  <2>1. run' = [run EXCEPT ![now] = t] /\ phase' = "asking" /\ history' = Window(now) BY <1>0, <1>7 DEF Attempt
  <2>2. q \in Msg /\ q.calls = 0 /\ q.req = now /\ q.role = "user" /\ q.from = "run" /\ q.body = "text"
    BY <1>2, TextIs
  <2> HIDE DEF q
  <2>3. t \in Seq(Msg) /\ Len(t) = 1 /\ t[1] = q /\ Nearly(t) BY <2>2, OneMessage
  <2> HIDE DEF t
  <2>4. Transcript(t, now)
    <3>1. \A i \in 1..Len(t) : t[i] = q /\ ~(i > 1) BY <2>3
    <3> QED BY <3>1, <2>2, <2>3 DEF Transcript
  <2>5. run \in [Turns -> Seq(Msg)] /\ \A r \in Turns : Transcript(run[r], r) BY DEF WindowInv, RunsHold
  <2>6. run' \in [Turns -> Seq(Msg)] /\ run'[now] = t /\ \A r \in Turns : r # now => run'[r] = run[r]
    BY <1>2, <2>1, <2>3, <2>5
  <2>7. RunsHold'
    <3>1. ASSUME NEW r \in Turns PROVE Transcript(run'[r], r)
      <4>1. CASE r = now BY <4>1, <2>4, <2>6
      <4>2. CASE r # now BY <4>2, <2>5, <2>6
      <4> QED BY <4>1, <4>2
    <3> QED BY <3>1, <2>6 DEF RunsHold
  <2>8. Visible(now)' = Visible(now)
    <3> DEFINE read == SubSeq(stored, expired + 1, n)
               more == SubSeq(Append(stored, m), expired + 1, n + 1)
    <3>1. expired + 1 \in Nat \ {0} /\ expired + 1 <= n + 1 BY <1>s
    <3>2. more = Append(read, m)
      <4>1. expired + 1 <= Len(stored) + 1 BY <3>1, <1>s
      <4>2. SubSeq(Append(stored, m), expired + 1, Len(stored) + 1) = Append(SubSeq(stored, expired + 1, Len(stored)), m)
        <5>1. PICK x \in Nat \ {0} : x = expired + 1 BY <3>1
        <5>2. m \in Msg /\ stored \in Seq(Msg) /\ x <= Len(stored) + 1 BY <1>s, <1>3, <4>1, <5>1
        <5>3. SubSeq(Append(stored, m), x, Len(stored) + 1) = Append(SubSeq(stored, x, Len(stored)), m)
          BY <5>2, PieceOfAppended
        <5> QED BY <5>1, <5>3
      <4> QED BY <4>2, <1>s
    <3>3. read \in Seq(Msg) /\ Len(read) = (n - (expired + 1)) + 1
          /\ \A i \in 1 .. (n - (expired + 1)) + 1 :
               read[i] = stored[((expired + 1) + i) - 1] /\ ((expired + 1) + i) - 1 \in expired + 1 .. n
      BY <3>1, <1>s, PieceIs
    <3> DEFINE N == Len(read)
    <3>4. N \in Nat /\ N = Len(read) /\ \A i \in 1..N : read[i].req < now /\ read[i].req \in Nat
      <4>1. \A i \in 1..N : ((expired + 1) + i) - 1 \in 1..n BY <3>3, <1>s
      <4>2. \A i \in 1..N : read[i] = stored[((expired + 1) + i) - 1] BY <3>3
      <4> QED BY <4>1, <4>2, <3>3, <1>2, <1>3, <1>4
    <3> HIDE DEF read, N
    <3>5. ASSUME NEW i \in 1..N PROVE read[i].req # now
      <4>1. read[i].req < now /\ read[i].req \in Nat /\ now \in Nat BY <3>4, <1>2
      <4> QED BY <4>1
    <3> DEFINE longer == Append(read, m)
    <3>6. longer \in Seq(Msg) /\ Len(longer) = N + 1 /\ longer[N + 1] = m /\ \A i \in 1..N : longer[i] = read[i]
      BY <3>3, <3>4, <1>3
    <3>7. Others(read, now) = SubSeq(read, 1, N)
      <4>1. N \in 0..Len(read) /\ \A i \in 1..Len(read) : read[i].req = now <=> i > N BY <3>4, <3>5
      <4> QED BY <4>1, <3>3, OthersIs
    <3>8. Others(longer, now) = SubSeq(longer, 1, N)
      <4> HIDE DEF longer
      <4>1. N \in 0..Len(longer) BY <3>4, <3>6
      <4>2. ASSUME NEW i \in 1..Len(longer) PROVE longer[i].req = now <=> i > N
        <5>1. CASE i = N + 1 BY <5>1, <3>4, <3>6, <1>3
        <5>2. CASE i # N + 1
          <6>1. i \in 1..N /\ ~(i > N) BY <5>2, <3>4, <3>6
          <6> QED BY <6>1, <3>5, <3>6
        <5> QED BY <5>1, <5>2
      <4> QED BY <4>1, <4>2, <3>6, OthersIs
    <3>9. SubSeq(longer, 1, N) = SubSeq(read, 1, N)
      <4>1. 1 \in Nat \ {0} /\ 1 <= Len(read) + 1 BY <3>4
      <4> QED BY <4>1, <3>3, <3>4, <1>3, PieceOfAppended
    <3>10. Others(more, now) = Others(read, now) BY <3>2, <3>7, <3>8, <3>9
    <3>11. Len(stored') = n + 1 BY <1>1, <1>3, <1>s
    <3>12. SubSeq(stored', expired' + 1, Len(stored')) = more BY <3>11, <1>1
    <3>13. SubSeq(stored, expired + 1, Len(stored)) = read BY <1>s DEF read
    <3> HIDE DEF more
    <3>14. Others(SubSeq(stored', expired' + 1, Len(stored')), now)
             = Others(SubSeq(stored, expired + 1, Len(stored)), now)
      BY <3>10, <3>12, <3>13
    <3> QED BY <3>14 DEF Visible
  <2>9. Window(now)' = Window(now)
    <3>1. PICK d \in Nat : SeenAt(Visible(now), d, now) BY <1>2, <1>s, RowsVisible
    <3>2. PICK seen : seen = Visible(now) OBVIOUS
    <3>3. \A i \in 1..expired : stored'[i] = stored[i] BY <1>1, <1>3, <1>s
    <3>4. seen = Visible(now)' BY <3>2, <2>8
    <3> QED BY <1>1, <1>2, <2>6, <3>1, <3>2, <3>3, <3>4, WindowKept
  <2>10. history' = Window(Now)' BY <1>5, <2>1, <2>9
  <2>11. run'[Now'] # <<>> /\ Last(run'[Now']).calls = 0
    <3>1. Last(t) = q /\ t # <<>> BY <2>3 DEF Last
    <3> QED BY <3>1, <1>5, <2>2, <2>6
  <2>12. TurnHolds' BY <1>3, <1>5, <2>1, <2>10, <2>11 DEF TurnHolds
  <2> QED BY <1>5, <2>7, <2>12 DEF WindowInv
<1> QED BY <1>6, <1>7 DEF BeginTurn

LEMMA WindowNext ==
  ASSUME WindowInv, [CWNext]_cwVars
  PROVE  WindowInv'
<1>1. CASE BeginTurn BY <1>1, BeginTurnStep
<1>2. CASE RetryTurn BY <1>2, RetryTurnStep
<1>3. CASE CallTools BY <1>3, CallToolsStep
<1>4. CASE TakeResults BY <1>4, TakeResultsStep
<1>5. CASE ReplyText BY <1>5, ReplyTextStep
<1>6. CASE StoreAnswer BY <1>6, StoreAnswerStep
<1>7. CASE StopTurn
  <2>1. phase' = "idle" /\ UNCHANGED <<stored, expired, run>> BY <1>7 DEF StopTurn
  <2> QED BY <2>1 DEF WindowInv, RowsHold, RunsHold, TurnHolds
<1>8. CASE ExpireRow
  <2>1. phase = "idle" /\ phase' = "idle" /\ expired < Len(stored) /\ expired' = expired + 1 /\ UNCHANGED <<stored, run>>
    BY <1>8 DEF ExpireRow
  <2>2. expired' \in 0..Len(stored) BY <2>1 DEF WindowInv, RowsHold
  <2> QED BY <2>1, <2>2 DEF WindowInv, RowsHold, RunsHold, TurnHolds
<1>9. CASE UNCHANGED cwVars
  <2>1. UNCHANGED <<stored, expired, run, phase, history>> BY <1>9 DEF cwVars
  <2>2. Window(Now)' = Window(Now) /\ Now' = Now
    BY <2>1, SMTT(30) DEF Window, Past, FromRow, Native, Visible, Now
  <2> QED BY <2>1, <2>2 DEF WindowInv, RowsHold, RunsHold, TurnHolds
<1> QED BY <1>1, <1>2, <1>3, <1>4, <1>5, <1>6, <1>7, <1>8, <1>9 DEF CWNext

LEMMA WindowInit == CWInit => WindowInv
<1> SUFFICES ASSUME CWInit PROVE WindowInv OBVIOUS
<1> DEFINE none == <<>>
<1>0. none \in Seq(Msg) /\ Len(none) = 0 OBVIOUS
<1>1. stored = none /\ expired = 0 /\ run = [r \in Turns |-> none] /\ phase = "idle" BY DEF CWInit
<1> HIDE DEF none
<1>2. RowsHold BY <1>0, <1>1 DEF RowsHold
<1>3. \A r \in Turns : Transcript(none, r) BY <1>0 DEF Transcript, Nearly
<1>4. RunsHold BY <1>0, <1>1, <1>3 DEF RunsHold
<1> QED BY <1>1, <1>2, <1>4 DEF WindowInv, TurnHolds

LEMMA WindowInvTypes ==
  ASSUME WindowInv
  PROVE  CWTypeOK
<1>1. Now \in 0..MaxTurns /\ stored \in Seq(Msg) /\ expired \in 0..Len(stored) BY NowIs DEF WindowInv, RowsHold
<1>2. \A i \in DOMAIN stored : stored[i].from = "row" /\ stored[i].calls = 0 BY <1>1 DEF WindowInv, RowsHold
<1>3. DOMAIN run = Turns BY DEF WindowInv, RunsHold
<1>4. ASSUME NEW r \in Turns, NEW i \in DOMAIN run[r]
      PROVE  /\ run[r][i].req = r /\ run[r][i].from = "run" /\ run[r][i].calls \in 0..2
             /\ run[r][i].role \in {"user", "assistant", "tool"}
             /\ run[r][i].body \in {"text", "none", "bulky", "plain", "card"}
  <2>1. run[r] \in Seq(Msg) /\ Transcript(run[r], r) BY DEF WindowInv, RunsHold
  <2>2. i \in 1..Len(run[r]) BY <2>1
  <2>3. run[r][i] \in Msg BY <2>1, <2>2
  <2>4. run[r][i].req = r /\ run[r][i].from = "run" /\ run[r][i].body # "cleared" BY <2>1, <2>2 DEF Transcript
  <2> QED BY <2>3, <2>4 DEF Msg
<1> QED BY <1>1, <1>2, <1>3, <1>4 DEF CWTypeOK, WindowInv, TurnHolds

\* Rows, transcripts and phases have their types, and requests their numbers.
THEOREM ContextTypes == CWSpec => []CWTypeOK
<1>1. CWInit => WindowInv BY WindowInit
<1>2. WindowInv /\ [CWNext]_cwVars => WindowInv' BY WindowNext
<1>3. WindowInv => CWTypeOK BY WindowInvTypes
<1> QED BY <1>1, <1>2, <1>3, PTL DEF CWSpec

\* Whatever turns stop, are retried or expire, a request to the model has every
\* call with its results and no result without its call, each request once, in
\* order and in one form, nothing of an expired question, whole turns from a
\* question on, and results that the model has not read yet.
THEOREM ContextWhole == CWSpec => []ContextIsWhole
<1>1. CWInit => WindowInv BY WindowInit
<1>2. WindowInv /\ [CWNext]_cwVars => WindowInv' BY WindowNext
<1>3. WindowInv => ContextIsWhole BY WindowInvContext
<1> QED BY <1>1, <1>2, <1>3, PTL DEF CWSpec
=============================================================================
