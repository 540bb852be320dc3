------------------------------- MODULE MCParts -------------------------------
(***************************************************************************)
(* Seven parts that share no state, checked in one run: `part` is chosen     *)
(* in the first state and the others do not move.                          *)
(***************************************************************************)
EXTENDS Attachments, Registration, Chunker, IoExecutor, AgentLoop, TripOptions, Evaluation, TLC

CONSTANTS a, b, t1
VARIABLE part
vars == <<part, atVars, rgVars, chVars, ioVars, alVars, toVars, evVars>>

\* Two headings of each of two levels, a short and a long paragraph, a table
\* with rows and a block of code.
Block(type, words, rows) ==
  [type |-> type, level |-> 0, name |-> "", text |-> words, rows |-> rows]
Heading(level, name) ==
  [type |-> "heading", level |-> level, name |-> name, text |-> <<1>>, rows |-> FALSE]
MCMenu ==
  {Heading(1, "A"), Heading(1, "B"), Heading(2, "C"), Heading(2, "D"),
   Block("prose", <<1, 0>>, FALSE), Block("prose", <<1, 2, 0, 3, 0, 4, 5, 0>>, FALSE),
   Block("table", <<1, 2, 0, 3, 4, 5, 0>>, TRUE), Block("code", <<1, 2, 3, 4, 5>>, FALSE)}

\* Replies with one call, equal calls, calls of both kinds, and too many.
MCBatches ==
  {<<a>>, <<a, a>>, <<a, b>>, <<"skill">>, <<a, "skill">>, <<"report">>, <<b, "report">>,
   <<a, b, "skill">>}

\* Preferences: weather or transport and hotels are not wanted, or neither trains
\* nor hotels.
MCBrands == <<"brand">>
MCWishes == {{"weather", "local_transport"}, {"nearby_hotels", "weather"}, {"train", "nearby_hotels"}}
MCKnown == {"around"}
MCFlaky == {"brand", "live"}

\* Any answer that the engine gives (agent_runtime/) with at most four facts: a
\* missing field is one of a plan, a question a card's, and a card brings no answer
\* document; a bare turn asked no specialist; no role is named chitchat.
Given(c) ==
  /\ "unfilled" \in c => "policy" \in c
  /\ "repeats" \in c => "asks" \in c
  /\ "asks" \in c => c \cap {"malformed", "sources"} = {}
  /\ "bare" \in c => c \cap {"policy", "failed", "unavailable", "evidence"} = {}
  /\ "chitchat" \notin c /\ ~{"interrupted", "replayed"} \subseteq c
\* One fact more than an answer of `answers`, or none.
More(answers) == answers \cup {c \cup {fact} : c \in answers, fact \in TurnFacts}
AnyAnswer == {c \in More(More(More(More({{}})))) : Given(c)}
MCAnswers == (t1 :> AnyAnswer)
Symmetry == Permutations(Evaluators)

Init ==
  /\ part \in {"attachments", "registration", "chunker", "executor", "agent", "options",
              "evaluation"}
  /\ ATInit /\ RGInit /\ CHInit /\ IOInit /\ ALInit /\ TOInit /\ EVInit
  /\ part # "options" =>
       /\ wish = [excluded |-> {"weather", "local_transport"}, anchor |-> TRUE, past |-> FALSE]
       /\ cache = <<>> /\ table = "cold"
Next ==
  /\ UNCHANGED part
  /\ \/ part = "attachments" /\ ATNext /\ UNCHANGED <<rgVars, chVars, ioVars, alVars, toVars, evVars>>
     \/ part = "registration" /\ RGNext /\ UNCHANGED <<atVars, chVars, ioVars, alVars, toVars, evVars>>
     \/ part = "chunker" /\ CHNext /\ UNCHANGED <<atVars, rgVars, ioVars, alVars, toVars, evVars>>
     \/ part = "executor" /\ IONext /\ UNCHANGED <<atVars, rgVars, chVars, alVars, toVars, evVars>>
     \/ part = "agent" /\ ALNext /\ UNCHANGED <<atVars, rgVars, chVars, ioVars, toVars, evVars>>
     \/ part = "options" /\ TONext /\ UNCHANGED <<atVars, rgVars, chVars, ioVars, alVars, evVars>>
     \/ part = "evaluation" /\ EVNext
        /\ UNCHANGED <<atVars, rgVars, chVars, ioVars, alVars, toVars>>

Spec == Init /\ [][Next]_vars

\* The types of the parts with state of their own.
TypeOK ==
  CASE part = "attachments"  -> ATTypeOK
    [] part = "registration" -> RGTypeOK
    [] part = "executor"     -> IOTypeOK
    [] part = "agent"        -> ALTypeOK
    [] part = "options"      -> TOTypeOK
    [] OTHER                 -> TRUE
=============================================================================
