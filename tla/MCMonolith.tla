------------------------------ MODULE MCMonolith ------------------------------
(***************************************************************************)
(* Parts of the monolith that share no state, checked in one run: `part` is *)
(* chosen in the first state and the others do not move.                    *)
(***************************************************************************)
EXTENDS Conversation, ContextWindow, VectorIndex, Extraction, KnowledgeBase, TLC

CONSTANTS p, q
VARIABLE part
\* The turns of a session; files, the index and the library.
talkVars == <<cvVars, cwVars>>
fileVars == <<viVars, exVars, kbVars>>
vars == <<part, talkVars, fileVars>>

\* Two versions of a document; the first has two chunks of one text.
Chunk(doc, ver, id, text) == [doc |-> doc, ver |-> ver, id |-> id, text |-> text]
MCChunks == {Chunk("d", 1, 1, "a"), Chunk("d", 1, 2, "a"), Chunk("d", 2, 1, "a")}
MCMenu == {{c \in MCChunks : c.ver = v} : v \in {1, 2}}
MCPrint == p :> "p" @@ q :> "q"

Init ==
  /\ part \in {"conversation", "context", "index", "extraction", "knowledge"}
  /\ CVInit /\ CWInit /\ VIInit /\ EXInit /\ KBInit
  /\ part # "conversation" => session = "active"
  /\ part # "knowledge" => \A u \in Uploads : upload[u].name = CHOOSE n \in Names : TRUE
Next ==
  /\ UNCHANGED part
  /\ \/ part = "conversation" /\ CVNext /\ UNCHANGED <<cwVars, fileVars>>
     \/ part = "context" /\ CWNext /\ UNCHANGED <<cvVars, fileVars>>
     \/ part = "index" /\ VINext /\ UNCHANGED <<talkVars, exVars, kbVars>>
     \/ part = "extraction" /\ EXNext /\ UNCHANGED <<talkVars, viVars, kbVars>>
     \/ part = "knowledge" /\ KBNext /\ UNCHANGED <<talkVars, viVars, exVars>>

Spec == Init /\ [][Next]_vars

Symmetry == Permutations(Requests)

\* The types of the parts.
TypeOK ==
  CASE part = "conversation" -> CVTypeOK
    [] part = "context"      -> CWTypeOK
    [] part = "index"        -> VITypeOK
    [] part = "extraction"   -> EXTypeOK
    [] part = "knowledge"    -> KBTypeOK
=============================================================================
