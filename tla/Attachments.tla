---------------------------- MODULE Attachments ----------------------------
(***************************************************************************)
(* Files attached to chat messages (multimodal/): an upload writes the     *)
(* file, the row and the extracted text in three places, its process may   *)
(* die between any two of them and the answer of a commit may be lost; the *)
(* owner deletes a file at any time.  A chat request reads the texts of    *)
(* its attachments first and binds them to its message in a transaction of *)
(* another service later.                                                  *)
(***************************************************************************)
EXTENDS FiniteSets

CONSTANTS
  Files,   \* attachment ids, one upload each
  Sends    \* request ids of chat messages with attachments

VARIABLES
  upload,    \* where the call of service.upload is
  stored,    \* the objects in LocalAttachmentStore
  deleting,  \* deleted rows whose object is still to be unlinked
  row,       \* attachments.status; "none" before and after the row
  text,      \* attachment_extractions
  expired,   \* the rows past expires_at
  send,      \* the chat requests: normalize, then the append of the message
  message    \* the stored user messages, with what they were sent with

atVars == <<upload, stored, deleting, row, text, expired, send, message>>

Uploading == {"saved", "created", "failing"}
Send == [at : {"new", "reading", "answering", "refused"}, ids : SUBSET Files,
         todo : SUBSET Files, texts : SUBSET Files]
Message == [kept : BOOLEAN, sent : SUBSET Files, bound : SUBSET Files]

ATTypeOK ==
  /\ upload \in [Files -> {"new", "done", "dead"} \cup Uploading]
  /\ stored \subseteq Files /\ deleting \subseteq Files
  /\ text \subseteq Files /\ expired \subseteq Files
  /\ row \in [Files -> {"none", "processing", "ready", "failed"}]
  /\ send \in [Sends -> Send]
  /\ message \in [Sends -> Message]

ATInit ==
  /\ upload = [f \in Files |-> "new"] /\ row = [f \in Files |-> "none"]
  /\ stored = {} /\ deleting = {} /\ text = {} /\ expired = {}
  /\ send = [q \in Sends |-> [at |-> "new", ids |-> {}, todo |-> {}, texts |-> {}]]
  /\ message = [q \in Sends |-> [kept |-> FALSE, sent |-> {}, bound |-> {}]]

chat == <<send, message>>

-----------------------------------------------------------------------------
(* AttachmentService.upload.                                               *)

Goes(f, from, to) == upload[f] = from /\ upload' = [upload EXCEPT ![f] = to]

SaveObject(f) ==
  /\ Goes(f, "new", "saved")
  /\ stored' = stored \cup {f}
  /\ UNCHANGED <<deleting, row, text, expired, chat>>

CreateRow(f) ==
  /\ Goes(f, "saved", "created")
  /\ row' = [row EXCEPT ![f] = "processing"]
  /\ UNCHANGED <<stored, deleting, text, expired, chat>>

\* The INSERT raises, although it may have committed: the object is removed.
CreateFails(f) ==
  /\ Goes(f, "saved", "done")
  /\ row' \in {row, [row EXCEPT ![f] = "processing"]}
  /\ stored' = stored \ {f}
  /\ UNCHANGED <<deleting, text, expired, chat>>

\* update_status: whatever the row says, if it is still there.
MarkedFailed(f) == row' = IF row[f] = "none" THEN row ELSE [row EXCEPT ![f] = "failed"]

ParseFails(f) ==
  /\ Goes(f, "created", "done") /\ MarkedFailed(f)
  /\ UNCHANGED <<stored, deleting, text, expired, chat>>

StatusFirst(f) ==
  IF row[f] = "processing"
    THEN row' = [row EXCEPT ![f] = "ready"] /\ text' \in {text, text \cup {f}}
    ELSE UNCHANGED <<row, text>>

\* complete_processing: text and status in one transaction, or neither.
Completed(f) ==
  IF row[f] = "processing"
    THEN row' = [row EXCEPT ![f] = "ready"] /\ text' = text \cup {f}
    ELSE UNCHANGED <<row, text>>

Complete(f) ==
  /\ row[f] = "processing"
  /\ Goes(f, "created", "done") /\ Completed(f)
  /\ UNCHANGED <<stored, deleting, expired, chat>>

\* The transaction raises; it has committed if only its answer was lost.
CompleteFails(f) ==
  /\ Goes(f, "created", "failing")
  /\ Completed(f) \/ UNCHANGED <<row, text>>
  /\ UNCHANGED <<stored, deleting, expired, chat>>

PersistFailed(f) ==
  /\ Goes(f, "failing", "done")
  /\ MarkedFailed(f) \/ UNCHANGED row
  /\ UNCHANGED <<stored, deleting, text, expired, chat>>

UploadDies(f) ==
  /\ upload[f] \in Uploading
  /\ upload' = [upload EXCEPT ![f] = "dead"]
  /\ UNCHANGED <<stored, deleting, row, text, expired, chat>>

-----------------------------------------------------------------------------
(* AttachmentService.delete, and the retention.                            *)

\* The row goes first; its text and its bindings go with it by cascade.
DeleteRow(f) ==
  /\ row[f] # "none"
  /\ row' = [row EXCEPT ![f] = "none"]
  /\ text' = text \ {f}
  /\ message' = [q \in Sends |-> [message[q] EXCEPT !.bound = @ \ {f}]]
  /\ deleting' = deleting \cup {f}
  /\ UNCHANGED <<upload, stored, expired, send>>

\* unlink, or an error that is logged, or a process that died before.
DeleteObject(f) ==
  /\ f \in deleting
  /\ deleting' = deleting \ {f}
  /\ stored' \in {stored, stored \ {f}}
  /\ UNCHANGED <<upload, row, text, expired, chat>>

Expires(f) ==
  /\ row[f] # "none"
  /\ expired' = expired \cup {f}
  /\ UNCHANGED <<upload, stored, deleting, row, text, chat>>

-----------------------------------------------------------------------------
(* A chat request, which its client may repeat under the same id.          *)

Usable(ids) == \A f \in ids : row[f] = "ready" /\ f \notin expired

ToSend(q, s) == send' = [send EXCEPT ![q] = s]

\* normalize: the rows are read and checked in one statement ...
Normalize(q, ids) ==
  /\ send[q].at # "reading"
  /\ ToSend(q, [at |-> IF Usable(ids) THEN "reading" ELSE "refused", ids |-> ids,
                todo |-> IF Usable(ids) THEN ids ELSE {}, texts |-> {}])
  /\ UNCHANGED <<upload, stored, deleting, row, text, expired, message>>

\* ... and the text of each in one more; a missing text is taken as empty.
ReadText(q, f) ==
  /\ f \in send[q].todo
  /\ ToSend(q, [send[q] EXCEPT !.todo = @ \ {f}, !.texts = @ \cup ({f} \cap text)])
  /\ UNCHANGED <<upload, stored, deleting, row, text, expired, message>>

BindsUnchecked(q) ==
  message[q].kept => message[q].bound = send[q].ids /\ message[q].sent = send[q].ids

\* append: the attachments are looked at again; a repeated request finds its
\* message, whose content names the attachments and whose bindings must be the
\* same.
Binds(q) ==
  /\ Usable(send[q].ids)
  /\ message[q].kept => message[q].bound = send[q].ids /\ message[q].sent = send[q].ids

Appended(q) ==
  message' = IF message[q].kept THEN message
             ELSE [message EXCEPT ![q] = [kept |-> TRUE, sent |-> send[q].ids,
                                          bound |-> send[q].ids]]

\* The message is stored, then the Supervisor runs; or its answer is lost.
AppendMessage(q) ==
  /\ send[q].at = "reading" /\ send[q].todo = {} /\ Binds(q)
  /\ Appended(q)
  /\ \E at \in {"answering", "refused"} : ToSend(q, [send[q] EXCEPT !.at = at])
  /\ UNCHANGED <<upload, stored, deleting, row, text, expired>>

BindingFails(q) ==
  /\ send[q].at = "reading" /\ send[q].todo = {} /\ ~Binds(q)
  /\ ToSend(q, [send[q] EXCEPT !.at = "refused"])
  /\ UNCHANGED <<upload, stored, deleting, row, text, expired, message>>

ATNext ==
  \/ \E f \in Files :
       \/ SaveObject(f) \/ CreateRow(f) \/ CreateFails(f) \/ ParseFails(f)
       \/ Complete(f) \/ CompleteFails(f) \/ PersistFailed(f) \/ UploadDies(f)
       \/ DeleteRow(f) \/ DeleteObject(f) \/ Expires(f)
  \/ \E q \in Sends :
       \/ \E ids \in SUBSET Files : ids # {} /\ Normalize(q, ids)
       \/ \E f \in Files : ReadText(q, f)
       \/ AppendMessage(q) \/ BindingFails(q)

ATSpec == ATInit /\ [][ATNext]_atVars

-----------------------------------------------------------------------------
\* What the panel shows as ready can be read and downloaded: text and object
\* are there, whatever upload died or lost an answer and whatever is deleted
\* meanwhile ("Extraction and ready status become visible together",
\* multimodal/service.py:163).
ReadyIsWhole == \A f \in Files : row[f] = "ready" => f \in text /\ f \in stored

\* The Supervisor never answers without a text it was to see: an attachment
\* that goes between normalize and the append makes the append fail.
AnswersSawTexts ==
  \A q \in Sends : send[q].at = "answering" => send[q].texts = send[q].ids
=============================================================================
