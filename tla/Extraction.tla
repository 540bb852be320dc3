----------------------------- MODULE Extraction -----------------------------
(***************************************************************************)
(* What becomes of a file before it is text: images, or voice messages,     *)
(* that are read by a paid service under a quota of the day                 *)
(* (multimodal/quota.py; the two kinds count apart), and the pages of a PDF, *)
(* read natively or by OCR, for a chat attachment (document_processor.py)   *)
(* or for the knowledge base (rag/ocr.py, rag/pipeline.py).  The clients    *)
(* try a call three times.  All this runs outside the budget of a turn.     *)
(***************************************************************************)
EXTENDS Naturals, FiniteSets

CONSTANTS
  Workers,    \* processes, each extracting one file at a time for one user
  MaxMedia,   \* bound: images in all
  MaxPdfs,    \* bound: PDFs in all
  Limit,      \* daily_limit
  NPages,     \* bound: pages of a PDF
  OcrPages,   \* query_pdf_max_pages
  MaxRetries, \* max_retries of the clients
  OcrEnabled

ASSUME ExtractionAssumption ==
  /\ MaxMedia \in Nat /\ MaxPdfs \in Nat /\ Limit \in Nat \ {0} /\ NPages \in Nat \ {0}
  /\ OcrPages \in Nat /\ MaxRetries \in Nat /\ OcrEnabled \in BOOLEAN

VARIABLES
  shared,   \* the counter in Redis
  local,    \* ... and of each process, when Redis does not answer
  media, pdfs, \* how many images and PDFs there have been
  job,      \* what each process works on
  chunks,   \* the knowledge base: the texts of the last document written
  granted,  \* ghost: how many calls the quota has granted
  fallbacks, \* ghost: how often a process has begun to count for itself
  paid      \* ghost: how often the metered service was called

exVars == <<shared, local, media, pdfs, job, chunks, granted, fallbacks, paid>>

Uses == {"image", "attachment", "ingest", "rebuild"}
PageNumbers == 1..NPages
\* What pypdf makes of a page.
Layers == {"text", "blank", "broken"}
States == {"native_text", "ocr_text", "intentionally_skipped", "error", "none"}

Job == [at : {"idle", "metering", "calling", "paging", "ready"},
        use : Uses, page : 1..NPages + 1, tries : 0..MaxRetries,
        layer : [PageNumbers -> Layers],
        text : [PageNumbers -> 0..NPages],     \* the page whose text it is
        state : [PageNumbers -> States]]

EXTypeOK ==
  /\ shared \in 0..MaxMedia /\ local \in [Workers -> 0..MaxMedia]
  /\ media \in 0..MaxMedia /\ pdfs \in 0..MaxPdfs /\ job \in [Workers -> Job]
  /\ chunks \subseteq [page : PageNumbers, text : PageNumbers]
  /\ granted \in 0..MaxMedia /\ fallbacks \in 0..MaxMedia

NoJob == [at |-> "idle", use |-> "image", page |-> 1, tries |-> 0,
          layer |-> [p \in PageNumbers |-> "text"], text |-> [p \in PageNumbers |-> 0],
          state |-> [p \in PageNumbers |-> "none"]]
EXInit ==
  /\ shared = 0 /\ local = [w \in Workers |-> 0]
  /\ media = 0 /\ pdfs = 0 /\ job = [w \in Workers |-> NoJob] /\ chunks = {}
  /\ granted = 0 /\ fallbacks = 0 /\ paid = 0
-----------------------------------------------------------------------------
Does(w, at) == job[w].at = at
Use(w) == job[w].use
SetJob(w, new) == job' = [job EXCEPT ![w] = new]
Free(w) == job[w].at \in {"idle", "ready"}
GiveUp(w) == SetJob(w, NoJob)
MadeReady(w) == SetJob(w, [job[w] EXCEPT !.at = "ready", !.page = 1, !.tries = 0])
Counters == <<shared, local, granted, fallbacks, paid>>

(* The quota (DailyQuota.consume).                                         *)

TakeMetered(w) ==
  /\ Free(w) /\ media < MaxMedia /\ media' = media + 1
  /\ SetJob(w, [NoJob EXCEPT !.at = "metering"])
  /\ UNCHANGED <<pdfs, chunks, Counters>>

\* A mutant of Within: the count is taken for the one before the increment.
WithinBefore(count) == count - 1 <= Limit
Within(count) == count <= Limit
Grant(w, ok) ==
  /\ IF ok THEN SetJob(w, [job[w] EXCEPT !.at = "calling"]) ELSE GiveUp(w)
  /\ granted' = IF ok THEN granted + 1 ELSE granted

ConsumeShared(w) ==
  /\ Does(w, "metering")
  /\ shared' = shared + 1 /\ Grant(w, Within(shared'))
  /\ UNCHANGED <<local, media, pdfs, chunks, fallbacks, paid>>

\* Redis fails, before or after it has counted.
ConsumeLocal(w) ==
  /\ Does(w, "metering")
  /\ shared' \in {shared, shared + 1}
  /\ local' = [local EXCEPT ![w] = @ + 1]
  /\ fallbacks' = IF local[w] = 0 THEN fallbacks + 1 ELSE fallbacks
  /\ Grant(w, Within(local'[w]))
  /\ UNCHANGED <<media, pdfs, chunks, paid>>

-----------------------------------------------------------------------------
(* A call and its retries.                                                 *)

Calling(w) == Does(w, "calling")
Charged(w) == paid' = IF Use(w) = "image" THEN paid + 1 ELSE paid
CallAgain(w) ==
  /\ Calling(w) /\ job[w].tries < MaxRetries /\ Charged(w)
  /\ SetJob(w, [job[w] EXCEPT !.tries = @ + 1])
  /\ UNCHANGED <<shared, local, media, pdfs, chunks, granted, fallbacks>>

\* The text is there; or the file was no good, or the service gave up, refused or
\* answered nonsense.
MediaEnds(w) ==
  /\ Calling(w) /\ Use(w) = "image" /\ GiveUp(w)
  /\ Charged(w) \/ (job[w].tries = 0 /\ UNCHANGED paid)
  /\ UNCHANGED <<shared, local, media, pdfs, chunks, granted, fallbacks>>

-----------------------------------------------------------------------------
(* The pages of a PDF.                                                     *)

StateOf(layer) ==
  CASE layer = "text" -> "native_text" [] layer = "blank" -> "intentionally_skipped"
    [] OTHER -> "error"
Scanned(layer) == {p \in PageNumbers : layer[p] # "text"}
\* An attachment is refused before the first page is read by OCR.
TooMuch(use, layer) ==
  /\ use = "attachment" /\ Scanned(layer) # {}
  /\ ~OcrEnabled \/ Cardinality(Scanned(layer)) > OcrPages

TakePdf(w) ==
  /\ Free(w) /\ pdfs < MaxPdfs /\ pdfs' = pdfs + 1
  /\ \E use \in Uses \ {"image"}, layer \in [PageNumbers -> Layers] :
       IF TooMuch(use, layer) THEN GiveUp(w)
       ELSE SetJob(w, [NoJob EXCEPT !.at = "paging", !.use = use, !.layer = layer,
                    !.text = [p \in PageNumbers |-> IF layer[p] = "text" THEN p ELSE 0],
                    !.state = [p \in PageNumbers |-> StateOf(layer[p])]])
  /\ UNCHANGED <<media, chunks, Counters>>

\* The scanned pages that have not had their turn; they are read in order.
Left(w) == IF OcrEnabled THEN {p \in Scanned(job[w].layer) : p >= job[w].page} ELSE {}

RenderPage(w) ==
  /\ Does(w, "paging")
  /\ \E next \in Left(w) :
       /\ \A p \in Left(w) : next <= p
       /\ SetJob(w, [job[w] EXCEPT !.at = "calling", !.page = next, !.tries = 0])
  /\ UNCHANGED <<media, pdfs, chunks, Counters>>

\* A mutant of Filed: a page is looked up by its place among the scanned ones.
FiledInOrder(w, text, state) ==
  LET here == Cardinality({n \in Scanned(job[w].layer) : n <= job[w].page})
  IN  [job[w] EXCEPT !.at = "paging", !.page = @ + 1, !.text[here] = text, !.state[here] = state]
Filed(w, text, state) ==
  LET here == job[w].page
  IN  [job[w] EXCEPT !.at = "paging", !.page = @ + 1, !.text[here] = text, !.state[here] = state]

PageRead(w) ==
  /\ Calling(w) /\ Use(w) # "image"
  /\ SetJob(w, Filed(w, job[w].page, "ocr_text"))
  /\ UNCHANGED <<media, pdfs, chunks, Counters>>

\* The page could not be rendered or read, or was empty: an attachment fails as a
\* whole, a source of the knowledge base goes on with its next page.
PageFails(w) ==
  /\ Calling(w) /\ Use(w) # "image"
  /\ IF Use(w) = "attachment" THEN GiveUp(w) ELSE SetJob(w, Filed(w, 0, "error"))
  /\ UNCHANGED <<media, pdfs, chunks, Counters>>

\* The pages whose text layer broke are errors, whatever OCR made of them.
Errors(w) == {p \in PageNumbers : job[w].layer[p] = "broken"}
Indexed(w) == {p \in PageNumbers \ Errors(w) : job[w].text[p] # 0}
ShouldWrite(w) == Indexed(w) # {} /\ (Use(w) = "rebuild" => Errors(w) = {})

Collect(w) ==
  /\ Does(w, "paging") /\ Left(w) = {}
  /\ IF Use(w) = "attachment" THEN MadeReady(w) /\ UNCHANGED chunks
     ELSE /\ IF ShouldWrite(w) THEN MadeReady(w) ELSE GiveUp(w)
          /\ chunks' = IF ShouldWrite(w)
                        THEN {[page |-> p, text |-> job[w].text[p]] : p \in Indexed(w)}
                        ELSE chunks
  /\ UNCHANGED <<media, pdfs, Counters>>

\* A process dies and comes back: its own counters are gone.
Restart(w) ==
  /\ job' = [job EXCEPT ![w] = NoJob] /\ local' = [local EXCEPT ![w] = 0]
  /\ ~Does(w, "idle") \/ local[w] # local'[w]
  /\ UNCHANGED <<shared, media, pdfs, chunks, granted, fallbacks, paid>>

EXNext == \E w \in Workers :
  \/ TakeMetered(w) \/ ConsumeShared(w) \/ ConsumeLocal(w)
  \/ CallAgain(w) \/ MediaEnds(w)
  \/ TakePdf(w) \/ RenderPage(w) \/ PageRead(w) \/ PageFails(w) \/ Collect(w)
  \/ Restart(w)

EXSpec == EXInit /\ [][EXNext]_exVars
-----------------------------------------------------------------------------
(* Properties.                                                             *)

\* In a day a user gets the limit, and the limit again from each process that had
\* to count for itself since it started; a file costs at most its retries
\* (multimodal/quota.py, the loops of the clients).
QuotaHolds ==
  granted <= Limit * (1 + fallbacks) /\ paid <= (MaxRetries + 1) * granted

\* A page never gets the text of another; a ready attachment has the text of every
\* page; a rebuild that was written lacks exactly the pages it has recorded as
\* skipped or as errors (document_processor.py:165, rag/pipeline.py:135-154).
PagesAreTold ==
  /\ \A c \in chunks : c.page = c.text
  /\ \A w \in Workers, p \in PageNumbers :
       /\ job[w].text[p] \in {0, p}
       /\ Does(w, "ready") /\ Use(w) = "attachment" => job[w].text[p] = p
       /\ Does(w, "ready") /\ Use(w) = "rebuild" =>
            (job[w].text[p] = 0 <=> job[w].state[p] \in {"intentionally_skipped", "error"})
=============================================================================
