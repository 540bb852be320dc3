---------------------------- MODULE KnowledgeBase ----------------------------
(***************************************************************************)
(* The knowledge base without the control plane of PostgreSQL: uploads and  *)
(* refreshes of one web process (webui_new/knowledge_base_service.py with   *)
(* no job_repository), kept apart by a lock and by the status of the job in *)
(* memory.  A refresh reads the directory twice: to load the documents, and *)
(* to write the manifest the library takes its index status from.           *)
(***************************************************************************)
EXTENDS Naturals, FiniteSets

CONSTANTS
  Uploads,   \* files posted by administrators
  Names,     \* their names
  Textless   \* the names whose documents give no chunk

ASSUME KnowledgeBaseAssumption == Textless \subseteq Names

VARIABLES
  upload,     \* where each upload is, and its name
  sources,    \* the files in the directory
  sourceLock, \* the upload that holds _source_lock
  refresh,    \* _job and its thread
  indexed,    \* the documents the active index has chunks of
  manifest    \* the documents of ingestion_manifest.json

kbVars == <<upload, sources, sourceLock, refresh, indexed, manifest>>

NoRefresh == [status |-> "idle", at |-> "none", loaded |-> {}, asked |-> {}]

KBTypeOK ==
  /\ upload \in [Uploads -> [at : {"new", "in", "created", "refused"}, name : Names]]
  /\ sources \subseteq Names /\ sourceLock \subseteq Uploads /\ Cardinality(sourceLock) <= 1
  /\ refresh \in [status : {"idle", "running", "success", "error"},
                  at : {"none", "starting", "loaded", "published", "listed"},
                  loaded : SUBSET Names,
                  asked : SUBSET Names]   \* ghost: the files there were at the request
  /\ indexed \subseteq Names /\ manifest \subseteq Names

KBInit ==
  /\ upload \in [Uploads -> [at : {"new"}, name : Names]]
  /\ sources = {} /\ sourceLock = {} /\ refresh = NoRefresh /\ indexed = {} /\ manifest = {}
-----------------------------------------------------------------------------
UploadIs(u, at) == upload' = [upload EXCEPT ![u].at = at]
RefreshAt(at) == refresh.status = "running" /\ refresh.at = at

\* A mutant of MayUpload: only the other uploads are waited for.
LockIsFree == sourceLock = {}
MayUpload == sourceLock = {} /\ refresh.status # "running"

UploadEnters(u) ==
  /\ upload[u].at = "new" /\ MayUpload
  /\ UploadIs(u, "in") /\ sourceLock' = {u}
  /\ UNCHANGED <<sources, refresh, indexed, manifest>>

\* A refresh runs, or the file is not one that may be uploaded.
UploadRefused(u) ==
  /\ upload[u].at = "new" /\ sourceLock = {} /\ UploadIs(u, "refused")
  /\ UNCHANGED <<sources, sourceLock, refresh, indexed, manifest>>

\* The link does not replace a file of that name.
UploadPublished(u) ==
  /\ upload[u].at = "in" /\ sourceLock' = {}
  /\ UploadIs(u, IF upload[u].name \in sources THEN "refused" ELSE "created")
  /\ sources' = sources \cup {upload[u].name}
  /\ UNCHANGED <<refresh, indexed, manifest>>

StartRefresh ==
  /\ sourceLock = {} /\ refresh.status # "running"
  /\ refresh' = [status |-> "running", at |-> "starting", loaded |-> {}, asked |-> sources]
  /\ UNCHANGED <<upload, sources, sourceLock, indexed, manifest>>

LoadSources ==
  /\ RefreshAt("starting") /\ refresh' = [refresh EXCEPT !.at = "loaded", !.loaded = sources]
  /\ UNCHANGED <<upload, sources, sourceLock, indexed, manifest>>

\* A rebuild without a chunk is an error.
PublishIndex ==
  /\ RefreshAt("loaded") /\ refresh.loaded \ Textless # {}
  /\ refresh' = [refresh EXCEPT !.at = "published"]
  /\ indexed' = refresh.loaded \ Textless
  /\ UNCHANGED <<upload, sources, sourceLock, manifest>>

\* Every file of the directory is listed, for a rebuild that succeeds has no errors.
WriteManifest ==
  /\ RefreshAt("published") /\ refresh' = [refresh EXCEPT !.at = "listed"] /\ manifest' = sources
  /\ UNCHANGED <<upload, sources, sourceLock, indexed>>

EndsAs(status) == refresh' = [refresh EXCEPT !.status = status, !.at = "none", !.loaded = {}]
RefreshSucceeds ==
  /\ RefreshAt("listed") /\ EndsAs("success")
  /\ UNCHANGED <<upload, sources, sourceLock, indexed, manifest>>

\* A document cannot be read, the index or the manifest cannot be written.
RefreshFails ==
  /\ refresh.status = "running" /\ refresh.at # "listed" /\ EndsAs("error")
  /\ UNCHANGED <<upload, sources, sourceLock, indexed, manifest>>

\* The process dies: its locks, its job and the thread of the refresh are gone.
ProcessRestarts ==
  /\ refresh # NoRefresh \/ sourceLock # {}
  /\ refresh' = NoRefresh /\ sourceLock' = {}
  /\ upload' = [u \in Uploads |-> IF upload[u].at = "in" THEN [upload[u] EXCEPT !.at = "refused"]
                                  ELSE upload[u]]
  /\ UNCHANGED <<sources, indexed, manifest>>

KBNext ==
  \/ \E u \in Uploads : UploadEnters(u) \/ UploadRefused(u) \/ UploadPublished(u)
  \/ StartRefresh \/ LoadSources \/ PublishIndex \/ WriteManifest
  \/ RefreshSucceeds \/ RefreshFails \/ ProcessRestarts

KBSpec == KBInit /\ [][KBNext]_kbVars
-----------------------------------------------------------------------------
(* Properties.                                                             *)

\* What the library shows as indexed can be found, but for a document without text;
\* a success covers every file there was when it was requested
\* (knowledge_base_service.py:79-85, 221-224, 272-278, 370-390).
ListedIsIndexed ==
  /\ manifest \subseteq indexed \cup Textless
  /\ refresh.status = "success" => refresh.asked \subseteq manifest
=============================================================================
