---------------------------- MODULE VectorIndex ----------------------------
(***************************************************************************)
(* The collection of rag/postgres_vector_store.py: ingestions that publish  *)
(* a new version or add documents to the active one, and the lexical half   *)
(* of a search, on a BM25 index that the threads of a process share.        *)
(* Writes hold the advisory lock of the collection for a transaction; the   *)
(* embeddings are computed between two of them.  RefreshJobs has the jobs   *)
(* that run a rebuild; here are the rows.                                   *)
(***************************************************************************)
EXTENDS Naturals, FiniteSets, Sequences, SequencesExt

CONSTANTS
  Chunks,      \* records [doc, ver, id, text] the documents may be cut into
  Ingests, Searches, \* threads
  Fingerprint,      \* the fingerprint of the configuration of each ingestion
  Menu,        \* bound: what the files at hand may be cut into
  MaxBuilds,   \* bound: how many versions are published
  MaxCommits,  \* bound: how many ingestions commit
  MaxTries,    \* embedding_max_retries + 1
  CacheSize    \* embedding_cache_size, in batches

ASSUME VectorIndexAssumption ==
  /\ MaxBuilds \in Nat /\ MaxCommits \in Nat /\ MaxTries \in Nat \ {0} /\ CacheSize \in Nat
  /\ Menu \subseteq (SUBSET Chunks) \ {{}}
  /\ \A c, d \in Chunks : <<c.doc, c.ver, c.id>> = <<d.doc, d.ver, d.id>> => c = d

VARIABLES
  active,  \* rag_collections: the active version, 0 before the first
  stamp,   \* ... and updated_at, a number for each commit
  print,   \* ... and index_fingerprint
  rows,    \* rag_chunks of each version
  count,   \* rag_index_versions.chunk_count
  memo,    \* the batches whose embeddings are cached, least recently used first
  ingest,  \* the ingestions
  sparse,  \* _SPARSE_CACHE: a revision and the rows indexed under it
  search,  \* the searches
  last     \* ghost: the chunks of the last ingestion that committed

viVars == <<active, stamp, print, rows, count, memo, ingest, sparse, search, last>>

Builds == 1..MaxBuilds
Active == IF active = 0 THEN {} ELSE rows[active]
Revision == <<active, stamp>>
NoRevision == <<0, 0>>

VITypeOK ==
  /\ active \in 0..MaxBuilds /\ stamp \in 0..MaxCommits
  /\ rows \in [Builds -> SUBSET Chunks] /\ count \in [Builds -> Nat]
  /\ memo \in Seq(SUBSET Chunks) /\ Len(memo) <= CacheSize
  /\ \A i \in Ingests :
       /\ ingest[i].at \in {"idle", "loaded", "embedding", "ready"} /\ ingest[i].rebuild \in BOOLEAN
       /\ ingest[i].chunks \subseteq Chunks /\ ingest[i].build \in 0..MaxBuilds
       /\ ingest[i].tries \in 0..MaxTries
  /\ sparse.rows \subseteq Chunks /\ last \subseteq Chunks
  /\ \A s \in Searches : search[s].at \in {"idle", "waiting", "building"}

Idle == [at |-> "idle", rebuild |-> FALSE, chunks |-> {}, build |-> 0, tries |-> 0]
VIInit ==
  /\ active = 0 /\ stamp = 0 /\ print = "none"
  /\ rows = [b \in Builds |-> {}] /\ count = [b \in Builds |-> 0]
  /\ memo = <<>>
  /\ ingest = [i \in Ingests |-> Idle]
  /\ sparse = [revision |-> NoRevision, rows |-> {}]
  /\ search = [s \in Searches |-> [at |-> "idle", revision |-> NoRevision]]
  /\ last = {}
-----------------------------------------------------------------------------
(* Ingestions (RAGPipeline.ingest).                                        *)

At(i, at) == ingest[i].at = at
Step(i, entry) == ingest' = [ingest EXCEPT ![i] = entry]
Mine(i) == ingest[i].chunks
KeepIndex == UNCHANGED <<active, stamp, print, rows, count, last>>
KeepReaders == UNCHANGED <<sparse, search>>

\* One version of each document.  A rebuild with errors writes nothing; an
\* incremental one writes the pages that could be read.
Versions(C) == {<<c.doc, c.ver>> : c \in C}
OneVersionEach(C) == \A c, d \in C : c.doc = d.doc => c.ver = d.ver
WholeDocuments(C) == \A c \in Chunks : <<c.doc, c.ver>> \in Versions(C) => c \in C
Load(i) ==
  /\ At(i, "idle") /\ stamp < MaxCommits
  /\ \E C \in Menu, rebuild \in BOOLEAN :
       /\ OneVersionEach(C) /\ (rebuild => WholeDocuments(C))
       /\ Step(i, [Idle EXCEPT !.at = IF rebuild THEN "embedding" ELSE "loaded",
                               !.rebuild = rebuild, !.chunks = C])
  /\ KeepIndex /\ KeepReaders /\ UNCHANGED memo

\* The first transaction of add_chunks.
CheckActive(i) ==
  /\ At(i, "loaded")
  /\ IF active = 0
       THEN Step(i, [ingest[i] EXCEPT !.at = "embedding", !.rebuild = TRUE])
       ELSE IF print # Fingerprint[i] THEN Step(i, Idle)
       ELSE Step(i, [ingest[i] EXCEPT !.at = "embedding", !.build = active])
  /\ KeepIndex /\ KeepReaders /\ UNCHANGED memo

\* SiliconFlowEmbedder._cached_batch; the chunks make one batch.
\* Everything is a mutant of Remembered.
Recent(C) == Append(SelectSeq(memo, LAMBDA b : b # C), C)
Everything(C) == Recent(C)
Remembered(C) ==
  LET m == Recent(C) IN IF Len(m) > CacheSize THEN SubSeq(m, Len(m) - CacheSize + 1, Len(m)) ELSE m
EmbedCached(i) ==
  /\ At(i, "embedding") /\ Contains(memo, Mine(i)) /\ memo' = Recent(Mine(i))
  /\ Step(i, [ingest[i] EXCEPT !.at = "ready"])
  /\ KeepIndex /\ KeepReaders
Embed(i) ==
  /\ At(i, "embedding") /\ (~Contains(memo, Mine(i)) \/ ingest[i].tries > 0)
  /\ memo' = Remembered(Mine(i))
  /\ Step(i, [ingest[i] EXCEPT !.at = "ready"])
  /\ KeepIndex /\ KeepReaders
EmbedFails(i) ==
  /\ At(i, "embedding") /\ (~Contains(memo, Mine(i)) \/ ingest[i].tries > 0)
  /\ \/ ingest[i].tries + 1 < MaxTries /\ Step(i, [ingest[i] EXCEPT !.tries = @ + 1])
     \/ Step(i, Idle)
  /\ KeepIndex /\ KeepReaders /\ UNCHANGED memo

\* ON CONFLICT DO NOTHING: of a document the rows differ in their text.
Same(c, d) == <<c.doc, c.ver, c.text>> = <<d.doc, d.ver, d.text>>
Inserted(old, new) ==
  {R \in SUBSET (old \cup new) :
     /\ old \subseteq R
     /\ \A c \in new : \E d \in R : Same(c, d)
     /\ \A c \in R \ old, d \in R : Same(c, d) => c = d}

\* replace_chunks: one transaction, given up when a chunk was not inserted.
Staged(C) == \E R \in Inserted({}, C) : Cardinality(R) = Cardinality(C)
Publish(i) ==
  /\ At(i, "ready") /\ stamp < MaxCommits /\ ingest[i].rebuild /\ Step(i, Idle)
  /\ IF ~Staged(Mine(i)) THEN KeepIndex
     ELSE \E b \in Builds :
            /\ \A k \in Builds : count[k] = 0 <=> k >= b
            /\ rows' = [rows EXCEPT ![b] = Mine(i)]
            /\ count' = [count EXCEPT ![b] = Cardinality(Mine(i))]
            /\ active' = b /\ stamp' = stamp + 1 /\ print' = Fingerprint[i] /\ last' = Mine(i)
  /\ KeepReaders /\ UNCHANGED memo

\* The rows of other versions of the same documents go.
Replaced(R, C) == {r \in R : \E c \in C : c.doc = r.doc /\ <<r.doc, r.ver>> \notin Versions(C)}

\* The second transaction of add_chunks.
Unmoved(i) == active = ingest[i].build
Insert(i) ==
  /\ At(i, "ready") /\ stamp < MaxCommits /\ ~ingest[i].rebuild /\ Step(i, Idle)
  /\ IF ~Unmoved(i) THEN KeepIndex
     ELSE LET b == ingest[i].build
          IN  \E R \in Inserted(rows[b], Mine(i)) :
                LET kept == R \ Replaced(R, Mine(i))
                IN  /\ rows' = [rows EXCEPT ![b] = kept]
                    /\ count' = [count EXCEPT ![b] = Cardinality(kept)]
                    /\ stamp' = stamp + 1 /\ last' = Mine(i) /\ UNCHANGED <<active, print>>
  /\ KeepReaders /\ UNCHANGED memo

\* The process of an ingestion dies; its transaction is rolled back.
IngestDies(i) ==
  /\ ~At(i, "idle") /\ Step(i, Idle) /\ KeepIndex /\ KeepReaders /\ UNCHANGED memo
-----------------------------------------------------------------------------
(* Searches (sparse_search).                                               *)

Looking(s, at) == search[s].at = at
Move(s, entry) == search' = [search EXCEPT ![s] = entry]
Leaves(s) == Move(s, [at |-> "idle", revision |-> NoRevision])
KeepWriters == UNCHANGED <<active, stamp, print, rows, count, memo, ingest, last>>

\* Nothing is searched before the first publication.
ReadRevision(s) ==
  /\ Looking(s, "idle") /\ active # 0 /\ Move(s, [at |-> "waiting", revision |-> Revision])
  /\ KeepWriters /\ UNCHANGED sparse

\* _SPARSE_LOCK is held while the rows are fetched and indexed.
Unlocked == \A s \in Searches : ~Looking(s, "building")
IsSameVersion(s) == sparse.revision[1] = search[s].revision[1]
IsCached(s) == sparse.revision = search[s].revision
UseSparse(s) ==
  /\ Looking(s, "waiting") /\ Unlocked /\ IsCached(s) /\ Leaves(s)
  /\ KeepWriters /\ UNCHANGED sparse
LockSparse(s) ==
  /\ Looking(s, "waiting") /\ Unlocked /\ ~IsCached(s)
  /\ Move(s, [search[s] EXCEPT !.at = "building"])
  /\ KeepWriters /\ UNCHANGED sparse
BuildSparse(s) ==
  /\ Looking(s, "building") /\ Leaves(s)
  /\ \/ sparse' = [revision |-> search[s].revision, rows |-> rows[search[s].revision[1]]]
     \/ UNCHANGED sparse
  /\ KeepWriters

VINext ==
  \/ \E i \in Ingests :
       \/ Load(i) \/ CheckActive(i) \/ EmbedCached(i) \/ Embed(i) \/ EmbedFails(i)
       \/ Publish(i) \/ Insert(i) \/ IngestDies(i)
  \/ \E s \in Searches :
       ReadRevision(s) \/ UseSparse(s) \/ LockSparse(s) \/ BuildSparse(s)

VISpec == VIInit /\ [][VINext]_viVars
-----------------------------------------------------------------------------
(* Properties.                                                             *)

\* A search that starts after the last commit answers from exactly the rows of the
\* active version, although the BM25 index was read in another transaction than
\* its revision and threads store older ones over newer ones (sparse_search).
SparseIsCurrent ==
  [][\A s \in Searches :
       /\ search[s].at # "idle" /\ search'[s].at = "idle" /\ search[s].revision = Revision
       /\ Looking(s, "waiting") \/ sparse' # sparse
       => sparse'.rows = Active]_viVars

\* What an ingestion reported as written is there to be found until the next
\* one: its documents have a row for each text in the active version, no row of
\* another version of them is left, and the count of the version is true,
\* although embeddings were computed while others published (add_chunks).
IngestedIsSearchable ==
  /\ \A c \in last : \E r \in Active : Same(c, r)
  /\ OneVersionEach(Active)
  /\ active # 0 => count[active] = Cardinality(Active)

\* What was ingested is searchable, and searched (postgres_vector_store.py:241-470).
IndexIsServed == []IngestedIsSearchable /\ SparseIsCurrent
=============================================================================
