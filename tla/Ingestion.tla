----------------------------- MODULE Ingestion ------------------------------
(***************************************************************************)
(* The ingestion pipeline: a files row, the object the client uploads, the *)
(* chunks rows, and the three River jobs that turn the object into chunks: *)
(*                                                                         *)
(*   Process-RAG-File    arms embedding_status, reads the object, enqueues *)
(*                       one Generate-Chunks per chunk and then one        *)
(*   Generate-Chunks     embeds one chunk and inserts its row              *)
(*   Mark-File-Embedded  counts the rows and sets embedding_status         *)
(*                                                                         *)
(* Each job takes one step per call that reads or writes shared state, so  *)
(* jobs, retries, crashes and the HTTP handlers interleave between any two *)
(* of them.  The content of an object is a version v; what the chunker     *)
(* makes of it is abstracted to the number of its chunks, ChunkCount[v].   *)
(***************************************************************************)
EXTENDS JobQueue, FiniteSets

CONSTANTS
  Files,        \* file ids
  Versions,     \* contents an object can have
  ChunkCount,   \* how many chunks BuildChunks makes of a content
  MaxRequests   \* bound: calls of POST /files/{id}/rag that are modelled

ASSUME IngestionAssumption ==
  /\ NoVersion \notin Versions
  /\ ChunkCount \in [Versions -> Nat]
  /\ MaxRequests \in Nat

VARIABLES
  embedding,  \* files.embedding_status, "new" before and "deleted" after the row
  object,     \* the object under the file's s3_key: a version or NoVersion
  chunks,     \* the file's chunks rows, [index, ver] records
  jobs,       \* the River jobs that are available or running
  discarded,  \* the <<kind, file>> of the jobs River has given up on
  requests    \* ingestion requests made so far

vars == <<embedding, object, chunks, jobs, discarded, requests>>

EmbeddingStatus == {"pending", "processing", "completed"}

RowExists(f) == embedding[f] \in EmbeddingStatus

\* What BuildChunks makes of a content, as the rows Generate-Chunks stores.
ChunksOf(v) == [index : 0 .. ChunkCount[v] - 1, ver : {v}]

StoredIndexes(f) == {c.index : c \in chunks[f]}

-----------------------------------------------------------------------------
Kinds == {"Process-RAG-File", "Generate-Chunks", "Mark-File-Embedded"}

Steps == {"ready", "fetch", "emit", "set", "done"}

\* The steps a job of each kind goes through.
StepsOf(k) ==
  CASE k = "Process-RAG-File"   -> {"ready", "fetch", "emit", "done"}
    [] k = "Generate-Chunks"    -> {"ready", "done"}
    [] k = "Mark-File-Embedded" -> {"ready", "set", "done"}

\* The jobs that carry a content: a chunk job in its arguments, a
\* Process-RAG-File job once it has read the object.
CarriesContent(j) ==
  \/ j.kind = "Generate-Chunks"
  \/ j.kind = "Process-RAG-File" /\ j.pc \in {"emit", "done"}

IngestionJob ==
  {j \in [kind : Kinds, file : Files, ver : Versions \cup {NoVersion}, n : Nat,
          pc : Steps, attempt : 1 .. MaxAttempts] :
    /\ j.pc \in StepsOf(j.kind)
    /\ CarriesContent(j) => j.ver \in Versions}

\* The values the rows, the job table and the bounds can take.
TypeOK ==
  /\ embedding \in [Files -> EmbeddingStatus \cup {"new", "deleted"}]
  /\ object \in [Files -> Versions \cup {NoVersion}]
  /\ chunks \in [Files -> SUBSET [index : Nat, ver : Versions]]
  /\ IsABag(jobs)
  /\ JobSet(jobs) \subseteq IngestionJob
  /\ discarded \subseteq Kinds \X Files
  /\ requests \in 0 .. MaxRequests

Init ==
  /\ embedding = [f \in Files |-> "new"]
  /\ object = [f \in Files |-> NoVersion]
  /\ chunks = [f \in Files |-> {}]
  /\ jobs = EmptyBag
  /\ discarded = {}
  /\ requests = 0

-----------------------------------------------------------------------------
(* The HTTP side *)

\* POST /files/presign: the row is inserted with the default status.
GeneratePresignURL(f) ==
  /\ embedding[f] = "new"
  /\ embedding' = [embedding EXCEPT ![f] = "pending"]
  /\ UNCHANGED <<object, chunks, jobs, discarded, requests>>

\* The client PUTs the content to the presigned URL, once.  The URL outlives
\* the row, so a deleted row does not stop it.
PutObject(f) ==
  /\ embedding[f] # "new"
  /\ object[f] = NoVersion
  /\ \E v \in Versions : object' = [object EXCEPT ![f] = v]
  /\ UNCHANGED <<embedding, chunks, jobs, discarded, requests>>

\* POST /files/{id}/rag: the row must exist; nothing asks whether the object
\* does, or whether the file is being ingested already.
ProcessDocForEmbedding(f) ==
  /\ requests < MaxRequests
  /\ RowExists(f)
  /\ jobs' = Insert(jobs, Job("Process-RAG-File", f, NoVersion, 0))
  /\ requests' = requests + 1
  /\ UNCHANGED <<embedding, object, chunks, discarded>>

\* Faulty variant: no cascade to the chunks rows.
DeleteRow_NoCascade(f) ==
  /\ RowExists(f)
  /\ embedding' = [embedding EXCEPT ![f] = "deleted"]
  /\ UNCHANGED <<object, chunks, jobs, discarded, requests>>

\* FileRepository.Delete: the chunks rows go with the row (ON DELETE CASCADE).
DeleteRow(f) ==
  /\ RowExists(f)
  /\ embedding' = [embedding EXCEPT ![f] = "deleted"]
  /\ chunks' = [chunks EXCEPT ![f] = {}]
  /\ UNCHANGED <<object, jobs, discarded, requests>>

\* The Delete-File-From-Storage job that file.Service.Delete enqueues after
\* the row is gone; it runs at some later time, if at all.
DeleteObject(f) ==
  /\ embedding[f] = "deleted"
  /\ object[f] # NoVersion
  /\ object' = [object EXCEPT ![f] = NoVersion]
  /\ UNCHANGED <<embedding, chunks, jobs, discarded, requests>>

-----------------------------------------------------------------------------
(* The jobs *)

\* The attempt at j ends without success: Work returned an error, or the
\* process died before River recorded the result.
AttemptFails(j) ==
  /\ jobs' = AfterFailure(jobs, j)
  /\ discarded' = IF LastAttempt(j) THEN discarded \cup {<<j.kind, j.file>>}
                                    ELSE discarded

\* An outside call of the step j is at fails, or the worker process crashes
\* there: nothing of the step happened.  At "done" it is the crash between
\* the last effect of Work and River's record of it.
JobFails(j) ==
  /\ AttemptFails(j)
  /\ UNCHANGED <<embedding, object, chunks, requests>>

\* River records the success of j.
JobCompletes(j) ==
  /\ j.pc = "done"
  /\ jobs' = Remove(jobs, j)
  /\ UNCHANGED <<embedding, object, chunks, discarded, requests>>

JobMoves(j, k) == jobs' = Advance(jobs, j, k)

\* file.Service.SetEmbeddingStatus: the update of a missing row is an error.
SetEmbeddingStatus(f, status) ==
  /\ RowExists(f)
  /\ embedding' = [embedding EXCEPT ![f] = status]

\* ProcessDocWorker.Work arms the flag.
ArmEmbedding(j) ==
  /\ j.kind = "Process-RAG-File" /\ j.pc = "ready"
  /\ \/ /\ SetEmbeddingStatus(j.file, "processing")
        /\ JobMoves(j, [j EXCEPT !.pc = "fetch"])
        /\ UNCHANGED discarded
     \/ /\ ~RowExists(j.file)
        /\ AttemptFails(j)
        /\ UNCHANGED embedding
  /\ UNCHANGED <<object, chunks, requests>>

\* ProcessDocWorker.Work reads the object and builds the chunks of what it read.
FetchSource(j) ==
  /\ j.kind = "Process-RAG-File" /\ j.pc = "fetch"
  /\ \/ /\ object[j.file] # NoVersion
        /\ JobMoves(j, [j EXCEPT !.pc = "emit", !.ver = object[j.file]])
        /\ UNCHANGED discarded
     \/ /\ object[j.file] = NoVersion
        /\ AttemptFails(j)
  /\ UNCHANGED <<embedding, object, chunks, requests>>

\* The loop of ProcessDocWorker.Work: one Generate-Chunks job per chunk.
EmitChunk(j) ==
  /\ j.kind = "Process-RAG-File" /\ j.pc = "emit"
  /\ j.n < ChunkCount[j.ver]
  /\ jobs' = Insert(Advance(jobs, j, [j EXCEPT !.n = @ + 1]),
                    Job("Generate-Chunks", j.file, j.ver, j.n))
  /\ UNCHANGED <<embedding, object, chunks, discarded, requests>>

\* Faulty variant: a document without chunks gets no completion job.
EmitMark_SkipsEmpty(j) ==
  /\ j.kind = "Process-RAG-File" /\ j.pc = "emit"
  /\ j.n = ChunkCount[j.ver]
  /\ LET done == Advance(jobs, j, [j EXCEPT !.pc = "done"]) IN
     jobs' = IF j.n = 0 THEN done
             ELSE Insert(done, Job("Mark-File-Embedded", j.file, NoVersion, j.n))
  /\ UNCHANGED <<embedding, object, chunks, discarded, requests>>

\* After the loop: the completion job, carrying the number of chunks only.
EmitMark(j) ==
  /\ j.kind = "Process-RAG-File" /\ j.pc = "emit"
  /\ j.n = ChunkCount[j.ver]
  /\ jobs' = Insert(Advance(jobs, j, [j EXCEPT !.pc = "done"]),
                    Job("Mark-File-Embedded", j.file, NoVersion, j.n))
  /\ UNCHANGED <<embedding, object, chunks, discarded, requests>>

\* Faulty variant: no foreign key from the chunks to the files row.
InsertAllowed_NoForeignKey(f, i) == i \notin StoredIndexes(f)

\* StoreBatch is a plain INSERT: the foreign key rejects a deleted row and
\* UNIQUE (file_id, chunk_index) an index that is stored already.
InsertAllowed(f, i) == RowExists(f) /\ i \notin StoredIndexes(f)

\* ChunkGeneratorWorker.Work: the embedding is computed before the insert and
\* reads no shared state, so the job is one step.
StoreChunk(j) ==
  /\ j.kind = "Generate-Chunks" /\ j.pc = "ready"
  /\ \/ /\ InsertAllowed(j.file, j.n)
        /\ chunks' = [chunks EXCEPT ![j.file] = @ \cup {[index |-> j.n, ver |-> j.ver]}]
        /\ JobMoves(j, [j EXCEPT !.pc = "done"])
        /\ UNCHANGED discarded
     \/ /\ ~InsertAllowed(j.file, j.n)
        /\ AttemptFails(j)
        /\ UNCHANGED chunks
  /\ UNCHANGED <<embedding, object, requests>>

\* Faulty variant: the comparison is off by one.
AllCounted_OffByOne(j) == Cardinality(chunks[j.file]) + 1 >= j.n

AllCounted(j) == Cardinality(chunks[j.file]) >= j.n

\* MarkFileEmbeddedWorker.Work counts the rows; too few is an error.
CountChunks(j) ==
  /\ j.kind = "Mark-File-Embedded" /\ j.pc = "ready"
  /\ \/ /\ AllCounted(j)
        /\ JobMoves(j, [j EXCEPT !.pc = "set"])
        /\ UNCHANGED discarded
     \/ /\ ~AllCounted(j)
        /\ AttemptFails(j)
  /\ UNCHANGED <<embedding, object, chunks, requests>>

\* MarkFileEmbeddedWorker.Work sets the flag, in a statement of its own.
SetCompleted(j) ==
  /\ j.kind = "Mark-File-Embedded" /\ j.pc = "set"
  /\ \/ /\ SetEmbeddingStatus(j.file, "completed")
        /\ JobMoves(j, [j EXCEPT !.pc = "done"])
        /\ UNCHANGED discarded
     \/ /\ ~RowExists(j.file)
        /\ AttemptFails(j)
        /\ UNCHANGED embedding
  /\ UNCHANGED <<object, chunks, requests>>

WorkStep(j) ==
  \/ ArmEmbedding(j) \/ FetchSource(j) \/ EmitChunk(j) \/ EmitMark(j)
  \/ StoreChunk(j)
  \/ CountChunks(j) \/ SetCompleted(j)
  \/ JobCompletes(j)

Request(f) ==
  \/ GeneratePresignURL(f) \/ PutObject(f) \/ ProcessDocForEmbedding(f)
  \/ DeleteRow(f) \/ DeleteObject(f)

Next ==
  \/ \E f \in Files : Request(f)
  \/ \E j \in JobSet(jobs) : WorkStep(j) \/ JobFails(j)

\* River fetches an available job whenever a worker is free, so some job step
\* happens as long as one can; nothing makes a client act.
Fairness == WF_vars(\E j \in JobSet(jobs) : WorkStep(j))

Spec == Init /\ [][Next]_vars

FairSpec == Spec /\ Fairness

-----------------------------------------------------------------------------
(* Properties *)

AllStored(f) ==
  /\ object[f] \in Versions
  /\ chunks[f] = ChunksOf(object[f])

\* MarkFileEmbeddedWorker: a file whose flag says completed has exactly the
\* chunks of its object, whatever duplicates, retries and crashes there were.
CompletedMeansStored ==
  \A f \in Files : embedding[f] = "completed" => AllStored(f)

\* The chunks a search can return belong to a files row and are chunks of its
\* object, whatever was deleted or ingested twice meanwhile.
ChunksCoherent ==
  \A f \in Files : chunks[f] # {} =>
    /\ RowExists(f)
    /\ chunks[f] \subseteq ChunksOf(object[f])

Contract == INSTANCE IngestionContract

\* The jobs together implement the contract with the readers of the tables:
\* every step of a handler or a job is one of its steps or changes nothing
\* a reader sees.
ImplementsContract == Contract!Spec

Idle(f) == \A j \in JobSet(jobs) : j.file # f

GaveUp(f) == \E k \in Kinds : <<k, f>> \in discarded

\* A file is not left in processing for ever: when no job of it is left and
\* River has discarded none, the flag is completed again.
NeverStuck ==
  \A f \in Files :
    Idle(f) /\ ~GaveUp(f) => embedding[f] # "processing"

\* Every armed file is completed, or deleted, or had a job discarded, however
\* the jobs are interleaved and whichever attempts fail.
ArmedIsResolved ==
  \A f \in Files :
    embedding[f] = "processing" ~>
      embedding[f] \in {"completed", "deleted"} \/ GaveUp(f)

-----------------------------------------------------------------------------
(* The inductive invariant behind them *)

\* What a job carries agrees with the one content of its file, unless the row
\* is gone and the job can have no effect any more.
JobAgrees(j) ==
  LET v == object[j.file] IN
  \/ embedding[j.file] = "deleted"
  \/ /\ RowExists(j.file)
     /\ j.kind = "Process-RAG-File" =>
          IF j.pc \in {"emit", "done"}
          THEN /\ v \in Versions /\ j.ver = v
               /\ j.n <= ChunkCount[v]
          ELSE j.n = 0
     /\ j.kind = "Generate-Chunks" =>
          v \in Versions /\ j.ver = v /\ j.n < ChunkCount[v]
     /\ j.kind = "Mark-File-Embedded" =>
          /\ v \in Versions /\ j.n = ChunkCount[v]
          /\ j.pc # "ready" => AllStored(j.file)

\* A job that will still set the flag, or be discarded.
WillResolve(j, f) ==
  /\ j.file = f /\ j.pc # "done"
  /\ j.kind \in {"Process-RAG-File", "Mark-File-Embedded"}

ArmedHasJob ==
  \A f \in Files :
    embedding[f] = "processing" =>
      GaveUp(f) \/ \E j \in JobSet(jobs) : WillResolve(j, f)

\* The inductive invariant: jobs agree with the content of their file, and an
\* armed file has a job left that resolves it.
IngestionInv ==
  /\ \A j \in JobSet(jobs) : JobAgrees(j)
  /\ CompletedMeansStored
  /\ ChunksCoherent
  /\ ArmedHasJob
=============================================================================
