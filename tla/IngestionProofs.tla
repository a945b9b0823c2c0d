-------------------------- MODULE IngestionProofs ---------------------------
(***************************************************************************)
(* The safety properties of Ingestion, for every set of files and contents *)
(* and every bound on attempts and requests.                               *)
(***************************************************************************)
EXTENDS Ingestion, JobQueueProofs, FiniteSetTheorems

-----------------------------------------------------------------------------
(* The chunks of a content *)

\* BuildChunks numbers the chunks of a content 0, 1, ..., so there are as
\* many of them as ChunkCount says.
LEMMA ChunksOfCardinality ==
  ASSUME NEW v \in Versions
  PROVE  IsFiniteSet(ChunksOf(v)) /\ Cardinality(ChunksOf(v)) = ChunkCount[v]
<1> DEFINE I == 0 .. ChunkCount[v] - 1
           row == [i \in I |-> [index |-> i, ver |-> v]]
<1>1. ChunkCount[v] \in Nat
  BY IngestionAssumption
<1>2. IsFiniteSet(I) /\ Cardinality(I) = ChunkCount[v]
  BY <1>1, FS_Interval
<1>3. row \in Bijection(I, ChunksOf(v))
  <2>1. row \in [I -> ChunksOf(v)]
    BY DEF ChunksOf
  <2>2. \A a, b \in I : row[a] = row[b] => a = b
    OBVIOUS
  <2>3. \A c \in ChunksOf(v) : \E i \in I : row[i] = c
    BY DEF ChunksOf
  <2>. HIDE DEF I, row
  <2>4. row \in Injection(I, ChunksOf(v))
    BY <2>1, <2>2 DEF Injection, IsInjective
  <2>5. row \in Surjection(I, ChunksOf(v))
    BY <2>1, <2>3 DEF Surjection
  <2>. QED  BY <2>4, <2>5 DEF Bijection
<1>. QED  BY <1>2, <1>3, FS_Bijection DEF ExistsBijection

\* Counting rows is enough: chunk rows of the right content that are as many
\* as its chunks are all of its chunks.
LEMMA CountedMeansAll ==
  ASSUME NEW v \in Versions, NEW S \in SUBSET ChunksOf(v),
         Cardinality(S) >= ChunkCount[v]
  PROVE  S = ChunksOf(v)
<1>1. IsFiniteSet(ChunksOf(v)) /\ Cardinality(ChunksOf(v)) = ChunkCount[v]
  BY ChunksOfCardinality
<1>2. ChunkCount[v] \in Nat
  BY IngestionAssumption
<1>. QED  BY <1>1, <1>2, FS_Subset, FS_CardinalityType

-----------------------------------------------------------------------------
(* Attempts *)

\* What a job looks like when it is scheduled again: from the beginning of
\* Work, with the arguments it was inserted with.
LEMMA RescheduledFields ==
  ASSUME NEW j \in IngestionJob, ~LastAttempt(j)
  PROVE  /\ Rescheduled(j) \in IngestionJob
         /\ Rescheduled(j).kind = j.kind /\ Rescheduled(j).file = j.file
         /\ Rescheduled(j).pc = "ready"
         /\ j.kind = "Process-RAG-File" => Rescheduled(j).n = 0
         /\ j.kind # "Process-RAG-File" =>
              Rescheduled(j).n = j.n /\ Rescheduled(j).ver = j.ver
<1>1. /\ j.kind \in Kinds /\ j.file \in Files /\ j.n \in Nat
      /\ j.ver \in Versions \cup {NoVersion} /\ j.attempt \in 1 .. MaxAttempts
      /\ CarriesContent(j) => j.ver \in Versions
  BY DEF IngestionJob
<1>2. j.attempt + 1 \in 1 .. MaxAttempts
  BY <1>1, MaxAttemptsAssumption DEF LastAttempt
<1>3. j.kind \notin {"Index-FAQ", "Generate-Thumbnail", "Insert-Audit-Log"}
  BY <1>1 DEF Kinds
<1>4. CASE j.kind = "Process-RAG-File"
  <2>1. Rescheduled(j) = [kind |-> j.kind, file |-> j.file, ver |-> NoVersion,
                          n |-> 0, pc |-> "ready", attempt |-> j.attempt + 1]
    BY <1>4 DEF Rescheduled, Job
  <2>. QED  BY <2>1, <1>1, <1>2, <1>4 DEF IngestionJob, Steps, StepsOf, CarriesContent
<1>5. CASE j.kind # "Process-RAG-File"
  <2>1. Rescheduled(j) = [kind |-> j.kind, file |-> j.file, ver |-> j.ver,
                          n |-> j.n, pc |-> "ready", attempt |-> j.attempt + 1]
    BY <1>3, <1>5 DEF Rescheduled, Job
  <2>2. j.kind \in {"Generate-Chunks", "Mark-File-Embedded"}
    BY <1>1, <1>5 DEF Kinds
  <2>. QED  BY <2>1, <2>2, <1>1, <1>2, <1>5
            DEF IngestionJob, Steps, StepsOf, CarriesContent
<1>. QED  BY <1>4, <1>5

\* A failed attempt leaves the other jobs alone, and its job is either ready
\* again or discarded.
LEMMA FailedAttempt ==
  ASSUME TypeOK, NEW j \in JobSet(jobs), AttemptFails(j)
  PROVE  /\ IsABag(jobs')
         /\ JobSet(jobs) \ {j} \subseteq JobSet(jobs')
         /\ discarded \subseteq discarded' /\ discarded' \subseteq Kinds \X Files
         /\ \/ /\ JobSet(jobs') \subseteq JobSet(jobs)
               /\ <<j.kind, j.file>> \in discarded'
            \/ /\ JobSet(jobs') \subseteq JobSet(jobs) \cup {Rescheduled(j)}
               /\ Rescheduled(j) \in JobSet(jobs')
               /\ ~LastAttempt(j)
<1>1. IsABag(jobs) /\ j \in IngestionJob /\ discarded \subseteq Kinds \X Files
  BY DEF TypeOK
<1>2. j.kind \in Kinds /\ j.file \in Files
  BY <1>1 DEF IngestionJob
<1>3. CASE LastAttempt(j)
  BY <1>1, <1>2, <1>3, FailureJobs DEF AttemptFails
<1>4. CASE ~LastAttempt(j)
  BY <1>1, <1>2, <1>4, FailureJobs DEF AttemptFails
<1>. QED  BY <1>3, <1>4

\* A job as an Enqueue method inserts it.
LEMMA NewJob ==
  ASSUME NEW k \in Kinds, NEW f \in Files, NEW v \in Versions \cup {NoVersion},
         NEW n \in Nat, k = "Generate-Chunks" => v \in Versions
  PROVE  /\ Job(k, f, v, n) \in IngestionJob
         /\ Job(k, f, v, n).kind = k /\ Job(k, f, v, n).file = f
         /\ Job(k, f, v, n).ver = v /\ Job(k, f, v, n).n = n
         /\ Job(k, f, v, n).pc = "ready"
<1>1. 1 \in 1 .. MaxAttempts
  BY MaxAttemptsAssumption
<1>. QED  BY <1>1 DEF Job, Kinds, IngestionJob, Steps, StepsOf, CarriesContent

-----------------------------------------------------------------------------
(* Types *)

LEMMA TypeInit == Init => TypeOK
<1> SUFFICES ASSUME Init  PROVE TypeOK
  OBVIOUS
<1>1. IsABag(jobs) /\ JobSet(jobs) = {}
  BY EmptyJobs DEF Init
<1>2. requests \in 0 .. MaxRequests
  BY IngestionAssumption DEF Init
<1>. QED  BY <1>1, <1>2 DEF Init, TypeOK, EmbeddingStatus

LEMMA TypeStep == TypeOK /\ [Next]_vars => TypeOK'
<1> SUFFICES ASSUME TypeOK, [Next]_vars  PROVE TypeOK'
  OBVIOUS
<1>0. /\ embedding \in [Files -> EmbeddingStatus \cup {"new", "deleted"}]
      /\ object \in [Files -> Versions \cup {NoVersion}]
      /\ chunks \in [Files -> SUBSET [index : Nat, ver : Versions]]
      /\ IsABag(jobs) /\ JobSet(jobs) \subseteq IngestionJob
      /\ discarded \subseteq Kinds \X Files
      /\ requests \in 0 .. MaxRequests
  BY DEF TypeOK
<1>1. CASE UNCHANGED vars
  BY <1>1 DEF vars, TypeOK
<1>2. ASSUME NEW f \in Files, Request(f)  PROVE TypeOK'
  <2>1. CASE GeneratePresignURL(f)
    BY <1>0, <2>1 DEF GeneratePresignURL, TypeOK, EmbeddingStatus
  <2>2. CASE PutObject(f)
    BY <1>0, <2>2 DEF PutObject, TypeOK
  <2>3. CASE ProcessDocForEmbedding(f)
    <3> DEFINE k == Job("Process-RAG-File", f, NoVersion, 0)
    <3>1. k \in IngestionJob
      BY NewJob DEF Kinds
    <3> HIDE DEF k
    <3>2. IsABag(jobs') /\ JobSet(jobs') = JobSet(jobs) \cup {k}
      BY <1>0, <2>3, InsertJobs DEF ProcessDocForEmbedding, k
    <3>3. requests' \in 0 .. MaxRequests
      BY <1>0, <2>3, IngestionAssumption DEF ProcessDocForEmbedding
    <3>. QED  BY <1>0, <2>3, <3>1, <3>2, <3>3 DEF ProcessDocForEmbedding, TypeOK
  <2>4. CASE DeleteRow(f)
    BY <1>0, <2>4 DEF DeleteRow, TypeOK
  <2>5. CASE DeleteObject(f)
    BY <1>0, <2>5 DEF DeleteObject, TypeOK
  <2>. QED  BY <1>2, <2>1, <2>2, <2>3, <2>4, <2>5 DEF Request
<1>3. ASSUME NEW j \in JobSet(jobs), WorkStep(j) \/ JobFails(j)  PROVE TypeOK'
  <2>0. /\ j \in IngestionJob /\ j.kind \in Kinds /\ j.file \in Files
        /\ j.n \in Nat /\ j.ver \in Versions \cup {NoVersion} /\ j.pc \in Steps
        /\ CarriesContent(j) => j.ver \in Versions
    BY <1>0 DEF IngestionJob
  <2>1. ASSUME AttemptFails(j)
        PROVE  /\ IsABag(jobs') /\ JobSet(jobs') \subseteq IngestionJob
               /\ discarded' \subseteq Kinds \X Files
    BY <1>0, <2>0, <2>1, FailedAttempt, RescheduledFields
  <2>2. ASSUME NEW k \in IngestionJob, jobs' = Advance(jobs, j, k)
        PROVE  IsABag(jobs') /\ JobSet(jobs') \subseteq IngestionJob
    BY <1>0, <2>2, AdvanceJobs
  <2>3. ASSUME NEW k \in IngestionJob, NEW l \in IngestionJob,
               jobs' = Insert(Advance(jobs, j, k), l)
        PROVE  IsABag(jobs') /\ JobSet(jobs') \subseteq IngestionJob
    <3>1. /\ IsABag(Advance(jobs, j, k))
          /\ JobSet(Advance(jobs, j, k)) \subseteq IngestionJob
      BY <1>0, AdvanceJobs
    <3>. QED  BY <2>3, <3>1, InsertJobs
  <2>4. \A s \in StepsOf(j.kind) :
           (CarriesContent([j EXCEPT !.pc = s]) => j.ver \in Versions)
             => [j EXCEPT !.pc = s] \in IngestionJob
    BY <1>0, <2>0 DEF IngestionJob, Steps, StepsOf, Kinds
  <2>5. CASE ArmEmbedding(j)
    <3>1. [j EXCEPT !.pc = "fetch"] \in IngestionJob
      BY <2>4, <2>5 DEF ArmEmbedding, SetEmbeddingStatus, StepsOf, CarriesContent
    <3>2. CASE RowExists(j.file)
      BY <1>0, <2>0, <2>2, <2>5, <3>1, <3>2
      DEF ArmEmbedding, SetEmbeddingStatus, JobMoves, TypeOK, EmbeddingStatus
    <3>3. CASE ~RowExists(j.file)
      BY <1>0, <2>1, <2>5, <3>3 DEF ArmEmbedding, SetEmbeddingStatus, TypeOK
    <3>. QED  BY <3>2, <3>3
  <2>6. CASE FetchSource(j)
    <3>2. CASE object[j.file] # NoVersion
      <4>1. [j EXCEPT !.pc = "emit", !.ver = object[j.file]] \in IngestionJob
        BY <1>0, <2>0, <2>6, <3>2 DEF FetchSource, IngestionJob, Steps, StepsOf
      <4>. QED  BY <1>0, <2>2, <2>6, <4>1, <3>2 DEF FetchSource, JobMoves, TypeOK
    <3>3. CASE object[j.file] = NoVersion
      BY <1>0, <2>1, <2>6, <3>3 DEF FetchSource, TypeOK
    <3>. QED  BY <3>2, <3>3
  <2>7. CASE EmitChunk(j)
    <3>1. [j EXCEPT !.n = @ + 1] \in IngestionJob
      BY <1>0, <2>0 DEF IngestionJob, CarriesContent
    <3>2. Job("Generate-Chunks", j.file, j.ver, j.n) \in IngestionJob
      BY <2>0, <2>7, NewJob DEF EmitChunk, CarriesContent, Kinds
    <3>. QED  BY <1>0, <2>3, <2>7, <3>1, <3>2 DEF EmitChunk, TypeOK
  <2>8. CASE EmitMark(j)
    <3>1. [j EXCEPT !.pc = "done"] \in IngestionJob
      BY <2>0, <2>4, <2>8 DEF EmitMark, StepsOf, CarriesContent
    <3>2. Job("Mark-File-Embedded", j.file, NoVersion, j.n) \in IngestionJob
      BY <2>0, NewJob DEF Kinds
    <3>. QED  BY <1>0, <2>3, <2>8, <3>1, <3>2 DEF EmitMark, TypeOK
  <2>9. CASE StoreChunk(j)
    <3>1. [j EXCEPT !.pc = "done"] \in IngestionJob
      BY <2>0, <2>4, <2>9 DEF StoreChunk, StepsOf, CarriesContent
    <3>2. CASE InsertAllowed(j.file, j.n)
      <4>1. j.ver \in Versions
        BY <2>0, <2>9 DEF StoreChunk, CarriesContent
      <4>. QED  BY <1>0, <2>0, <2>2, <2>9, <3>1, <3>2, <4>1 DEF StoreChunk, JobMoves, TypeOK
    <3>3. CASE ~InsertAllowed(j.file, j.n)
      BY <1>0, <2>1, <2>9, <3>3 DEF StoreChunk, TypeOK
    <3>. QED  BY <3>2, <3>3
  <2>10. CASE CountChunks(j)
    <3>1. [j EXCEPT !.pc = "set"] \in IngestionJob
      BY <2>4, <2>10 DEF CountChunks, StepsOf, CarriesContent
    <3>. QED  BY <1>0, <2>1, <2>2, <2>10, <3>1 DEF CountChunks, JobMoves, TypeOK
  <2>11. CASE SetCompleted(j)
    <3>1. [j EXCEPT !.pc = "done"] \in IngestionJob
      BY <2>4, <2>11 DEF SetCompleted, SetEmbeddingStatus, StepsOf, CarriesContent
    <3>2. CASE RowExists(j.file)
      BY <1>0, <2>0, <2>2, <2>11, <3>1, <3>2
      DEF SetCompleted, SetEmbeddingStatus, JobMoves, TypeOK, EmbeddingStatus
    <3>3. CASE ~RowExists(j.file)
      BY <1>0, <2>1, <2>11, <3>3 DEF SetCompleted, SetEmbeddingStatus, TypeOK
    <3>. QED  BY <3>2, <3>3
  <2>12. CASE JobCompletes(j)
    BY <1>0, <2>12, RemoveJobs DEF JobCompletes, TypeOK
  <2>13. CASE JobFails(j)
    BY <1>0, <2>1, <2>13 DEF JobFails, TypeOK
  <2>. QED  BY <1>3, <2>5, <2>6, <2>7, <2>8, <2>9, <2>10, <2>11, <2>12, <2>13
            DEF WorkStep
<1>. QED  BY <1>1, <1>2, <1>3 DEF Next

\* Every state of the pipeline is well typed: the rows, the job table, the
\* attempts within River's limit.
THEOREM TypeCorrect == Spec => []TypeOK
BY TypeInit, TypeStep, PTL DEF Spec

-----------------------------------------------------------------------------
(* The inductive invariant *)

LEMMA InvInit == Init => IngestionInv
<1> SUFFICES ASSUME Init  PROVE IngestionInv
  OBVIOUS
<1>1. JobSet(jobs) = {}
  BY EmptyJobs DEF Init
<1>. QED
  BY <1>1 DEF Init, IngestionInv, CompletedMeansStored, ChunksCoherent, ArmedHasJob

\* A chunk that can still be inserted was missing: the insert cannot happen
\* once all chunks of the content are stored.
LEMMA InsertMeansMissing ==
  ASSUME TypeOK, NEW j \in JobSet(jobs), JobAgrees(j),
         j.kind = "Generate-Chunks", InsertAllowed(j.file, j.n)
  PROVE  /\ j.file \in Files /\ RowExists(j.file) /\ j.ver \in Versions
         /\ object[j.file] = j.ver
         /\ [index |-> j.n, ver |-> j.ver] \in ChunksOf(j.ver)
         /\ ~AllStored(j.file)
<1>1. j.file \in Files /\ j.n \in Nat /\ RowExists(j.file)
  BY DEF TypeOK, IngestionJob, InsertAllowed
<1>2. j.ver \in Versions /\ object[j.file] = j.ver /\ j.n < ChunkCount[j.ver]
  BY <1>1 DEF JobAgrees, RowExists, EmbeddingStatus
<1>3. [index |-> j.n, ver |-> j.ver] \in ChunksOf(j.ver)
  BY <1>1, <1>2, IngestionAssumption DEF ChunksOf
<1>4. ~AllStored(j.file)
  BY <1>2, <1>3 DEF AllStored, InsertAllowed, StoredIndexes
<1>. QED  BY <1>1, <1>2, <1>3, <1>4

\* The jobs of the table keep agreeing with their files, whoever takes the step.
LEMMA OldJobsAgree ==
  ASSUME TypeOK, IngestionInv, Next, NEW i \in JobSet(jobs)
  PROVE  JobAgrees(i)'
<1>0. /\ i \in IngestionJob /\ i.file \in Files /\ JobAgrees(i)
      /\ embedding \in [Files -> EmbeddingStatus \cup {"new", "deleted"}]
      /\ object \in [Files -> Versions \cup {NoVersion}]
      /\ chunks \in [Files -> SUBSET [index : Nat, ver : Versions]]
  BY DEF TypeOK, IngestionInv, IngestionJob
<1>1. CASE UNCHANGED <<embedding, object, chunks>>
  BY <1>0, <1>1 DEF JobAgrees, AllStored, RowExists
<1>2. ASSUME NEW f \in Files, Request(f)  PROVE JobAgrees(i)'
  <2>1. CASE GeneratePresignURL(f)
    <3>1. i.file # f
      BY <1>0, <2>1 DEF GeneratePresignURL, JobAgrees, RowExists, EmbeddingStatus
    <3>. QED  BY <1>0, <2>1, <3>1 DEF GeneratePresignURL, JobAgrees, AllStored, RowExists
  <2>2. CASE PutObject(f)
    BY <1>0, <2>2, IngestionAssumption
    DEF PutObject, JobAgrees, AllStored, RowExists
  <2>3. CASE ProcessDocForEmbedding(f)
    BY <1>1, <2>3 DEF ProcessDocForEmbedding
  <2>4. CASE DeleteRow(f)
    BY <1>0, <2>4 DEF DeleteRow, JobAgrees, AllStored, RowExists
  <2>5. CASE DeleteObject(f)
    BY <1>0, <2>5 DEF DeleteObject, JobAgrees, AllStored, RowExists
  <2>. QED  BY <1>2, <2>1, <2>2, <2>3, <2>4, <2>5 DEF Request
<1>3. ASSUME NEW j \in JobSet(jobs), WorkStep(j) \/ JobFails(j)
      PROVE  JobAgrees(i)'
  <2>0. j \in IngestionJob /\ j.file \in Files /\ JobAgrees(j)
    BY DEF TypeOK, IngestionInv, IngestionJob
  <2>1. CASE ArmEmbedding(j)
    BY <1>0, <1>1, <2>0, <2>1
    DEF ArmEmbedding, SetEmbeddingStatus, JobAgrees, AllStored, RowExists, EmbeddingStatus
  <2>2. CASE SetCompleted(j)
    BY <1>0, <1>1, <2>0, <2>2
    DEF SetCompleted, SetEmbeddingStatus, JobAgrees, AllStored, RowExists, EmbeddingStatus
  <2>3. CASE StoreChunk(j)
    <3>1. CASE InsertAllowed(j.file, j.n)
      <4>1. ~AllStored(j.file)
        BY <2>0, <2>3, <3>1, InsertMeansMissing DEF StoreChunk
      <4>2. i.file = j.file => ~(i.kind = "Mark-File-Embedded" /\ i.pc # "ready")
                               \/ embedding[i.file] = "deleted"
        BY <1>0, <4>1 DEF JobAgrees
      <4>. QED  BY <1>0, <2>0, <2>3, <3>1, <4>2
                DEF StoreChunk, JobAgrees, AllStored, RowExists
    <3>2. CASE ~InsertAllowed(j.file, j.n)
      BY <1>1, <2>3, <3>2 DEF StoreChunk
    <3>. QED  BY <3>1, <3>2
  <2>4. CASE FetchSource(j) \/ EmitChunk(j) \/ EmitMark(j) \/ CountChunks(j)
             \/ JobCompletes(j) \/ JobFails(j)
    BY <1>1, <2>4
    DEF FetchSource, EmitChunk, EmitMark, CountChunks, JobCompletes, JobFails
  <2>. QED  BY <1>3, <2>1, <2>2, <2>3, <2>4 DEF WorkStep
<1>. QED  BY <1>2, <1>3 DEF Next

\* A job that appears in the table (inserted, advanced or scheduled again)
\* agrees with its file.
LEMMA NewJobsAgree ==
  ASSUME TypeOK, IngestionInv, Next, NEW k \in JobSet(jobs'), k \notin JobSet(jobs)
  PROVE  JobAgrees(k)'
<1>0. /\ IsABag(jobs)
      /\ embedding \in [Files -> EmbeddingStatus \cup {"new", "deleted"}]
      /\ object \in [Files -> Versions \cup {NoVersion}]
  BY DEF TypeOK
<1>1. ASSUME NEW f \in Files, Request(f)  PROVE JobAgrees(k)'
  <2>1. CASE ProcessDocForEmbedding(f)
    <3> DEFINE p == Job("Process-RAG-File", f, NoVersion, 0)
    <3>1. p.kind = "Process-RAG-File" /\ p.file = f /\ p.n = 0 /\ p.pc = "ready"
      BY DEF Job
    <3>2. k = p
      BY <1>0, <2>1, InsertJobs DEF ProcessDocForEmbedding
    <3>. HIDE DEF p
    <3>. QED  BY <2>1, <3>1, <3>2 DEF ProcessDocForEmbedding, JobAgrees, RowExists
  <2>2. CASE GeneratePresignURL(f) \/ PutObject(f) \/ DeleteRow(f) \/ DeleteObject(f)
    BY <2>2 DEF GeneratePresignURL, PutObject, DeleteRow, DeleteObject
  <2>. QED  BY <1>1, <2>1, <2>2 DEF Request
<1>2. ASSUME NEW j \in JobSet(jobs), WorkStep(j) \/ JobFails(j)
      PROVE  JobAgrees(k)'
  <2>0. /\ j \in IngestionJob /\ j.kind \in Kinds /\ j.file \in Files /\ j.n \in Nat
        /\ j.pc \in StepsOf(j.kind) /\ JobAgrees(j) /\ JobAgrees(j)'
    BY <1>2, OldJobsAgree DEF TypeOK, IngestionInv, IngestionJob
  <2>1. ASSUME AttemptFails(j)  PROVE JobAgrees(k)'
    <3>1. k = Rescheduled(j) /\ ~LastAttempt(j)
      BY <2>1, FailedAttempt
    <3>2. /\ k.kind = j.kind /\ k.file = j.file /\ k.pc = "ready"
          /\ j.kind = "Process-RAG-File" => k.n = 0
          /\ j.kind # "Process-RAG-File" => k.n = j.n /\ k.ver = j.ver
      BY <2>0, <3>1, RescheduledFields
    <3>. QED  BY <2>0, <3>2 DEF JobAgrees
  <2>2. ASSUME NEW l, jobs' = Advance(jobs, j, l)  PROVE k = l
    BY <1>0, <2>2, AdvanceJobs
  <2>3. ASSUME NEW l, NEW m, jobs' = Insert(Advance(jobs, j, l), m)
        PROVE  k = l \/ k = m
    BY <1>0, <2>3, AdvanceJobs, InsertJobs
  <2>4. CASE ArmEmbedding(j)
    <3>1. CASE RowExists(j.file)
      <4>1. k = [j EXCEPT !.pc = "fetch"]
        BY <2>2, <2>4, <3>1 DEF ArmEmbedding, SetEmbeddingStatus, JobMoves
      <4>2. k.kind = j.kind /\ k.file = j.file /\ k.n = j.n /\ k.pc = "fetch"
        BY <2>0, <4>1 DEF IngestionJob
      <4>. QED  BY <2>0, <2>4, <4>2 DEF ArmEmbedding, SetEmbeddingStatus, JobAgrees
    <3>2. CASE ~RowExists(j.file)
      BY <2>1, <2>4, <3>2 DEF ArmEmbedding, SetEmbeddingStatus
    <3>. QED  BY <3>1, <3>2
  <2>5. CASE FetchSource(j)
    <3>1. CASE object[j.file] # NoVersion
      <4>1. k = [j EXCEPT !.pc = "emit", !.ver = object[j.file]]
        BY <2>2, <2>5, <3>1 DEF FetchSource, JobMoves
      <4>2. /\ k.kind = j.kind /\ k.file = j.file /\ k.n = j.n /\ k.pc = "emit"
            /\ k.ver = object[j.file]
        BY <2>0, <4>1 DEF IngestionJob
      <4>3. object[j.file] \in Versions /\ ChunkCount[object[j.file]] \in Nat
        BY <1>0, <2>0, <3>1, IngestionAssumption
      <4>. QED  BY <2>0, <2>5, <4>2, <4>3 DEF FetchSource, JobAgrees, RowExists
    <3>2. CASE object[j.file] = NoVersion
      BY <2>1, <2>5, <3>2 DEF FetchSource
    <3>. QED  BY <3>1, <3>2
  <2>6. CASE EmitChunk(j)
    <3> DEFINE l == [j EXCEPT !.n = @ + 1]
               m == Job("Generate-Chunks", j.file, j.ver, j.n)
    <3>1. /\ l.kind = j.kind /\ l.file = j.file /\ l.n = j.n + 1 /\ l.pc = j.pc
          /\ l.ver = j.ver
      BY <2>0 DEF IngestionJob
    <3>2. /\ m.kind = "Generate-Chunks" /\ m.file = j.file /\ m.n = j.n
          /\ m.ver = j.ver /\ m.pc = "ready"
      BY DEF Job
    <3>3. k = l \/ k = m
      BY <2>3, <2>6 DEF EmitChunk
    <3>. HIDE DEF l, m
    <3>4. \A v \in Versions : ChunkCount[v] \in Nat
      BY IngestionAssumption
    <3>. QED  BY <2>0, <2>6, <3>1, <3>2, <3>3, <3>4 DEF EmitChunk, JobAgrees, RowExists
  <2>7. CASE EmitMark(j)
    <3> DEFINE l == [j EXCEPT !.pc = "done"]
               m == Job("Mark-File-Embedded", j.file, NoVersion, j.n)
    <3>1. /\ l.kind = j.kind /\ l.file = j.file /\ l.n = j.n /\ l.pc = "done"
          /\ l.ver = j.ver
      BY <2>0 DEF IngestionJob
    <3>2. m.kind = "Mark-File-Embedded" /\ m.file = j.file /\ m.n = j.n /\ m.pc = "ready"
      BY DEF Job
    <3>3. k = l \/ k = m
      BY <2>3, <2>7 DEF EmitMark
    <3>. HIDE DEF l, m
    <3>. QED  BY <2>0, <2>7, <3>1, <3>2, <3>3 DEF EmitMark, JobAgrees, RowExists
  <2>8. CASE StoreChunk(j)
    <3>1. CASE InsertAllowed(j.file, j.n)
      <4>1. k = [j EXCEPT !.pc = "done"]
        BY <2>2, <2>8, <3>1 DEF StoreChunk, JobMoves
      <4>2. k.kind = j.kind /\ k.file = j.file /\ k.n = j.n /\ k.ver = j.ver
        BY <2>0, <4>1 DEF IngestionJob
      <4>. QED  BY <2>0, <2>8, <4>2 DEF StoreChunk, JobAgrees
    <3>2. CASE ~InsertAllowed(j.file, j.n)
      BY <2>1, <2>8, <3>2 DEF StoreChunk
    <3>. QED  BY <3>1, <3>2
  <2>9. CASE CountChunks(j)
    <3>1. CASE AllCounted(j)
      <4>1. k = [j EXCEPT !.pc = "set"]
        BY <2>2, <2>9, <3>1 DEF CountChunks, JobMoves
      <4>2. k.kind = j.kind /\ k.file = j.file /\ k.n = j.n /\ k.pc = "set"
        BY <2>0, <4>1 DEF IngestionJob
      <4>3. ASSUME embedding[j.file] # "deleted"  PROVE AllStored(j.file)
        <5>1. object[j.file] \in Versions /\ j.n = ChunkCount[object[j.file]]
          BY <2>0, <2>9, <4>3 DEF CountChunks, JobAgrees
        <5>2. RowExists(j.file)
          BY <2>0, <4>3 DEF JobAgrees
        <5>3. chunks[j.file] \subseteq ChunksOf(object[j.file])
          BY <2>0 DEF IngestionInv, ChunksCoherent
        <5>. QED  BY <3>1, <5>1, <5>3, CountedMeansAll DEF AllCounted, AllStored
      <4>. QED  BY <2>0, <2>9, <4>2, <4>3 DEF CountChunks, JobAgrees, AllStored, RowExists
    <3>2. CASE ~AllCounted(j)
      BY <2>1, <2>9, <3>2 DEF CountChunks
    <3>. QED  BY <3>1, <3>2
  <2>10. CASE SetCompleted(j)
    <3>1. CASE RowExists(j.file)
      <4>1. k = [j EXCEPT !.pc = "done"]
        BY <2>2, <2>10, <3>1 DEF SetCompleted, SetEmbeddingStatus, JobMoves
      <4>2. k.kind = j.kind /\ k.file = j.file /\ k.n = j.n /\ k.pc = "done"
        BY <2>0, <4>1 DEF IngestionJob
      <4>. QED  BY <2>0, <2>10, <4>2 DEF SetCompleted, SetEmbeddingStatus, JobAgrees
    <3>2. CASE ~RowExists(j.file)
      BY <2>1, <2>10, <3>2 DEF SetCompleted, SetEmbeddingStatus
    <3>. QED  BY <3>1, <3>2
  <2>11. CASE JobCompletes(j)
    BY <1>0, <2>11, RemoveJobs DEF JobCompletes
  <2>12. CASE JobFails(j)
    BY <2>1, <2>12 DEF JobFails
  <2>. QED  BY <1>2, <2>4, <2>5, <2>6, <2>7, <2>8, <2>9, <2>10, <2>11, <2>12
            DEF WorkStep
<1>. QED  BY <1>1, <1>2 DEF Next

\* Steps on a file keep its chunks coherent and its flag honest.
LEMMA TablesStep ==
  ASSUME TypeOK, IngestionInv, Next
  PROVE  CompletedMeansStored' /\ ChunksCoherent'
<1>0. /\ embedding \in [Files -> EmbeddingStatus \cup {"new", "deleted"}]
      /\ object \in [Files -> Versions \cup {NoVersion}]
      /\ chunks \in [Files -> SUBSET [index : Nat, ver : Versions]]
      /\ CompletedMeansStored /\ ChunksCoherent
  BY DEF TypeOK, IngestionInv
<1>1. CASE UNCHANGED <<embedding, object, chunks>>
  BY <1>0, <1>1 DEF CompletedMeansStored, ChunksCoherent, AllStored, RowExists
<1>2. ASSUME NEW f \in Files, Request(f)
      PROVE  CompletedMeansStored' /\ ChunksCoherent'
  <2>1. CASE GeneratePresignURL(f)
    BY <1>0, <2>1 DEF GeneratePresignURL, CompletedMeansStored, ChunksCoherent,
                      AllStored, RowExists, EmbeddingStatus
  <2>2. CASE PutObject(f)
    <3>1. object[f] \notin Versions
      BY <2>2, IngestionAssumption DEF PutObject
    <3>2. chunks[f] = {}
      BY <1>0, <3>1 DEF ChunksCoherent, ChunksOf
    <3>. QED  BY <1>0, <2>2, <3>1, <3>2
              DEF PutObject, CompletedMeansStored, ChunksCoherent, AllStored, RowExists
  <2>3. CASE ProcessDocForEmbedding(f)
    BY <1>1, <2>3 DEF ProcessDocForEmbedding
  <2>4. CASE DeleteRow(f)
    BY <1>0, <2>4
    DEF DeleteRow, CompletedMeansStored, ChunksCoherent, AllStored, RowExists
  <2>5. CASE DeleteObject(f)
    <3>1. ~RowExists(f)
      BY <2>5 DEF DeleteObject, RowExists, EmbeddingStatus
    <3>. QED  BY <1>0, <2>5, <3>1
              DEF DeleteObject, CompletedMeansStored, ChunksCoherent, AllStored,
                  RowExists, EmbeddingStatus
  <2>. QED  BY <1>2, <2>1, <2>2, <2>3, <2>4, <2>5 DEF Request
<1>3. ASSUME NEW j \in JobSet(jobs), WorkStep(j) \/ JobFails(j)
      PROVE  CompletedMeansStored' /\ ChunksCoherent'
  <2>0. j \in IngestionJob /\ j.file \in Files /\ j.n \in Nat /\ JobAgrees(j)
    BY DEF TypeOK, IngestionInv, IngestionJob
  <2>1. CASE ArmEmbedding(j)
    BY <1>0, <1>1, <2>0, <2>1 DEF ArmEmbedding, SetEmbeddingStatus, CompletedMeansStored,
       ChunksCoherent, AllStored, RowExists, EmbeddingStatus
  <2>2. CASE SetCompleted(j)
    <3>1. RowExists(j.file) => AllStored(j.file)
      BY <2>0, <2>2 DEF SetCompleted, SetEmbeddingStatus, JobAgrees, RowExists, EmbeddingStatus
    <3>. QED  BY <1>0, <1>1, <2>0, <2>2, <3>1 DEF SetCompleted, SetEmbeddingStatus, CompletedMeansStored,
       ChunksCoherent, AllStored, RowExists, EmbeddingStatus
  <2>3. CASE StoreChunk(j)
    <3>1. CASE InsertAllowed(j.file, j.n)
      <4> DEFINE c == [index |-> j.n, ver |-> j.ver]
      <4>1. /\ RowExists(j.file) /\ object[j.file] = j.ver /\ c \in ChunksOf(j.ver)
            /\ ~AllStored(j.file)
        BY <2>0, <2>3, <3>1, InsertMeansMissing DEF StoreChunk
      <4>2. chunks' = [chunks EXCEPT ![j.file] = @ \cup {c}]
        BY <2>3, <3>1 DEF StoreChunk
      <4>3. \A d \in chunks[j.file] : d.index # c.index
        BY <3>1 DEF InsertAllowed, StoredIndexes
      <4>. HIDE DEF c
      <4>4. UNCHANGED <<embedding, object>>
        BY <2>3 DEF StoreChunk
      <4>5. CompletedMeansStored'
        BY <1>0, <2>0, <4>1, <4>2, <4>4 DEF CompletedMeansStored, AllStored
      <4>6. ChunksCoherent'
        BY <1>0, <2>0, <4>1, <4>2, <4>3, <4>4 DEF ChunksCoherent, RowExists
      <4>. QED  BY <4>5, <4>6
    <3>2. CASE ~InsertAllowed(j.file, j.n)
      BY <1>1, <2>3, <3>2 DEF StoreChunk
    <3>. QED  BY <3>1, <3>2
  <2>4. CASE FetchSource(j) \/ EmitChunk(j) \/ EmitMark(j) \/ CountChunks(j)
             \/ JobCompletes(j) \/ JobFails(j)
    BY <1>1, <2>4
    DEF FetchSource, EmitChunk, EmitMark, CountChunks, JobCompletes, JobFails
  <2>. QED  BY <1>3, <2>1, <2>2, <2>3, <2>4 DEF WorkStep
<1>. QED  BY <1>2, <1>3 DEF Next

\* A job that resolves an armed file leaves the table only by resolving it or
\* by being discarded, or hands the file over to the completion job.
LEMMA ArmedStep ==
  ASSUME TypeOK, IngestionInv, Next
  PROVE  ArmedHasJob'
<1>0. /\ embedding \in [Files -> EmbeddingStatus \cup {"new", "deleted"}]
      /\ IsABag(jobs) /\ discarded \subseteq Kinds \X Files /\ ArmedHasJob
  BY DEF TypeOK, IngestionInv
<1> DEFINE Covered(f) == GaveUp(f) \/ \E j \in JobSet(jobs) : WillResolve(j, f)
<1>1. ASSUME JobSet(jobs) \subseteq JobSet(jobs'), discarded \subseteq discarded'
      PROVE  \A f \in Files : Covered(f) => Covered(f)'
  BY <1>1 DEF GaveUp, WillResolve
<1>2. ASSUME NEW f \in Files, Request(f)  PROVE ArmedHasJob'
  <2>1. JobSet(jobs) \subseteq JobSet(jobs') /\ discarded \subseteq discarded'
    BY <1>0, <1>2, InsertJobs DEF Request, GeneratePresignURL, PutObject,
       ProcessDocForEmbedding, DeleteRow, DeleteObject
  <2>2. \A g \in Files : embedding'[g] = "processing" => embedding[g] = "processing"
    BY <1>0, <1>2 DEF Request, GeneratePresignURL, PutObject,
       ProcessDocForEmbedding, DeleteRow, DeleteObject
  <2>. QED  BY <1>0, <1>1, <2>1, <2>2 DEF ArmedHasJob
<1>3. ASSUME NEW j \in JobSet(jobs), WorkStep(j) \/ JobFails(j)
      PROVE  ArmedHasJob'
  <2>0. /\ j \in IngestionJob /\ j.kind \in Kinds /\ j.file \in Files
        /\ j.pc \in StepsOf(j.kind)
    BY DEF TypeOK, IngestionJob
  \* What happens to the coverage of a file when job j leaves its place.
  <2>1. ASSUME JobSet(jobs) \ {j} \subseteq JobSet(jobs'), discarded \subseteq discarded',
               NEW f \in Files, Covered(f), ~WillResolve(j, f)
        PROVE  Covered(f)'
    BY <2>1 DEF GaveUp, WillResolve
  <2>2. ASSUME AttemptFails(j), NEW f \in Files, Covered(f)  PROVE Covered(f)'
    <3>1. /\ JobSet(jobs) \ {j} \subseteq JobSet(jobs') /\ discarded \subseteq discarded'
          /\ \/ <<j.kind, j.file>> \in discarded'
             \/ Rescheduled(j) \in JobSet(jobs') /\ ~LastAttempt(j)
      BY <2>2, FailedAttempt
    <3>2. CASE WillResolve(j, f)
      <4>1. CASE <<j.kind, j.file>> \in discarded'
        BY <2>0, <3>2, <4>1 DEF WillResolve, GaveUp
      <4>2. CASE Rescheduled(j) \in JobSet(jobs') /\ ~LastAttempt(j)
        <5>1. WillResolve(Rescheduled(j), f)
          BY <2>0, <3>2, <4>2, RescheduledFields DEF WillResolve
        <5>. QED  BY <4>2, <5>1
      <4>. QED  BY <3>1, <4>1, <4>2
    <3>3. CASE ~WillResolve(j, f)
      BY <2>1, <2>2, <3>1, <3>3
    <3>. QED  BY <3>2, <3>3
  <2>3. ASSUME NEW k, JobMoves(j, k), k.file = j.file, k.kind = j.kind,
               discarded' = discarded, k.pc # "done", NEW f \in Files, Covered(f)
        PROVE  Covered(f)'
    <3>1. JobSet(jobs) \ {j} \subseteq JobSet(jobs') /\ k \in JobSet(jobs')
      BY <1>0, <2>3, AdvanceJobs DEF JobMoves
    <3>2. WillResolve(j, f) => WillResolve(k, f)
      BY <2>3 DEF WillResolve
    <3>. QED  BY <2>1, <2>3, <3>1, <3>2
  <2>4. ASSUME AttemptFails(j), UNCHANGED embedding  PROVE ArmedHasJob'
    BY <1>0, <2>2, <2>4 DEF ArmedHasJob
  <2>5. CASE ArmEmbedding(j)
    <3>1. CASE RowExists(j.file)
      <4> DEFINE k == [j EXCEPT !.pc = "fetch"]
      <4>1. k.kind = j.kind /\ k.file = j.file /\ k.pc = "fetch"
        BY <2>0 DEF IngestionJob
      <4>2. JobMoves(j, k) /\ discarded' = discarded
        BY <2>5, <3>1 DEF ArmEmbedding, SetEmbeddingStatus
      <4>. HIDE DEF k
      <4>3. WillResolve(k, j.file) /\ k \in JobSet(jobs')
        BY <1>0, <2>5, <4>1, <4>2, AdvanceJobs DEF ArmEmbedding, SetEmbeddingStatus, WillResolve, JobMoves
      <4>4. \A f \in Files \ {j.file} : embedding'[f] = embedding[f]
        BY <1>0, <2>5, <3>1 DEF ArmEmbedding, SetEmbeddingStatus
      <4>5. \A f \in Files : Covered(f) => Covered(f)'
        BY <2>3, <4>1, <4>2
      <4>. QED  BY <1>0, <4>3, <4>4, <4>5 DEF ArmedHasJob
    <3>2. CASE ~RowExists(j.file)
      BY <2>4, <2>5, <3>2 DEF ArmEmbedding, SetEmbeddingStatus
    <3>. QED  BY <3>1, <3>2
  <2>6. CASE FetchSource(j)
    <3>1. CASE object[j.file] # NoVersion
      <4> DEFINE k == [j EXCEPT !.pc = "emit", !.ver = object[j.file]]
      <4>1. k.kind = j.kind /\ k.file = j.file /\ k.pc = "emit"
        BY <2>0 DEF IngestionJob
      <4>2. JobMoves(j, k) /\ discarded' = discarded /\ embedding' = embedding
        BY <2>6, <3>1 DEF FetchSource
      <4>. HIDE DEF k
      <4>. QED  BY <1>0, <2>3, <4>1, <4>2 DEF ArmedHasJob
    <3>2. CASE object[j.file] = NoVersion
      BY <2>4, <2>6, <3>2 DEF FetchSource
    <3>. QED  BY <3>1, <3>2
  <2>7. CASE EmitChunk(j)
    <3> DEFINE k == [j EXCEPT !.n = @ + 1]
               m == Job("Generate-Chunks", j.file, j.ver, j.n)
    <3>1. k.kind = j.kind /\ k.file = j.file /\ k.pc = j.pc
      BY <2>0 DEF IngestionJob
    <3>2. /\ JobSet(jobs) \ {j} \subseteq JobSet(jobs') /\ k \in JobSet(jobs')
          /\ discarded' = discarded /\ embedding' = embedding
      BY <1>0, <2>7, AdvanceJobs, InsertJobs DEF EmitChunk
    <3>. HIDE DEF k, m
    <3>3. \A f \in Files : WillResolve(j, f) => WillResolve(k, f)
      BY <3>1 DEF WillResolve
    <3>. QED  BY <1>0, <2>1, <3>2, <3>3 DEF ArmedHasJob
  <2>8. CASE EmitMark(j)
    <3> DEFINE m == Job("Mark-File-Embedded", j.file, NoVersion, j.n)
    <3>1. m.kind = "Mark-File-Embedded" /\ m.file = j.file /\ m.pc = "ready"
      BY DEF Job
    <3>2. /\ JobSet(jobs) \ {j} \subseteq JobSet(jobs') /\ m \in JobSet(jobs')
          /\ discarded' = discarded /\ embedding' = embedding
      BY <1>0, <2>8, AdvanceJobs, InsertJobs DEF EmitMark
    <3>. HIDE DEF m
    <3>3. \A f \in Files : WillResolve(j, f) => WillResolve(m, f)
      BY <3>1 DEF WillResolve
    <3>. QED  BY <1>0, <2>1, <3>2, <3>3 DEF ArmedHasJob
  <2>9. CASE StoreChunk(j)
    <3>1. CASE InsertAllowed(j.file, j.n)
      <4>1. \A f \in Files : ~WillResolve(j, f)
        BY <2>9 DEF StoreChunk, WillResolve
      <4>2. /\ JobSet(jobs) \ {j} \subseteq JobSet(jobs')
            /\ discarded' = discarded /\ embedding' = embedding
        BY <1>0, <2>9, <3>1, AdvanceJobs DEF StoreChunk, JobMoves
      <4>. QED  BY <1>0, <2>1, <4>1, <4>2 DEF ArmedHasJob
    <3>2. CASE ~InsertAllowed(j.file, j.n)
      BY <2>4, <2>9, <3>2 DEF StoreChunk
    <3>. QED  BY <3>1, <3>2
  <2>10. CASE CountChunks(j)
    <3>1. CASE AllCounted(j)
      <4> DEFINE k == [j EXCEPT !.pc = "set"]
      <4>1. k.kind = j.kind /\ k.file = j.file /\ k.pc = "set"
        BY <2>0 DEF IngestionJob
      <4>2. JobMoves(j, k) /\ discarded' = discarded /\ embedding' = embedding
        BY <2>10, <3>1 DEF CountChunks
      <4>. HIDE DEF k
      <4>. QED  BY <1>0, <2>3, <4>1, <4>2 DEF ArmedHasJob
    <3>2. CASE ~AllCounted(j)
      BY <2>4, <2>10, <3>2 DEF CountChunks
    <3>. QED  BY <3>1, <3>2
  <2>11. CASE SetCompleted(j)
    <3>1. CASE RowExists(j.file)
      <4>1. /\ JobSet(jobs) \ {j} \subseteq JobSet(jobs') /\ discarded' = discarded
            /\ embedding' = [embedding EXCEPT ![j.file] = "completed"]
        BY <1>0, <2>11, <3>1, AdvanceJobs DEF SetCompleted, SetEmbeddingStatus, JobMoves
      <4>2. \A f \in Files \ {j.file} : ~WillResolve(j, f)
        BY DEF WillResolve
      <4>3. \A f \in Files : embedding'[f] = "processing" =>
                               f # j.file /\ embedding[f] = "processing"
        BY <1>0, <4>1
      <4>. QED  BY <1>0, <2>1, <4>1, <4>2, <4>3 DEF ArmedHasJob
    <3>2. CASE ~RowExists(j.file)
      BY <2>4, <2>11, <3>2 DEF SetCompleted, SetEmbeddingStatus
    <3>. QED  BY <3>1, <3>2
  <2>12. CASE JobCompletes(j)
    <3>1. \A f \in Files : ~WillResolve(j, f)
      BY <2>12 DEF JobCompletes, WillResolve
    <3>2. /\ JobSet(jobs) \ {j} \subseteq JobSet(jobs')
          /\ discarded' = discarded /\ embedding' = embedding
      BY <1>0, <2>12, RemoveJobs DEF JobCompletes
    <3>. QED  BY <1>0, <2>1, <3>1, <3>2 DEF ArmedHasJob
  <2>13. CASE JobFails(j)
    BY <2>4, <2>13 DEF JobFails
  <2>. QED  BY <1>3, <2>5, <2>6, <2>7, <2>8, <2>9, <2>10, <2>11, <2>12, <2>13
            DEF WorkStep
<1>. QED  BY <1>2, <1>3 DEF Next

LEMMA InvStep == TypeOK /\ IngestionInv /\ [Next]_vars => IngestionInv'
<1> SUFFICES ASSUME TypeOK, IngestionInv, [Next]_vars  PROVE IngestionInv'
  OBVIOUS
<1>1. CASE UNCHANGED vars
  BY <1>1 DEF vars, IngestionInv, JobAgrees, CompletedMeansStored, ChunksCoherent,
              ArmedHasJob, AllStored, RowExists, GaveUp
<1>2. CASE Next
  <2>1. \A k \in JobSet(jobs') : JobAgrees(k)'
    BY <1>2, OldJobsAgree, NewJobsAgree
  <2>. QED  BY <1>2, <2>1, TablesStep, ArmedStep DEF IngestionInv
<1>. QED  BY <1>1, <1>2

\* The inductive invariant: what the jobs carry agrees with the one content of
\* their file, and every armed file has a job that will resolve it.
THEOREM Invariant == Spec => []IngestionInv
BY InvInit, InvStep, TypeCorrect, PTL DEF Spec

\* MarkFileEmbeddedWorker: whenever embedding_status is completed, every chunk
\* of the object is stored.
THEOREM CompletedIsHonest == Spec => []CompletedMeansStored
<1>1. IngestionInv => CompletedMeansStored
  BY DEF IngestionInv
<1>. QED  BY <1>1, Invariant, PTL

\* The chunks a search can see are those of the object of an existing row, and
\* none of them twice.
THEOREM ChunksAreCoherent == Spec => []ChunksCoherent
<1>1. IngestionInv => ChunksCoherent
  BY DEF IngestionInv
<1>. QED  BY <1>1, Invariant, PTL

\* No file stays in processing with nothing left to run, unless River gave up
\* on one of its jobs.
THEOREM NoFileStuck == Spec => []NeverStuck
<1>1. IngestionInv => NeverStuck
  BY DEF IngestionInv, ArmedHasJob, NeverStuck, Idle, WillResolve
<1>. QED  BY <1>1, Invariant, PTL

-----------------------------------------------------------------------------
(* The jobs implement the contract with the readers of the tables *)

LEMMA ContractInit == Init => Contract!Init
BY DEF Init, Contract!Init

LEMMA ContractStep ==
  TypeOK /\ IngestionInv /\ [Next]_vars => [Contract!Next]_(Contract!state)
<1> SUFFICES ASSUME TypeOK, IngestionInv, [Next]_vars
             PROVE  Contract!Next \/ UNCHANGED <<embedding, object, chunks>>
  BY DEF Contract!state
<1>1. CASE UNCHANGED vars
  BY <1>1 DEF vars
<1>2. ASSUME NEW f \in Files, Request(f)
      PROVE  Contract!Next \/ UNCHANGED <<embedding, object, chunks>>
  <2>1. CASE GeneratePresignURL(f)
    BY <2>1 DEF GeneratePresignURL, Contract!Next, Contract!Create, Contract!Flag
  <2>2. CASE PutObject(f)
    BY <2>2 DEF PutObject, Contract!Next, Contract!Upload
  <2>3. CASE ProcessDocForEmbedding(f)
    BY <2>3 DEF ProcessDocForEmbedding
  <2>4. CASE DeleteRow(f)
    BY <2>4 DEF DeleteRow, RowExists, EmbeddingStatus,
                Contract!Next, Contract!Drop, Contract!Live, Contract!Flag
  <2>5. CASE DeleteObject(f)
    BY <2>5 DEF DeleteObject, Contract!Next, Contract!Forget
  <2>. QED  BY <1>2, <2>1, <2>2, <2>3, <2>4, <2>5 DEF Request
<1>3. ASSUME NEW j \in JobSet(jobs), WorkStep(j) \/ JobFails(j)
      PROVE  Contract!Next \/ UNCHANGED <<embedding, object, chunks>>
  <2>0. j.file \in Files /\ JobAgrees(j)
    BY DEF TypeOK, IngestionInv, IngestionJob
  <2>1. CASE ArmEmbedding(j)
    BY <2>0, <2>1 DEF ArmEmbedding, SetEmbeddingStatus, RowExists, EmbeddingStatus,
                      Contract!Next, Contract!Arm, Contract!Live, Contract!Flag
  <2>2. CASE SetCompleted(j)
    <3>1. RowExists(j.file) => AllStored(j.file)
      BY <2>0, <2>2 DEF SetCompleted, SetEmbeddingStatus, JobAgrees, RowExists, EmbeddingStatus
    <3>. QED  BY <2>0, <2>2, <3>1
              DEF SetCompleted, SetEmbeddingStatus, AllStored, ChunksOf, RowExists, EmbeddingStatus,
                  Contract!Next, Contract!Finish, Contract!Live, Contract!Wanted,
                  Contract!Flag
  <2>3. CASE StoreChunk(j)
    <3>1. CASE InsertAllowed(j.file, j.n)
      <4> DEFINE c == [index |-> j.n, ver |-> j.ver]
      <4>1. /\ RowExists(j.file) /\ object[j.file] = j.ver /\ j.ver \in Versions
            /\ c \in ChunksOf(j.ver)
        BY <2>0, <2>3, <3>1, InsertMeansMissing DEF StoreChunk
      <4>2. /\ chunks' = [chunks EXCEPT ![j.file] = @ \cup {c}]
            /\ UNCHANGED <<embedding, object>>
        BY <2>3, <3>1 DEF StoreChunk
      <4>3. c \notin chunks[j.file]
        BY <3>1 DEF InsertAllowed, StoredIndexes
      <4>. HIDE DEF c
      <4>4. Contract!Store(j.file)
        BY <4>1, <4>2, <4>3 DEF RowExists, EmbeddingStatus, ChunksOf,
           Contract!Store, Contract!Live, Contract!Wanted
      <4>. QED  BY <2>0, <4>4 DEF Contract!Next
    <3>2. CASE ~InsertAllowed(j.file, j.n)
      BY <2>3, <3>2 DEF StoreChunk
    <3>. QED  BY <3>1, <3>2
  <2>4. CASE FetchSource(j) \/ EmitChunk(j) \/ EmitMark(j) \/ CountChunks(j)
             \/ JobCompletes(j) \/ JobFails(j)
    BY <2>4
    DEF FetchSource, EmitChunk, EmitMark, CountChunks, JobCompletes, JobFails
  <2>. QED  BY <1>3, <2>1, <2>2, <2>3, <2>4 DEF WorkStep
<1>. QED  BY <1>1, <1>2, <1>3 DEF Next

\* The handlers and jobs of the pipeline, with their retries, duplicates and
\* crashes, implement IngestionContract.
THEOREM Refinement == Spec => ImplementsContract
BY ContractInit, ContractStep, TypeCorrect, Invariant, PTL
DEF Spec, ImplementsContract, Contract!Spec
=============================================================================
