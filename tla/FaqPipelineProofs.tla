------------------------- MODULE FaqPipelineProofs --------------------------
(***************************************************************************)
(* The safety of FaqPipeline for any FAQs, answers, calls and attempts,    *)
(* that of its liveness properties included: what is queued is not lost.   *)
(***************************************************************************)
EXTENDS FaqPipeline, JobQueueProofs

-----------------------------------------------------------------------------
(* The jobs of Ingestion are in the same table: its operators are JobQueue's *)

LEMMA SameInsert ==
  ASSUME NEW B, NEW j
  PROVE  Ing!Insert(B, j) = Insert(B, j)
BY DEF Ing!Insert, Insert, SetToBag, Ing!SetToBag, (+), Ing!\oplus

LEMMA SameRemove ==
  ASSUME NEW B, NEW j
  PROVE  Ing!Remove(B, j) = Remove(B, j)
BY DEF Ing!Remove, Remove, SetToBag, Ing!SetToBag, (-), Ing!\ominus

LEMMA SameAdvance ==
  ASSUME NEW B, NEW j, NEW k
  PROVE  Ing!Advance(B, j, k) = Advance(B, j, k)
BY SameInsert, SameRemove DEF Ing!Advance, Advance

LEMMA SameJob ==
  ASSUME NEW k, NEW f, NEW v, NEW n
  PROVE  Ing!Job(k, f, v, n) = Job(k, f, v, n)
BY DEF Ing!Job, Job

LEMMA SameRescheduled ==
  ASSUME NEW j
  PROVE  Ing!Rescheduled(j) = Rescheduled(j)
<1> DEFINE Reads == {"Process-RAG-File", "Index-FAQ", "Generate-Thumbnail", "Insert-Audit-Log"}
<1>1. CASE j.kind \in Reads
  BY <1>1, SameJob DEF Ing!Rescheduled, Rescheduled
<1>2. CASE j.kind \notin Reads
  BY <1>2, SameJob DEF Ing!Rescheduled, Rescheduled
<1>. QED  BY <1>1, <1>2

LEMMA SameFailure ==
  ASSUME NEW j, Ing!AttemptFails(j)
  PROVE  /\ jobs' = AfterFailure(jobs, j)
         /\ discarded' = IF LastAttempt(j) THEN discarded \cup {<<j.kind, j.file>>}
                                           ELSE discarded
<1>1. Ing!AfterFailure(jobs, j) = AfterFailure(jobs, j)
  BY SameRemove, SameAdvance, SameRescheduled
     DEF Ing!AfterFailure, AfterFailure, Ing!LastAttempt, LastAttempt
<1>. QED  BY <1>1 DEF Ing!AttemptFails, Ing!LastAttempt, LastAttempt

-----------------------------------------------------------------------------
(* Rows and jobs *)

AnswerCall == [op : {"Answer"}, faq : Faqs, answer : Answers, pc : {"update", "enqueue"}]

DeleteCall == [op : {"Delete"}, faq : Faqs, pc : {"enqueue"}]

LEMMA Typed ==
  ASSUME TypeOK
  PROVE  /\ faq \in [Faqs -> [status : FAQStatus \cup {"new", "deleted"},
                              answer : AnswerText, indexed : AnswerText]]
         /\ IsABag(calls) /\ JobSet(calls) \subseteq AnswerCall \cup DeleteCall
         /\ embedding \in [Faqs -> Ing!EmbeddingStatus \cup {"new", "deleted"}]
         /\ object \in [Faqs -> AnswerText]
         /\ chunks \in [Faqs -> SUBSET ChunkRows]
         /\ IsABag(jobs) /\ JobSet(jobs) \subseteq FaqJob
         /\ discarded \subseteq Kinds \X Faqs
         /\ requests \in 0 .. MaxRequests
BY DEF TypeOK, AnswerCall, DeleteCall

LEMMA JobFields ==
  ASSUME NEW j \in FaqJob
  PROVE  /\ j.kind \in Kinds /\ j.file \in Faqs /\ j.ver \in AnswerText /\ j.n \in Nat
         /\ j.pc \in Ing!Steps \cup {"wipe", "upload", "status", "rag", "hash"}
         /\ j.attempt \in 1 .. MaxAttempts
         /\ j.kind = "Generate-Chunks" => j.ver \in Answers /\ j.n < ChunkCount[j.ver]
         /\ j.kind = "Process-RAG-File" /\ j.pc = "emit" => j.ver \in Answers
BY DEF FaqJob

\* A job as one of the Enqueue methods inserts it.
LEMMA NewJob ==
  ASSUME NEW k \in Kinds, NEW f \in Faqs, NEW v \in AnswerText, NEW n \in Nat,
         k = "Generate-Chunks" => v \in Answers /\ n < ChunkCount[v]
  PROVE  /\ Job(k, f, v, n) \in FaqJob
         /\ Job(k, f, v, n).kind = k /\ Job(k, f, v, n).file = f
         /\ Job(k, f, v, n).pc = "ready"
<1>1. 1 \in 1 .. MaxAttempts
  BY MaxAttemptsAssumption
<1>. QED  BY <1>1 DEF Job, FaqJob, Ing!Steps

\* A job that is scheduled again is ready and of the same kind and FAQ.
LEMMA RescheduledFields ==
  ASSUME NEW j \in FaqJob, ~LastAttempt(j)
  PROVE  /\ Rescheduled(j) \in FaqJob
         /\ Rescheduled(j).kind = j.kind /\ Rescheduled(j).file = j.file
         /\ Rescheduled(j).pc = "ready"
<1>1. j.attempt + 1 \in 1 .. MaxAttempts
  BY JobFields, MaxAttemptsAssumption DEF LastAttempt
<1>2. CASE j.kind \in {"Process-RAG-File", "Index-FAQ"}
  <2>1. Rescheduled(j) = [kind |-> j.kind, file |-> j.file, ver |-> NoVersion,
                          n |-> 0, pc |-> "ready", attempt |-> j.attempt + 1]
    BY <1>2 DEF Rescheduled, Job
  <2>. QED  BY <1>1, <1>2, <2>1, JobFields DEF FaqJob, AnswerText, Ing!Steps
<1>3. CASE j.kind \notin {"Process-RAG-File", "Index-FAQ"}
  <2>1. j.kind \in Kinds
    BY JobFields
  <2>2. Rescheduled(j) = [kind |-> j.kind, file |-> j.file, ver |-> j.ver,
                          n |-> j.n, pc |-> "ready", attempt |-> j.attempt + 1]
    BY <1>3, <2>1 DEF Rescheduled, Job, Kinds, Ing!Kinds
  <2>. QED  BY <1>1, <1>3, <2>2, JobFields DEF FaqJob, Ing!Steps
<1>. QED  BY <1>2, <1>3

\* A failed attempt: what it does to the job table.
LEMMA FailedAttempt ==
  ASSUME TypeOK, NEW j \in JobSet(jobs), Ing!AttemptFails(j)
  PROVE  /\ IsABag(jobs') /\ JobSet(jobs') \subseteq FaqJob
         /\ discarded' \subseteq Kinds \X Faqs
<1>1. IsABag(jobs) /\ JobSet(jobs) \subseteq FaqJob /\ j \in FaqJob
  BY DEF TypeOK
<1>2. j.kind \in Kinds /\ j.file \in Faqs
  BY <1>1, JobFields
<1>3. jobs' = AfterFailure(jobs, j)
  BY SameFailure
<1>4. discarded' \subseteq Kinds \X Faqs
  BY <1>2, SameFailure DEF TypeOK
<1>. QED  BY <1>1, <1>3, <1>4, FailureJobs, RescheduledFields

\* A chunk row as Generate-Chunks stores it.
LEMMA ChunkRow ==
  ASSUME NEW a \in Answers, NEW n \in Nat, n < ChunkCount[a]
  PROVE  [index |-> n, ver |-> a] \in ChunkRows
<1>1. ChunkCount[a] \in Nat
  BY FaqAssumption
<1>2. [index |-> n, ver |-> a] \in Ing!ChunksOf(a)
  BY <1>1 DEF Ing!ChunksOf
<1>. QED  BY <1>2 DEF ChunkRows

-----------------------------------------------------------------------------
(* Types *)

LEMMA TypeInit == Init => TypeOK
<1>1. IsABag(EmptyBag) /\ JobSet(EmptyBag) = {} /\ Ing!EmptyBag = EmptyBag
  BY EmptyJobs DEF EmptyBag, Ing!EmptyBag, SetToBag, Ing!SetToBag
<1>2. 0 \in 0 .. MaxRequests
  BY FaqAssumption
<1>. QED  BY <1>1, <1>2 DEF Init, Ing!Init, TypeOK, AnswerText

\* The two halves of a step: the HTTP side ...
LEMMA TypeCalls ==
  ASSUME TypeOK,
         \/ \E q \in Faqs : Request(q)
         \/ \E c \in JobSet(calls) : CallStep(c) \/ CallAborts(c)
  PROVE  TypeOK'
<1>0. /\ faq \in [Faqs -> [status : FAQStatus \cup {"new", "deleted"},
                           answer : AnswerText, indexed : AnswerText]]
      /\ IsABag(calls) /\ JobSet(calls) \subseteq AnswerCall \cup DeleteCall
      /\ embedding \in [Faqs -> Ing!EmbeddingStatus \cup {"new", "deleted"}]
      /\ object \in [Faqs -> AnswerText]
      /\ chunks \in [Faqs -> SUBSET ChunkRows]
      /\ IsABag(jobs) /\ JobSet(jobs) \subseteq FaqJob
      /\ discarded \subseteq Kinds \X Faqs
      /\ requests \in 0 .. MaxRequests
  BY Typed
<1>c. ASSUME CountRequest  PROVE requests' \in 0 .. MaxRequests
  BY <1>0, <1>c, FaqAssumption DEF CountRequest
<1>n. NoVersion \in AnswerText
  BY DEF AnswerText
<1>1. ASSUME NEW q \in Faqs, Request(q)  PROVE TypeOK'
  <2>1. CASE RecordUnanswered(q)
    BY <1>0, <2>1 DEF RecordUnanswered, TypeOK, AnswerCall, DeleteCall, FAQStatus, Ing!EmbeddingStatus
  <2>2. ASSUME NEW a \in Answers, AnswerChecks(q, a)  PROVE TypeOK'
    <3> DEFINE c == [op |-> "Answer", faq |-> q, answer |-> a, pc |-> "update"]
    <3>1. c \in AnswerCall
      BY DEF AnswerCall
    <3> HIDE DEF c
    <3>2. IsABag(calls') /\ JobSet(calls') = JobSet(calls) \cup {c}
      BY <1>0, <2>2, InsertJobs DEF AnswerChecks, c
    <3>3. requests' \in 0 .. MaxRequests
      BY <2>2, <1>c DEF AnswerChecks
    <3>. QED  BY <1>0, <2>2, <3>1, <3>2, <3>3 DEF AnswerChecks, TypeOK, AnswerCall, DeleteCall, tables
  <2>3. ASSUME NEW s \in FAQStatus, Update(q, s)  PROVE TypeOK'
    <3>1. faq' \in [Faqs -> [status : FAQStatus \cup {"new", "deleted"},
                             answer : AnswerText, indexed : AnswerText]]
      BY <1>0, <2>3 DEF Update
    <3>2. requests' \in 0 .. MaxRequests
      BY <2>3, <1>c DEF Update
    <3>. QED  BY <1>0, <2>3, <3>1, <3>2 DEF Update, TypeOK, AnswerCall, DeleteCall, tables
  <2>4. CASE DeleteRows(q)
    <3> DEFINE c == [op |-> "Delete", faq |-> q, pc |-> "enqueue"]
    <3>1. c \in DeleteCall
      BY DEF DeleteCall
    <3> HIDE DEF c
    <3>2. IsABag(calls') /\ JobSet(calls') = JobSet(calls) \cup {c}
      BY <1>0, <2>4, InsertJobs DEF DeleteRows, c
    <3>3. faq' \in [Faqs -> [status : FAQStatus \cup {"new", "deleted"},
                             answer : AnswerText, indexed : AnswerText]]
      BY <1>0, <1>n, <2>4 DEF DeleteRows
    <3>4. /\ embedding' \in [Faqs -> Ing!EmbeddingStatus \cup {"new", "deleted"}]
          /\ chunks' \in [Faqs -> SUBSET ChunkRows]
      BY <1>0, <2>4 DEF DeleteRows
    <3>5. requests' \in 0 .. MaxRequests
      BY <2>4, <1>c DEF DeleteRows
    <3>. QED  BY <1>0, <2>4, <3>1, <3>2, <3>3, <3>4, <3>5
              DEF DeleteRows, TypeOK, AnswerCall, DeleteCall
  <2>. QED  BY <1>1, <2>1, <2>2, <2>3, <2>4 DEF Request
<1>2. ASSUME NEW c \in JobSet(calls), CallStep(c) \/ CallAborts(c)  PROVE TypeOK'
  <2>0. c \in AnswerCall \cup DeleteCall
    BY <1>0
  <2>f. c.faq \in Faqs
    BY <2>0 DEF AnswerCall, DeleteCall
  <2>1. CASE AnswerUpdates(c)
    <3>1. c \in AnswerCall
      BY <2>0, <2>1 DEF AnswerUpdates, DeleteCall
    <3>2. CASE Exists(c.faq)
      <4> DEFINE d == [c EXCEPT !.pc = "enqueue"]
      <4>1. d \in AnswerCall
        BY <3>1 DEF AnswerCall
      <4> HIDE DEF d
      <4>2. IsABag(calls') /\ JobSet(calls') \subseteq JobSet(calls) \cup {d}
        BY <1>0, <2>1, <3>2, AdvanceJobs DEF AnswerUpdates, d
      <4>3. c.answer \in AnswerText
        BY <3>1 DEF AnswerCall, AnswerText
      <4>4. faq' \in [Faqs -> [status : FAQStatus \cup {"new", "deleted"},
                               answer : AnswerText, indexed : AnswerText]]
        BY <1>0, <2>1, <2>f, <3>2, <4>3 DEF AnswerUpdates, FAQStatus
      <4>. QED  BY <1>0, <2>1, <4>1, <4>2, <4>4 DEF AnswerUpdates, TypeOK, AnswerCall, DeleteCall, tables
    <3>3. CASE ~Exists(c.faq)
      <4>1. IsABag(calls') /\ JobSet(calls') \subseteq JobSet(calls) /\ faq' = faq
        BY <1>0, <2>1, <3>3, RemoveJobs DEF AnswerUpdates
      <4>. QED  BY <1>0, <2>1, <4>1 DEF AnswerUpdates, TypeOK, AnswerCall, DeleteCall, tables
    <3>. QED  BY <3>2, <3>3
  <2>r. ASSUME calls' = Remove(calls, c)
        PROVE  IsABag(calls') /\ JobSet(calls') \subseteq JobSet(calls)
    BY <1>0, <2>r, RemoveJobs
  <2>2. CASE AnswerEnqueues(c)
    <3> DEFINE k == Job("Index-FAQ", c.faq, NoVersion, 0)
    <3>1. k \in FaqJob
      BY <1>n, <2>f, NewJob DEF Kinds
    <3> HIDE DEF k
    <3>2. IsABag(jobs') /\ JobSet(jobs') \subseteq JobSet(jobs) \cup {k}
      BY <1>0, <2>2, InsertJobs DEF AnswerEnqueues, EnqueueIndexFaq, k
    <3>. QED  BY <1>0, <2>r, <2>2, <3>1, <3>2 DEF AnswerEnqueues, TypeOK, AnswerCall, DeleteCall, tables
  <2>3. CASE DeleteEnqueues(c)
    <3> DEFINE k == Job("Delete-File-From-Storage", c.faq, NoVersion, 0)
    <3>1. k \in FaqJob
      BY <1>n, <2>f, NewJob DEF Kinds
    <3> HIDE DEF k
    <3>2. IsABag(jobs') /\ JobSet(jobs') \subseteq JobSet(jobs) \cup {k}
      BY <1>0, <2>3, InsertJobs DEF DeleteEnqueues, k
    <3>. QED  BY <1>0, <2>r, <2>3, <3>1, <3>2 DEF DeleteEnqueues, TypeOK, AnswerCall, DeleteCall, tables
  <2>4. CASE CallAborts(c)
    BY <1>0, <2>r, <2>4 DEF CallAborts, TypeOK, AnswerCall, DeleteCall, tables
  <2>. QED  BY <1>2, <2>1, <2>2, <2>3, <2>4 DEF CallStep
<1>. QED  BY <1>1, <1>2

\* ... and the jobs.
LEMMA TypeJobs ==
  ASSUME TypeOK, NEW j \in JobSet(jobs), WorkStep(j) \/ JobFails(j)
  PROVE  TypeOK'
<1>0. /\ faq \in [Faqs -> [status : FAQStatus \cup {"new", "deleted"},
                           answer : AnswerText, indexed : AnswerText]]
      /\ IsABag(calls) /\ JobSet(calls) \subseteq AnswerCall \cup DeleteCall
      /\ embedding \in [Faqs -> Ing!EmbeddingStatus \cup {"new", "deleted"}]
      /\ object \in [Faqs -> AnswerText]
      /\ chunks \in [Faqs -> SUBSET ChunkRows]
      /\ IsABag(jobs) /\ JobSet(jobs) \subseteq FaqJob
      /\ discarded \subseteq Kinds \X Faqs
      /\ requests \in 0 .. MaxRequests
  BY Typed
<1>n. NoVersion \in AnswerText
  BY DEF AnswerText
<1>j. /\ j \in FaqJob /\ j.kind \in Kinds /\ j.file \in Faqs /\ j.ver \in AnswerText /\ j.n \in Nat
      /\ j.kind = "Generate-Chunks" => j.ver \in Answers /\ j.n < ChunkCount[j.ver]
      /\ j.kind = "Process-RAG-File" /\ j.pc = "emit" => j.ver \in Answers
  BY <1>0, JobFields
<1> DEFINE JobsTyped == IsABag(jobs') /\ JobSet(jobs') \subseteq FaqJob /\ discarded' \subseteq Kinds \X Faqs
<1>f. ASSUME Ing!AttemptFails(j)  PROVE JobsTyped
  BY <1>f, FailedAttempt
<1>m. ASSUME NEW k \in FaqJob, jobs' = Advance(jobs, j, k), discarded' = discarded  PROVE JobsTyped
  BY <1>0, <1>m, AdvanceJobs
<1>i. ASSUME NEW k \in FaqJob, NEW i \in FaqJob,
             jobs' = Insert(Advance(jobs, j, k), i), discarded' = discarded
      PROVE  JobsTyped
  BY <1>0, <1>i, AdvanceJobs, InsertJobs
<1>a. ASSUME NEW pc \in Ing!Steps \cup {"wipe", "upload", "status", "rag", "hash"},
             ~(j.kind = "Process-RAG-File" /\ pc = "emit")
      PROVE  [j EXCEPT !.pc = pc] \in FaqJob
  BY <1>j, <1>a DEF FaqJob
<1>t. ASSUME NEW pc \in Ing!Steps \cup {"wipe", "upload", "status", "rag", "hash"},
             ~(j.kind = "Process-RAG-File" /\ pc = "emit"), MovesTo(j, pc)
      PROVE  JobsTyped
  <2> DEFINE k == [j EXCEPT !.pc = pc]
  <2>1. k \in FaqJob
    BY <1>t, <1>a
  <2>2. jobs' = Advance(jobs, j, k) /\ discarded' = discarded
    BY <1>t DEF MovesTo
  <2> HIDE DEF k
  <2>. QED  BY <1>m, <2>1, <2>2
<1>v. ASSUME NEW pc \in Ing!Steps \cup {"wipe", "upload", "status", "rag", "hash"},
             ~(j.kind = "Process-RAG-File" /\ pc = "emit"),
             Ing!JobMoves(j, [j EXCEPT !.pc = pc]), discarded' = discarded
      PROVE  JobsTyped
  <2>1. MovesTo(j, pc)
    BY <1>v, SameAdvance DEF MovesTo, Ing!JobMoves
  <2>. QED  BY <1>v, <1>t, <2>1
<1> HIDE DEF JobsTyped
<1>q. ASSUME JobsTyped, UNCHANGED <<calls, requests>>,
             faq' \in [Faqs -> [status : FAQStatus \cup {"new", "deleted"},
                                answer : AnswerText, indexed : AnswerText]],
             embedding' \in [Faqs -> Ing!EmbeddingStatus \cup {"new", "deleted"}],
             object' \in [Faqs -> AnswerText],
             chunks' \in [Faqs -> SUBSET ChunkRows]
      PROVE  TypeOK'
  BY <1>0, <1>q DEF TypeOK, AnswerCall, DeleteCall, JobsTyped
<1>s. /\ {"ready", "fetch", "emit", "set", "done"} \subseteq Ing!Steps
      /\ {"pending", "processing", "completed"} \subseteq Ing!EmbeddingStatus
  BY DEF Ing!Steps, Ing!EmbeddingStatus
<1>1. CASE ReadFaq(j)
  <2>1. CASE ~Exists(j.file)
    BY <1>0, <1>f, <1>q, <2>1, <1>1 DEF ReadFaq, faqVars, tables
  <2>2. CASE Exists(j.file)
    <3> DEFINE k == IF NeedsIndex(j.file) THEN [j EXCEPT !.pc = "wipe", !.ver = faq[j.file].answer]
                                          ELSE [j EXCEPT !.pc = "done"]
    <3>1. k \in FaqJob
      BY <1>0, <1>j, <1>s, <1>1 DEF ReadFaq, IndexAt, FaqJob
    <3>2. jobs' = Advance(jobs, j, k) /\ discarded' = discarded
      BY <1>1, <2>2 DEF ReadFaq
    <3> HIDE DEF k
    <3>3. JobsTyped
      BY <1>m, <3>1, <3>2
    <3>. QED  BY <1>0, <1>q, <1>1, <3>3 DEF ReadFaq, faqVars, tables
  <2>. QED  BY <2>1, <2>2
<1>2. CASE WipeChunks(j)
  <2>1. JobsTyped
    BY <1>2, <1>t DEF WipeChunks, IndexAt
  <2>2. chunks' \in [Faqs -> SUBSET ChunkRows]
    BY <1>0, <1>2 DEF WipeChunks
  <2>. QED  BY <1>0, <1>q, <1>2, <2>1, <2>2 DEF WipeChunks, faqVars
<1>3. CASE UploadAnswer(j)
  <2>1. JobsTyped
    BY <1>3, <1>t DEF UploadAnswer, IndexAt
  <2>2. object' \in [Faqs -> AnswerText]
    BY <1>0, <1>j, <1>3 DEF UploadAnswer
  <2>. QED  BY <1>0, <1>q, <1>3, <2>1, <2>2 DEF UploadAnswer, faqVars
<1>4. CASE SetUploadStatus(j)
  <2>1. JobsTyped
    BY <1>4, <1>f, <1>t DEF SetUploadStatus, IndexAt
  <2>. QED  BY <1>0, <1>q, <1>4, <2>1 DEF SetUploadStatus, faqVars, tables
<1>5. CASE HandOff(j)
  <2>1. [j EXCEPT !.pc = "hash"] \in FaqJob
    BY <1>a
  <2>2. Job("Process-RAG-File", j.file, NoVersion, 0) \in FaqJob
    BY <1>j, <1>n, NewJob DEF Kinds, Ing!Kinds
  <2>3. JobsTyped
    BY <1>5, <1>i, <2>1, <2>2 DEF HandOff
  <2>. QED  BY <1>0, <1>q, <1>5, <2>3 DEF HandOff, faqVars, tables
<1>6. CASE SetLastIndexedHash(j)
  <2>1. JobsTyped
    BY <1>6, <1>s, <1>t DEF SetLastIndexedHash, IndexAt
  <2>2. faq' \in [Faqs -> [status : FAQStatus \cup {"new", "deleted"},
                           answer : AnswerText, indexed : AnswerText]]
    BY <1>0, <1>j, <1>6 DEF SetLastIndexedHash
  <2>. QED  BY <1>0, <1>q, <1>6, <2>1, <2>2 DEF SetLastIndexedHash, tables
<1>7. CASE DeleteObject(j)
  <2>1. JobsTyped
    BY <1>7, <1>s, <1>t DEF DeleteObject
  <2>2. object' \in [Faqs -> AnswerText]
    BY <1>0, <1>n, <1>7 DEF DeleteObject
  <2>. QED  BY <1>0, <1>q, <1>7, <2>1, <2>2 DEF DeleteObject, faqVars
<1>8. CASE Ing!WorkStep(j) /\ UNCHANGED faqVars
  <2>0. UNCHANGED <<faq, calls>>
    BY <1>8 DEF faqVars
  <2>1. CASE Ing!ArmEmbedding(j)
    <3>1. JobsTyped
      BY <1>f, <1>s, <1>v, <2>1 DEF Ing!ArmEmbedding
    <3>2. embedding' \in [Faqs -> Ing!EmbeddingStatus \cup {"new", "deleted"}]
      BY <1>0, <1>s, <2>1 DEF Ing!ArmEmbedding, Ing!SetEmbeddingStatus
    <3>. QED  BY <1>0, <1>q, <2>0, <2>1, <3>1, <3>2 DEF Ing!ArmEmbedding
  <2>2. CASE Ing!FetchSource(j)
    <3>1. CASE object[j.file] # NoVersion
      <4> DEFINE k == [j EXCEPT !.pc = "emit", !.ver = object[j.file]]
      <4>1. object[j.file] \in Answers
        BY <1>0, <1>j, <3>1 DEF AnswerText
      <4>2. k \in FaqJob
        BY <1>j, <1>s, <2>2, <4>1 DEF FaqJob, AnswerText, Ing!FetchSource
      <4>3. jobs' = Advance(jobs, j, k) /\ discarded' = discarded
        BY <2>2, <3>1, SameAdvance DEF Ing!FetchSource, Ing!JobMoves
      <4> HIDE DEF k
      <4>4. JobsTyped
        BY <1>m, <4>2, <4>3
      <4>. QED  BY <1>0, <1>q, <2>0, <2>2, <4>4 DEF Ing!FetchSource
    <3>2. CASE object[j.file] = NoVersion
      BY <1>0, <1>f, <1>q, <2>0, <2>2, <3>2 DEF Ing!FetchSource
    <3>. QED  BY <3>1, <3>2
  <2>3. CASE Ing!EmitChunk(j)
    <3> DEFINE k == [j EXCEPT !.n = @ + 1]
               i == Job("Generate-Chunks", j.file, j.ver, j.n)
    <3>1. k \in FaqJob
      BY <1>j, <2>3 DEF FaqJob, Ing!EmitChunk
    <3>2. i \in FaqJob
      BY <1>j, <2>3, NewJob DEF Kinds, Ing!Kinds, Ing!EmitChunk
    <3>3. jobs' = Insert(Advance(jobs, j, k), i) /\ discarded' = discarded
      BY <2>3, SameInsert, SameAdvance, SameJob DEF Ing!EmitChunk
    <3> HIDE DEF k, i
    <3>4. JobsTyped
      BY <1>i, <3>1, <3>2, <3>3
    <3>. QED  BY <1>0, <1>q, <2>0, <2>3, <3>4 DEF Ing!EmitChunk
  <2>4. CASE Ing!EmitMark(j)
    <3> DEFINE k == [j EXCEPT !.pc = "done"]
               i == Job("Mark-File-Embedded", j.file, NoVersion, j.n)
    <3>1. k \in FaqJob
      BY <1>a, <1>s
    <3>2. i \in FaqJob
      BY <1>j, <1>n, NewJob DEF Kinds, Ing!Kinds
    <3>3. jobs' = Insert(Advance(jobs, j, k), i) /\ discarded' = discarded
      BY <2>4, SameInsert, SameAdvance, SameJob DEF Ing!EmitMark
    <3> HIDE DEF k, i
    <3>4. JobsTyped
      BY <1>i, <3>1, <3>2, <3>3
    <3>. QED  BY <1>0, <1>q, <2>0, <2>4, <3>4 DEF Ing!EmitMark
  <2>5. CASE Ing!StoreChunk(j)
    <3>1. JobsTyped
      BY <1>f, <1>s, <1>v, <2>5 DEF Ing!StoreChunk
    <3>2. [index |-> j.n, ver |-> j.ver] \in ChunkRows
      BY <1>j, <2>5, ChunkRow DEF Ing!StoreChunk
    <3>3. chunks' \in [Faqs -> SUBSET ChunkRows]
      BY <1>0, <1>j, <2>5, <3>2 DEF Ing!StoreChunk
    <3>. QED  BY <1>0, <1>q, <2>0, <2>5, <3>1, <3>3 DEF Ing!StoreChunk
  <2>6. CASE Ing!CountChunks(j)
    <3>1. JobsTyped
      BY <1>f, <1>s, <1>v, <2>6 DEF Ing!CountChunks
    <3>. QED  BY <1>0, <1>q, <2>0, <2>6, <3>1 DEF Ing!CountChunks
  <2>7. CASE Ing!SetCompleted(j)
    <3>1. JobsTyped
      BY <1>f, <1>s, <1>v, <2>7 DEF Ing!SetCompleted
    <3>2. embedding' \in [Faqs -> Ing!EmbeddingStatus \cup {"new", "deleted"}]
      BY <1>0, <1>s, <2>7 DEF Ing!SetCompleted, Ing!SetEmbeddingStatus
    <3>. QED  BY <1>0, <1>q, <2>0, <2>7, <3>1, <3>2 DEF Ing!SetCompleted
  <2>8. CASE Ing!JobCompletes(j)
    <3>1. JobsTyped
      BY <1>0, <2>8, SameRemove, RemoveJobs DEF Ing!JobCompletes, JobsTyped
    <3>. QED  BY <1>0, <1>q, <2>0, <2>8, <3>1 DEF Ing!JobCompletes
  <2>. QED  BY <1>8, <2>1, <2>2, <2>3, <2>4, <2>5, <2>6, <2>7, <2>8 DEF Ing!WorkStep
<1>9. CASE JobFails(j)
  <2>1. JobsTyped
    BY <1>9, <1>f DEF JobFails, Ing!JobFails
  <2>. QED  BY <1>0, <1>q, <1>9, <2>1 DEF JobFails, Ing!JobFails, faqVars
<1>. QED  BY <1>1, <1>2, <1>3, <1>4, <1>5, <1>6, <1>7, <1>8, <1>9 DEF WorkStep, IndexStep

LEMMA TypeStep == TypeOK /\ [Next]_vars => TypeOK'
<1>1. TypeOK /\ UNCHANGED vars => TypeOK'
  BY DEF TypeOK, vars
<1>. QED  BY <1>1, TypeCalls, TypeJobs DEF Next

\* Rows, calls, chunks and jobs keep their types; a chunk row is always one of
\* the rows some answer has.
THEOREM TypeCorrect == Spec => []TypeOK
BY TypeInit, TypeStep, PTL DEF Spec

-----------------------------------------------------------------------------
(* A deleted FAQ leaves nothing *)

LEMMA DeletedStep == TypeOK /\ DeletedLeavesNoRow /\ [Next]_vars => DeletedLeavesNoRow'
<1> SUFFICES ASSUME TypeOK, DeletedLeavesNoRow, [Next]_vars, NEW q \in Faqs,
                    faq'[q].status = "deleted"
             PROVE  chunks'[q] = {} /\ embedding'[q] = "deleted"
  BY DEF DeletedLeavesNoRow
<1>0. /\ faq \in [Faqs -> [status : FAQStatus \cup {"new", "deleted"},
                           answer : AnswerText, indexed : AnswerText]]
      /\ embedding \in [Faqs -> Ing!EmbeddingStatus \cup {"new", "deleted"}]
      /\ chunks \in [Faqs -> SUBSET ChunkRows]
      /\ JobSet(calls) \subseteq AnswerCall \cup DeleteCall
      /\ JobSet(jobs) \subseteq FaqJob
  BY Typed
<1>s. "deleted" \notin FAQStatus /\ "deleted" \notin Ing!EmbeddingStatus
  BY DEF FAQStatus, Ing!EmbeddingStatus
<1>d. ASSUME faq[q].status = "deleted"  PROVE chunks[q] = {} /\ embedding[q] = "deleted"
  BY <1>d DEF DeletedLeavesNoRow
<1>u. ASSUME faq'[q].status = faq[q].status, UNCHANGED <<embedding, chunks>>
      PROVE  chunks'[q] = {} /\ embedding'[q] = "deleted"
  BY <1>u, <1>d
<1>1. CASE UNCHANGED vars
  BY <1>1, <1>u DEF vars
<1>2. ASSUME NEW p \in Faqs, Request(p)  PROVE chunks'[q] = {} /\ embedding'[q] = "deleted"
  <2>1. CASE RecordUnanswered(p)
    BY <1>0, <1>d, <2>1 DEF RecordUnanswered
  <2>2. ASSUME NEW a \in Answers, AnswerChecks(p, a)
        PROVE  chunks'[q] = {} /\ embedding'[q] = "deleted"
    BY <1>u, <2>2 DEF AnswerChecks, tables
  <2>3. ASSUME NEW s \in FAQStatus, Update(p, s)
        PROVE  chunks'[q] = {} /\ embedding'[q] = "deleted"
    <3>1. faq'[q].status = faq[q].status
      BY <1>0, <1>s, <2>3 DEF Update
    <3>. QED  BY <1>u, <2>3, <3>1 DEF Update, tables
  <2>4. CASE DeleteRows(p)
    BY <1>0, <1>d, <2>4 DEF DeleteRows
  <2>. QED  BY <1>2, <2>1, <2>2, <2>3, <2>4 DEF Request
<1>3. ASSUME NEW c \in JobSet(calls), CallStep(c) \/ CallAborts(c)
      PROVE  chunks'[q] = {} /\ embedding'[q] = "deleted"
  <2>1. faq'[q].status = faq[q].status
    BY <1>0, <1>3 DEF CallStep, AnswerUpdates, AnswerEnqueues, DeleteEnqueues, CallAborts
  <2>. QED  BY <1>3, <1>u, <2>1
            DEF CallStep, AnswerUpdates, AnswerEnqueues, DeleteEnqueues, CallAborts, tables
<1>4. ASSUME NEW j \in JobSet(jobs), WorkStep(j) \/ JobFails(j)
      PROVE  chunks'[q] = {} /\ embedding'[q] = "deleted"
  <2>0. j.file \in Faqs
    BY <1>0, JobFields
  <2>1. CASE IndexStep(j)
    <3>1. faq'[q].status = faq[q].status
      BY <1>0, <2>1 DEF IndexStep, ReadFaq, WipeChunks, UploadAnswer, SetUploadStatus,
                        HandOff, SetLastIndexedHash, faqVars
    <3>2. embedding' = embedding
      BY <2>1 DEF IndexStep, ReadFaq, WipeChunks, UploadAnswer, SetUploadStatus,
                  HandOff, SetLastIndexedHash, tables
    <3>3. chunks'[q] = chunks[q] \/ chunks'[q] = {}
      BY <1>0, <2>1 DEF IndexStep, ReadFaq, WipeChunks, UploadAnswer, SetUploadStatus,
                        HandOff, SetLastIndexedHash, tables
    <3>. QED  BY <1>d, <3>1, <3>2, <3>3
  <2>2. CASE DeleteObject(j)
    BY <1>u, <2>2 DEF DeleteObject, faqVars
  <2>3. CASE Ing!WorkStep(j) /\ UNCHANGED faqVars
    <3>1. faq' = faq
      BY <2>3 DEF faqVars
    <3>2. ~Ing!RowExists(q)
      BY <1>d, <1>s, <3>1 DEF Ing!RowExists
    <3>3. embedding'[q] = embedding[q]
      BY <1>0, <2>3, <3>2 DEF Ing!WorkStep, Ing!ArmEmbedding, Ing!FetchSource, Ing!EmitChunk,
           Ing!EmitMark, Ing!StoreChunk, Ing!CountChunks, Ing!SetCompleted, Ing!JobCompletes,
           Ing!SetEmbeddingStatus
    <3>4. chunks'[q] = chunks[q]
      BY <1>0, <2>3, <3>2 DEF Ing!WorkStep, Ing!ArmEmbedding, Ing!FetchSource, Ing!EmitChunk,
           Ing!EmitMark, Ing!StoreChunk, Ing!CountChunks, Ing!SetCompleted, Ing!JobCompletes,
           Ing!InsertAllowed
    <3>. QED  BY <1>d, <3>1, <3>3, <3>4
  <2>4. CASE JobFails(j)
    BY <1>u, <2>4 DEF JobFails, Ing!JobFails, faqVars
  <2>. QED  BY <1>4, <2>1, <2>2, <2>3, <2>4 DEF WorkStep
<1>. QED  BY <1>1, <1>2, <1>3, <1>4 DEF Next

\* Whatever calls and jobs of a FAQ outlive its deletion, they store no chunk
\* of it and bring no row back.
THEOREM DeletedIsGone == Spec => []DeletedLeavesNoRow
<1>1. Init => DeletedLeavesNoRow
  BY DEF Init, DeletedLeavesNoRow
<1>. QED  BY <1>1, TypeInit, TypeStep, DeletedStep, PTL DEF Spec

-----------------------------------------------------------------------------
(* One Index-FAQ job per FAQ, and what it has uploaded stands *)

\* The Index-FAQ jobs of the FAQ, and the copies of each, stay as they are.
SameIndex(q) ==
  /\ IndexJobs(q)' = IndexJobs(q)
  /\ \A i \in IndexJobs(q) : jobs'[i] = jobs[i]

\* Nothing begins to delete the FAQ.
NoNewDeletion(q) == Deleting(q)' => Deleting(q)

\* Whatever a job does, it goes on as a job of its kind and file, possibly
\* inserting one of Ingestion's, or it is gone.
LEMMA JobGoesOn ==
  ASSUME TypeOK, NEW j \in JobSet(jobs), WorkStep(j) \/ JobFails(j)
  PROVE  \E k : /\ k.kind = j.kind /\ k.file = j.file
                /\ \/ jobs' = Remove(jobs, j)
                   \/ jobs' = Advance(jobs, j, k)
                   \/ \E i : i.kind \in Ing!Kinds /\ jobs' = Insert(Advance(jobs, j, k), i)
<1> DEFINE Result(k) == /\ k.kind = j.kind /\ k.file = j.file
                        /\ \/ jobs' = Remove(jobs, j)
                           \/ jobs' = Advance(jobs, j, k)
                           \/ \E i : i.kind \in Ing!Kinds /\ jobs' = Insert(Advance(jobs, j, k), i)
<1>0. j \in FaqJob
  BY DEF TypeOK
<1>f. ASSUME Ing!AttemptFails(j)  PROVE \E k : Result(k)
  <2>1. CASE LastAttempt(j)
    <3>1. jobs' = Remove(jobs, j)
      BY <1>f, <2>1, SameFailure DEF AfterFailure
    <3>. QED  BY <3>1
  <2>2. CASE ~LastAttempt(j)
    <3>1. jobs' = Advance(jobs, j, Rescheduled(j))
      BY <1>f, <2>2, SameFailure DEF AfterFailure
    <3>2. Rescheduled(j).kind = j.kind /\ Rescheduled(j).file = j.file
      BY <1>0, <2>2, RescheduledFields
    <3>. QED  BY <3>1, <3>2
  <2>. QED  BY <2>1, <2>2
<1>e. ASSUME NEW pc  PROVE [j EXCEPT !.pc = pc].kind = j.kind /\ [j EXCEPT !.pc = pc].file = j.file
  BY <1>0 DEF FaqJob
<1>t. ASSUME NEW pc, MovesTo(j, pc)  PROVE \E k : Result(k)
  BY <1>t, <1>e DEF MovesTo
<1>v. ASSUME NEW pc, Ing!JobMoves(j, [j EXCEPT !.pc = pc])  PROVE \E k : Result(k)
  <2>1. jobs' = Advance(jobs, j, [j EXCEPT !.pc = pc])
    BY <1>v, SameAdvance DEF Ing!JobMoves
  <2>. QED  BY <2>1, <1>e
<1>i. ASSUME NEW k, NEW i, k.kind = j.kind, k.file = j.file, i.kind \in Ing!Kinds,
             jobs' = Insert(Advance(jobs, j, k), i)
      PROVE  \E l : Result(l)
  BY <1>i
<1>r. /\ \A n \in Nat : Job("Process-RAG-File", j.file, NoVersion, n).kind = "Process-RAG-File"
      /\ Job("Generate-Chunks", j.file, j.ver, j.n).kind = "Generate-Chunks"
      /\ Job("Mark-File-Embedded", j.file, NoVersion, j.n).kind = "Mark-File-Embedded"
      /\ {"Process-RAG-File", "Generate-Chunks", "Mark-File-Embedded"} \subseteq Ing!Kinds
  BY DEF Job, Ing!Kinds
<1>1. CASE ReadFaq(j)
  <2>1. CASE ~Exists(j.file)
    BY <1>1, <1>f, <2>1 DEF ReadFaq
  <2>2. CASE Exists(j.file)
    <3> DEFINE k == IF NeedsIndex(j.file) THEN [j EXCEPT !.pc = "wipe", !.ver = faq[j.file].answer]
                                          ELSE [j EXCEPT !.pc = "done"]
    <3>1. k.kind = j.kind /\ k.file = j.file
      BY <1>0 DEF FaqJob
    <3>2. jobs' = Advance(jobs, j, k)
      BY <1>1, <2>2 DEF ReadFaq
    <3>. QED  BY <3>1, <3>2
  <2>. QED  BY <2>1, <2>2
<1>2. CASE WipeChunks(j) \/ UploadAnswer(j) \/ SetLastIndexedHash(j) \/ DeleteObject(j)
  BY <1>2, <1>t DEF WipeChunks, UploadAnswer, SetLastIndexedHash, DeleteObject
<1>3. CASE SetUploadStatus(j)
  BY <1>3, <1>f, <1>t DEF SetUploadStatus
<1>4. CASE HandOff(j)
  <2>1. jobs' = Insert(Advance(jobs, j, [j EXCEPT !.pc = "hash"]),
                       Job("Process-RAG-File", j.file, NoVersion, 0))
    BY <1>4 DEF HandOff
  <2>. QED  BY <1>e, <1>i, <1>r, <2>1
<1>5. CASE Ing!WorkStep(j)
  <2>1. CASE Ing!ArmEmbedding(j) \/ Ing!StoreChunk(j) \/ Ing!CountChunks(j) \/ Ing!SetCompleted(j)
    BY <2>1, <1>f, <1>v DEF Ing!ArmEmbedding, Ing!StoreChunk, Ing!CountChunks, Ing!SetCompleted
  <2>2. CASE Ing!FetchSource(j)
    <3> DEFINE k == [j EXCEPT !.pc = "emit", !.ver = object[j.file]]
    <3>1. k.kind = j.kind /\ k.file = j.file
      BY <1>0 DEF FaqJob
    <3>2. Ing!AttemptFails(j) \/ jobs' = Advance(jobs, j, k)
      BY <2>2, SameAdvance DEF Ing!FetchSource, Ing!JobMoves
    <3>. QED  BY <1>f, <3>1, <3>2
  <2>3. CASE Ing!EmitChunk(j)
    <3> DEFINE k == [j EXCEPT !.n = @ + 1]
    <3>1. k.kind = j.kind /\ k.file = j.file
      BY <1>0 DEF FaqJob
    <3>2. jobs' = Insert(Advance(jobs, j, k), Job("Generate-Chunks", j.file, j.ver, j.n))
      BY <2>3, SameInsert, SameAdvance, SameJob DEF Ing!EmitChunk
    <3>. QED  BY <1>i, <1>r, <3>1, <3>2
  <2>4. CASE Ing!EmitMark(j)
    <3>1. jobs' = Insert(Advance(jobs, j, [j EXCEPT !.pc = "done"]),
                         Job("Mark-File-Embedded", j.file, NoVersion, j.n))
      BY <2>4, SameInsert, SameAdvance, SameJob DEF Ing!EmitMark
    <3>. QED  BY <1>e, <1>i, <1>r, <3>1
  <2>5. CASE Ing!JobCompletes(j)
    <3>1. jobs' = Remove(jobs, j)
      BY <2>5, SameRemove DEF Ing!JobCompletes
    <3>. QED  BY <3>1
  <2>. QED  BY <1>5, <2>1, <2>2, <2>3, <2>4, <2>5 DEF Ing!WorkStep
<1>6. CASE JobFails(j)
  BY <1>6, <1>f DEF JobFails, Ing!JobFails
<1>. QED  BY <1>1, <1>2, <1>3, <1>4, <1>5, <1>6 DEF WorkStep, IndexStep

\* A step of a job leaves the Index-FAQ jobs of other FAQs alone, and begins
\* no deletion.
LEMMA JobStepFrame ==
  ASSUME TypeOK, NEW j \in JobSet(jobs), WorkStep(j) \/ JobFails(j), NEW q
  PROVE  /\ j \notin IndexJobs(q) => SameIndex(q)
         /\ calls' = calls => NoNewDeletion(q)
<1>0. IsABag(jobs)
  BY DEF TypeOK
<1>1. PICK k : /\ k.kind = j.kind /\ k.file = j.file
               /\ \/ jobs' = Remove(jobs, j)
                  \/ jobs' = Advance(jobs, j, k)
                  \/ \E i : i.kind \in Ing!Kinds /\ jobs' = Insert(Advance(jobs, j, k), i)
  BY JobGoesOn
<1> DEFINE A == Advance(jobs, j, k)
<1>k. "Index-FAQ" \notin Ing!Kinds /\ "Delete-File-From-Storage" \notin Ing!Kinds
  BY DEF Ing!Kinds
<1>a. /\ IsABag(A) /\ JobSet(A) \subseteq JobSet(jobs) \cup {k} /\ JobSet(jobs) \ {j} \subseteq JobSet(A)
      /\ \A i \in JobSet(jobs) \ {j, k} : A[i] = jobs[i]
  BY <1>0, AdvanceJobs, AdvanceCopies
<1> HIDE DEF A
<1>2. CASE jobs' = Remove(jobs, j)
  <2>1. /\ JobSet(jobs') \subseteq JobSet(jobs) /\ JobSet(jobs) \ {j} \subseteq JobSet(jobs')
        /\ \A i \in JobSet(jobs) \ {j} : jobs'[i] = jobs[i]
    BY <1>0, <1>2, RemoveJobs, RemoveCopies
  <2>. QED  BY <2>1 DEF SameIndex, IndexJobs, NoNewDeletion, Deleting
<1>3. CASE jobs' = A
  BY <1>1, <1>3, <1>a DEF SameIndex, IndexJobs, NoNewDeletion, Deleting
<1>4. ASSUME NEW i, i.kind \in Ing!Kinds, jobs' = Insert(A, i)
      PROVE  /\ j \notin IndexJobs(q) => SameIndex(q)
             /\ calls' = calls => NoNewDeletion(q)
  <2>1. /\ JobSet(jobs') = JobSet(A) \cup {i}
        /\ \A l \in JobSet(A) \ {i} : jobs'[l] = A[l]
    BY <1>a, <1>4, InsertJobs, InsertCopies
  <2>2. i.kind # "Index-FAQ" /\ i.kind # "Delete-File-From-Storage"
    BY <1>k, <1>4
  <2>3. NoNewDeletion(q) \/ calls' # calls
    BY <1>1, <1>a, <2>1, <2>2 DEF NoNewDeletion, Deleting
  <2>4. j \notin IndexJobs(q) => SameIndex(q)
    BY <1>1, <1>a, <2>1, <2>2 DEF SameIndex, IndexJobs
  <2>. QED  BY <2>3, <2>4
<1>. QED  BY <1>1, <1>2, <1>3, <1>4 DEF A

\* The only Index-FAQ job of a FAQ moves on or goes.
LEMMA IndexMoves ==
  ASSUME TypeOK, NEW q, OneIndexJob(q), NEW j \in IndexJobs(q)
  PROVE  /\ jobs' = Remove(jobs, j) => IndexJobs(q)' = {}
         /\ \A k : /\ k.kind = "Index-FAQ" /\ k.file = q
                   /\ \/ jobs' = Advance(jobs, j, k)
                      \/ \E i : i.kind # "Index-FAQ" /\ jobs' = Insert(Advance(jobs, j, k), i)
                   => IndexJobs(q)' = {k} /\ jobs'[k] = 1
<1>0. IsABag(jobs) /\ j \in JobSet(jobs) /\ jobs[j] = 1 /\ IndexJobs(q) = {j}
  BY DEF TypeOK, OneIndexJob, IndexJobs
<1>1. ASSUME jobs' = Remove(jobs, j)  PROVE IndexJobs(q)' = {}
  <2>1. JobSet(jobs') = JobSet(jobs) \ {j}
    BY <1>0, <1>1, RemoveCopies
  <2>. QED  BY <1>0, <2>1 DEF IndexJobs
<1>2. ASSUME NEW k, k.kind = "Index-FAQ", k.file = q,
             \/ jobs' = Advance(jobs, j, k)
             \/ \E i : i.kind # "Index-FAQ" /\ jobs' = Insert(Advance(jobs, j, k), i)
      PROVE  IndexJobs(q)' = {k} /\ jobs'[k] = 1
  <2> DEFINE A == Advance(jobs, j, k)
  <2>1. k \notin JobSet(jobs) \ {j}
    BY <1>0, <1>2 DEF IndexJobs
  <2>2. IsABag(A) /\ JobSet(A) = (JobSet(jobs) \ {j}) \cup {k} /\ A[k] = 1
    BY <1>0, <2>1, AdvanceJobs, AdvanceCopies
  <2> HIDE DEF A
  <2>3. CASE jobs' = A
    BY <1>0, <1>2, <2>2, <2>3 DEF IndexJobs
  <2>4. ASSUME NEW i, i.kind # "Index-FAQ", jobs' = Insert(A, i)
        PROVE  IndexJobs(q)' = {k} /\ jobs'[k] = 1
    <3>1. JobSet(jobs') = JobSet(A) \cup {i} /\ \A l \in JobSet(A) \ {i} : jobs'[l] = A[l]
      BY <2>2, <2>4, InsertJobs, InsertCopies
    <3>. QED  BY <1>0, <1>2, <2>2, <2>4, <3>1 DEF IndexJobs
  <2>. QED  BY <1>2, <2>3, <2>4 DEF A
<1>. QED  BY <1>1, <1>2

Matches(q) ==
  /\ Exists(q) /\ faq[q].indexed # NoVersion
  /\ \A j \in IndexJobs(q) : j.pc \in {"ready", "done"}
  => object[q] = faq[q].indexed

\* The hash names the object, provided that an attempt at Index-FAQ that was
\* interrupted did not leave a newer object behind.
InvOf(q) ==
  /\ OneIndexJob(q) /\ RowsTogether(q) /\ UploadStands(q)
  /\ Deleting(q) => faq[q].status = "deleted"
  /\ "Index-FAQ" \notin Faults => Matches(q)

\* A step that touches neither the FAQ's Index-FAQ jobs nor its object, and its
\* row only in ways that keep the hash.
LEMMA Untouched ==
  ASSUME NEW q \in Faqs, InvOf(q), SameIndex(q), NoNewDeletion(q), RowsTogether(q)',
         object'[q] = object[q], faq'[q].indexed = faq[q].indexed,
         Exists(q)' => Exists(q) \/ faq'[q].indexed = NoVersion,
         faq'[q].status # "deleted" => faq[q].status # "deleted",
         Deleting(q) => faq'[q].status = "deleted"
  PROVE  InvOf(q)'
<1>1. OneIndexJob(q)' /\ UploadStands(q)'
  BY DEF InvOf, OneIndexJob, SameIndex, UploadStands
<1>2. Deleting(q)' => faq'[q].status = "deleted"
  BY DEF NoNewDeletion
<1>3. "Index-FAQ" \notin Faults => Matches(q)'
  BY DEF InvOf, Matches, SameIndex
<1>. QED  BY <1>1, <1>2, <1>3 DEF InvOf

LEMMA InvCalls ==
  ASSUME TypeOK, NEW q \in Faqs, InvOf(q),
         \/ \E p \in Faqs : Request(p)
         \/ \E c \in JobSet(calls) : CallStep(c) \/ CallAborts(c)
  PROVE  InvOf(q)'
<1>0. /\ faq \in [Faqs -> [status : FAQStatus \cup {"new", "deleted"},
                           answer : AnswerText, indexed : AnswerText]]
      /\ IsABag(calls) /\ JobSet(calls) \subseteq AnswerCall \cup DeleteCall
      /\ embedding \in [Faqs -> Ing!EmbeddingStatus \cup {"new", "deleted"}]
      /\ IsABag(jobs) /\ JobSet(jobs) \subseteq FaqJob
  BY Typed
<1>s. "deleted" \notin FAQStatus /\ "new" \notin FAQStatus /\ "unanswered" \in FAQStatus
      /\ "answered" \in FAQStatus
  BY DEF FAQStatus
<1>v. /\ OneIndexJob(q) /\ UploadStands(q)
      /\ Exists(q) => Ing!RowExists(q)
      /\ faq[q].status = "new" => faq[q].indexed = NoVersion
      /\ Deleting(q) => faq[q].status = "deleted"
  BY DEF InvOf, RowsTogether
<1>x. ASSUME jobs' = jobs  PROVE SameIndex(q)
  BY <1>x DEF SameIndex, IndexJobs
<1>d. ASSUME jobs' = jobs, NEW c, c.op # "Delete" \/ c.faq # q,
             JobSet(calls') \subseteq JobSet(calls) \cup {c}
      PROVE  NoNewDeletion(q)
  BY <1>d DEF NoNewDeletion, Deleting
<1>1. ASSUME NEW p \in Faqs, Request(p)  PROVE InvOf(q)'
  <2>1. CASE RecordUnanswered(p)
    <3>1. SameIndex(q) /\ NoNewDeletion(q)
      BY <2>1, <1>x DEF RecordUnanswered, NoNewDeletion, Deleting
    <3>2. /\ faq'[q].indexed = faq[q].indexed
          /\ p # q => faq'[q] = faq[q] /\ embedding'[q] = embedding[q]
          /\ p = q => faq[q].status = "new" /\ faq'[q].status = "unanswered" /\ embedding'[q] = "pending"
      BY <1>0, <2>1 DEF RecordUnanswered
    <3>3. RowsTogether(q)'
      BY <1>v, <3>2 DEF RowsTogether, Exists, Ing!RowExists, Ing!EmbeddingStatus
    <3>4. Exists(q)' => Exists(q) \/ faq'[q].indexed = NoVersion
      BY <1>v, <3>2 DEF Exists
    <3>. QED  BY <1>v, <2>1, <3>1, <3>2, <3>3, <3>4, Untouched DEF RecordUnanswered
  <2>2. ASSUME NEW a \in Answers, AnswerChecks(p, a)  PROVE InvOf(q)'
    <3> DEFINE c == [op |-> "Answer", faq |-> p, answer |-> a, pc |-> "update"]
    <3>1. c.op # "Delete"
      OBVIOUS
    <3> HIDE DEF c
    <3>2. JobSet(calls') = JobSet(calls) \cup {c}
      BY <1>0, <2>2, InsertJobs DEF AnswerChecks, c
    <3>3. UNCHANGED <<faq, embedding, object, jobs>>
      BY <2>2 DEF AnswerChecks, tables
    <3>4. SameIndex(q) /\ NoNewDeletion(q)
      BY <1>x, <1>d, <3>1, <3>2, <3>3
    <3>5. RowsTogether(q)' /\ (Exists(q)' => Exists(q))
      BY <1>v, <3>3 DEF RowsTogether, Exists, Ing!RowExists
    <3>. QED  BY <1>v, <3>3, <3>4, <3>5, Untouched
  <2>3. ASSUME NEW s \in FAQStatus, Update(p, s)  PROVE InvOf(q)'
    <3>1. /\ faq'[q].indexed = faq[q].indexed
          /\ p # q => faq'[q] = faq[q]
          /\ p = q => Exists(q) /\ faq'[q].status = s
      BY <1>0, <2>3 DEF Update
    <3>2. UNCHANGED <<calls, embedding, object, jobs>>
      BY <2>3 DEF Update, tables
    <3>3. SameIndex(q) /\ NoNewDeletion(q)
      BY <1>x, <3>2 DEF NoNewDeletion, Deleting
    <3>4. RowsTogether(q)' /\ (Exists(q)' => Exists(q))
      BY <1>s, <1>v, <3>1, <3>2 DEF RowsTogether, Exists, Ing!RowExists
    <3>5. /\ faq'[q].status # "deleted" => faq[q].status # "deleted"
          /\ Deleting(q) => faq'[q].status = "deleted"
      BY <1>s, <1>v, <3>1 DEF Exists
    <3>. QED  BY <3>1, <3>2, <3>3, <3>4, <3>5, Untouched
  <2>4. CASE DeleteRows(p)
    <3> DEFINE c == [op |-> "Delete", faq |-> p, pc |-> "enqueue"]
    <3>0. c.faq = p
      OBVIOUS
    <3> HIDE DEF c
    <3>1. JobSet(calls') = JobSet(calls) \cup {c}
      BY <1>0, <2>4, InsertJobs DEF DeleteRows, c
    <3>2. UNCHANGED <<object, jobs>> /\ SameIndex(q)
      BY <2>4, <1>x DEF DeleteRows
    <3>3. CASE p = q
      <4>1. faq'[q].status = "deleted"
        BY <1>0, <2>4, <3>3 DEF DeleteRows
      <4>2. OneIndexJob(q)'
        BY <1>v, <3>2 DEF OneIndexJob, SameIndex
      <4>3. RowsTogether(q)' /\ UploadStands(q)' /\ Matches(q)'
        BY <1>s, <4>1 DEF RowsTogether, UploadStands, Matches, Exists
      <4>. QED  BY <4>1, <4>2, <4>3 DEF InvOf
    <3>4. CASE p # q
      <4>1. faq'[q] = faq[q] /\ embedding'[q] = embedding[q]
        BY <1>0, <2>4, <3>4 DEF DeleteRows
      <4>2. NoNewDeletion(q)
        BY <1>d, <3>0, <3>1, <3>2, <3>4
      <4>3. RowsTogether(q)' /\ (Exists(q)' => Exists(q))
        BY <1>v, <4>1 DEF RowsTogether, Exists, Ing!RowExists
      <4>. QED  BY <1>v, <3>2, <4>1, <4>2, <4>3, Untouched
    <3>. QED  BY <3>3, <3>4
  <2>. QED  BY <1>1, <2>1, <2>2, <2>3, <2>4 DEF Request
<1>2. ASSUME NEW c \in JobSet(calls), CallStep(c) \/ CallAborts(c)  PROVE InvOf(q)'
  <2>0. c \in AnswerCall \cup DeleteCall
    BY <1>0
  <2>r. ASSUME calls' = Remove(calls, c)  PROVE JobSet(calls') \subseteq JobSet(calls) \cup {c}
    BY <1>0, <2>r, RemoveJobs
  <2>1. CASE AnswerUpdates(c)
    <3>1. c \in AnswerCall
      BY <2>0, <2>1 DEF AnswerUpdates, DeleteCall
    <3> DEFINE d == [c EXCEPT !.pc = "enqueue"]
    <3>2. d.op # "Delete" /\ c.op # "Delete"
      BY <3>1 DEF AnswerCall
    <3> HIDE DEF d
    <3>3. \E e \in {c, d} : JobSet(calls') \subseteq JobSet(calls) \cup {e}
      BY <1>0, <2>1, <2>r, AdvanceJobs DEF AnswerUpdates, d
    <3>4. UNCHANGED <<embedding, object, jobs>>
      BY <2>1 DEF AnswerUpdates, tables
    <3>5. SameIndex(q) /\ NoNewDeletion(q)
      BY <1>x, <1>d, <3>2, <3>3, <3>4
    <3>6. /\ faq'[q].indexed = faq[q].indexed
          /\ faq'[q] = faq[q] \/ (Exists(q) /\ faq'[q].status = "answered")
      BY <1>0, <2>1 DEF AnswerUpdates
    <3>7. RowsTogether(q)' /\ (Exists(q)' => Exists(q))
      BY <1>s, <1>v, <3>4, <3>6 DEF RowsTogether, Exists, Ing!RowExists
    <3>8. /\ faq'[q].status # "deleted" => faq[q].status # "deleted"
          /\ Deleting(q) => faq'[q].status = "deleted"
      BY <1>s, <1>v, <3>6 DEF Exists
    <3>. QED  BY <3>4, <3>5, <3>6, <3>7, <3>8, Untouched
  <2>u. ASSUME UNCHANGED <<faq, embedding, object>>, SameIndex(q), NoNewDeletion(q)  PROVE InvOf(q)'
    <3>1. RowsTogether(q)' /\ (Exists(q)' => Exists(q))
      BY <1>v, <2>u DEF RowsTogether, Exists, Ing!RowExists
    <3>. QED  BY <1>v, <2>u, <3>1, Untouched
  <2>2. CASE AnswerEnqueues(c)
    <3> DEFINE k == Job("Index-FAQ", c.faq, NoVersion, 0)
    <3>1. k.kind = "Index-FAQ" /\ k.file = c.faq /\ k.pc = "ready"
      BY DEF Job
    <3> HIDE DEF k
    <3>2. UNCHANGED <<faq, embedding, object>>
      BY <2>2 DEF AnswerEnqueues, tables
    <3>3. JobSet(jobs') \subseteq JobSet(jobs) \cup {k}
      BY <1>0, <2>2, InsertJobs DEF AnswerEnqueues, EnqueueIndexFaq, k
    <3>4. NoNewDeletion(q)
      BY <2>2, <2>r, <3>1, <3>3 DEF AnswerEnqueues, NoNewDeletion, Deleting
    <3>5. CASE jobs' = jobs
      BY <1>x, <2>u, <3>2, <3>4, <3>5
    <3>6. CASE ~IndexLive(c.faq) /\ jobs' = Insert(jobs, k)
      <4>1. k \notin JobSet(jobs)
        BY <3>1, <3>6 DEF IndexLive
      <4>2. /\ JobSet(jobs') = JobSet(jobs) \cup {k} /\ jobs'[k] = 1
            /\ \A i \in JobSet(jobs) : jobs'[i] = jobs[i]
        BY <1>0, <3>6, <4>1, InsertJobs, InsertCopies
      <4>3. CASE c.faq # q
        <5>1. SameIndex(q)
          BY <3>1, <4>2, <4>3 DEF SameIndex, IndexJobs
        <5>. QED  BY <2>u, <3>2, <3>4, <5>1
      <4>4. CASE c.faq = q
        <5>1. IndexJobs(q) = {} /\ IndexJobs(q)' = {k}
          BY <3>1, <3>6, <4>2, <4>4 DEF IndexJobs, IndexLive
        <5>2. OneIndexJob(q)' /\ UploadStands(q)'
          BY <3>1, <4>2, <5>1 DEF OneIndexJob, UploadStands
        <5>3. "Index-FAQ" \notin Faults => Matches(q)'
          BY <3>1, <3>2, <5>1 DEF InvOf, Matches, Exists
        <5>4. RowsTogether(q)' /\ (Deleting(q)' => faq'[q].status = "deleted")
          BY <1>v, <3>2, <3>4 DEF RowsTogether, Exists, Ing!RowExists, NoNewDeletion
        <5>. QED  BY <5>2, <5>3, <5>4 DEF InvOf
      <4>. QED  BY <4>3, <4>4
    <3>. QED  BY <2>2, <3>5, <3>6 DEF AnswerEnqueues, EnqueueIndexFaq, k
  <2>3. CASE DeleteEnqueues(c)
    <3> DEFINE k == Job("Delete-File-From-Storage", c.faq, NoVersion, 0)
    <3>1. k.kind = "Delete-File-From-Storage" /\ k.file = c.faq
      BY DEF Job
    <3> HIDE DEF k
    <3>2. UNCHANGED <<faq, embedding, object>>
      BY <2>3 DEF DeleteEnqueues, tables
    <3>3. JobSet(jobs') = JobSet(jobs) \cup {k} /\ \A i \in JobSet(jobs) \ {k} : jobs'[i] = jobs[i]
      BY <1>0, <2>3, InsertJobs, InsertCopies DEF DeleteEnqueues, k
    <3>4. SameIndex(q)
      BY <3>1, <3>3 DEF SameIndex, IndexJobs
    <3>5. NoNewDeletion(q)
      BY <2>3, <2>r, <3>1, <3>3 DEF DeleteEnqueues, NoNewDeletion, Deleting
    <3>. QED  BY <2>u, <3>2, <3>4, <3>5
  <2>4. CASE CallAborts(c)
    <3>1. UNCHANGED <<faq, embedding, object, jobs>> /\ NoNewDeletion(q)
      BY <2>4, <2>r DEF CallAborts, tables, NoNewDeletion, Deleting
    <3>. QED  BY <1>x, <2>u, <3>1
  <2>. QED  BY <1>2, <2>1, <2>2, <2>3, <2>4 DEF CallStep
<1>. QED  BY <1>1, <1>2

\* A step of the one Index-FAQ job of the FAQ: what is left to show is that its
\* next state k fits the object and the hash.
LEMMA IndexJobMoved ==
  ASSUME TypeOK, NEW q \in Faqs, InvOf(q), NEW j \in IndexJobs(q), NEW k,
         k.kind = "Index-FAQ", k.file = q,
         \/ jobs' = Advance(jobs, j, k)
         \/ \E i : i.kind # "Index-FAQ" /\ jobs' = Insert(Advance(jobs, j, k), i),
         NoNewDeletion(q), RowsTogether(q)', faq'[q].status = faq[q].status,
         faq[q].status # "deleted" /\ k.pc \in {"status", "rag", "hash"} => object'[q] = k.ver,
         "Index-FAQ" \notin Faults /\ Exists(q) /\ k.pc \in {"ready", "done"} =>
           faq'[q].indexed = NoVersion \/ object'[q] = faq'[q].indexed
  PROVE  InvOf(q)'
<1>1. IndexJobs(q)' = {k} /\ jobs'[k] = 1
  BY IndexMoves DEF InvOf
<1>2. OneIndexJob(q)' /\ UploadStands(q)'
  BY <1>1 DEF OneIndexJob, UploadStands
<1>3. Deleting(q)' => faq'[q].status = "deleted"
  BY DEF NoNewDeletion, InvOf
<1>4. "Index-FAQ" \notin Faults => Matches(q)'
  BY <1>1 DEF Matches, Exists
<1>. QED  BY <1>2, <1>3, <1>4 DEF InvOf

\* ... or it is gone.
LEMMA IndexJobGone ==
  ASSUME TypeOK, NEW q \in Faqs, InvOf(q), NEW j \in IndexJobs(q), jobs' = Remove(jobs, j),
         NoNewDeletion(q), RowsTogether(q)', UNCHANGED <<faq, object>>,
         Exists(q) => j.pc \in {"ready", "done"} \/ "Index-FAQ" \in Faults
  PROVE  InvOf(q)'
<1>1. IndexJobs(q)' = {} /\ IndexJobs(q) = {j}
  BY IndexMoves DEF InvOf, OneIndexJob
<1>2. OneIndexJob(q)' /\ UploadStands(q)'
  BY <1>1 DEF OneIndexJob, UploadStands
<1>3. Deleting(q)' => faq'[q].status = "deleted"
  BY DEF NoNewDeletion, InvOf
<1>4. "Index-FAQ" \notin Faults => Matches(q)'
  BY <1>1 DEF InvOf, Matches, Exists
<1>. QED  BY <1>2, <1>3, <1>4 DEF InvOf

\* An attempt ends without success: on a FAQ or a files row that is not there,
\* or by a failure from outside.
LEMMA IndexJobFails ==
  ASSUME TypeOK, NEW q \in Faqs, InvOf(q), NEW j \in IndexJobs(q), Ing!AttemptFails(j),
         NoNewDeletion(q), UNCHANGED <<faq, embedding, object>>,
         ~Exists(q) \/ "Index-FAQ" \in Faults
  PROVE  InvOf(q)'
<1>0. j \in FaqJob /\ j.kind = "Index-FAQ" /\ j.file = q
  BY DEF TypeOK, IndexJobs
<1>1. RowsTogether(q)'
  BY DEF InvOf, RowsTogether, Exists, Ing!RowExists
<1>2. CASE LastAttempt(j)
  <2>1. jobs' = Remove(jobs, j)
    BY <1>2, SameFailure DEF AfterFailure
  <2>. QED  BY <1>1, <2>1, IndexJobGone
<1>3. CASE ~LastAttempt(j)
  <2> DEFINE k == Rescheduled(j)
  <2>1. jobs' = Advance(jobs, j, k)
    BY <1>3, SameFailure DEF AfterFailure
  <2>2. k.kind = "Index-FAQ" /\ k.file = q /\ k.pc = "ready"
    BY <1>0, <1>3, RescheduledFields
  <2> HIDE DEF k
  <2>. QED  BY <1>1, <2>1, <2>2, IndexJobMoved
<1>. QED  BY <1>2, <1>3

\* A step of some other job: only a deletion touches the object, and then the
\* FAQ is deleted.
LEMMA InvOtherJobs ==
  ASSUME TypeOK, NEW q \in Faqs, InvOf(q), NEW j \in JobSet(jobs), j \notin IndexJobs(q),
         WorkStep(j) \/ JobFails(j), SameIndex(q), NoNewDeletion(q)
  PROVE  InvOf(q)'
<1>0. /\ faq \in [Faqs -> [status : FAQStatus \cup {"new", "deleted"},
                           answer : AnswerText, indexed : AnswerText]]
      /\ embedding \in [Faqs -> Ing!EmbeddingStatus \cup {"new", "deleted"}]
      /\ object \in [Faqs -> AnswerText]
      /\ j \in FaqJob /\ j.file \in Faqs
  BY Typed, JobFields
<1>v. /\ OneIndexJob(q) /\ UploadStands(q)
      /\ Exists(q) => Ing!RowExists(q)
      /\ faq[q].status = "new" => faq[q].indexed = NoVersion
      /\ Deleting(q) => faq[q].status = "deleted"
  BY DEF InvOf, RowsTogether
<1>u. ASSUME faq'[q] = faq[q], object'[q] = object[q], Ing!RowExists(q) => Ing!RowExists(q)'
      PROVE  InvOf(q)'
  <2>1. RowsTogether(q)' /\ (Exists(q)' => Exists(q))
    BY <1>v, <1>u DEF RowsTogether, Exists
  <2>. QED  BY <1>v, <1>u, <2>1, Untouched
<1>1. CASE IndexStep(j)
  <2>1. j.kind = "Index-FAQ"
    BY <1>1 DEF IndexStep, ReadFaq, WipeChunks, UploadAnswer, SetUploadStatus, HandOff,
                SetLastIndexedHash, IndexAt
  <2>2. j.file # q
    BY <2>1 DEF IndexJobs
  <2>3. faq'[q] = faq[q]
    BY <1>0, <1>1, <2>2 DEF IndexStep, ReadFaq, WipeChunks, UploadAnswer, SetUploadStatus, HandOff,
                SetLastIndexedHash, faqVars
  <2>4. object'[q] = object[q] /\ embedding' = embedding
    BY <1>0, <1>1, <2>2 DEF IndexStep, ReadFaq, WipeChunks, UploadAnswer, SetUploadStatus, HandOff,
                SetLastIndexedHash, tables
  <2>. QED  BY <1>u, <2>3, <2>4 DEF Ing!RowExists
<1>2. CASE DeleteObject(j)
  <2>1. UNCHANGED <<faq, embedding>>
    BY <1>2 DEF DeleteObject, faqVars
  <2>2. CASE j.file = q
    <3>1. faq[q].status = "deleted" /\ faq'[q].status = "deleted"
      BY <1>2, <1>v, <2>1, <2>2 DEF DeleteObject, Deleting
    <3>2. OneIndexJob(q)'
      BY <1>v DEF OneIndexJob, SameIndex
    <3>3. RowsTogether(q)' /\ UploadStands(q)' /\ Matches(q)'
      BY <3>1 DEF RowsTogether, UploadStands, Matches, Exists, FAQStatus
    <3>. QED  BY <3>1, <3>2, <3>3 DEF InvOf
  <2>3. CASE j.file # q
    <3>1. object'[q] = object[q]
      BY <1>0, <1>2, <2>3 DEF DeleteObject
    <3>. QED  BY <1>u, <2>1, <3>1 DEF Ing!RowExists
  <2>. QED  BY <2>2, <2>3
<1>3. CASE Ing!WorkStep(j) /\ UNCHANGED faqVars
  <2>1. faq' = faq
    BY <1>3 DEF faqVars
  <2>2. object' = object
    BY <1>3 DEF Ing!WorkStep, Ing!ArmEmbedding, Ing!FetchSource, Ing!EmitChunk, Ing!EmitMark,
         Ing!StoreChunk, Ing!CountChunks, Ing!SetCompleted, Ing!JobCompletes
  <2>3. Ing!RowExists(q) => Ing!RowExists(q)'
    BY <1>0, <1>3 DEF Ing!WorkStep, Ing!ArmEmbedding, Ing!FetchSource, Ing!EmitChunk, Ing!EmitMark,
         Ing!StoreChunk, Ing!CountChunks, Ing!SetCompleted, Ing!JobCompletes,
         Ing!SetEmbeddingStatus, Ing!RowExists, Ing!EmbeddingStatus
  <2>. QED  BY <1>u, <2>1, <2>2, <2>3
<1>4. CASE JobFails(j)
  BY <1>4, <1>u DEF JobFails, Ing!JobFails, faqVars, Ing!RowExists
<1>. QED  BY <1>1, <1>2, <1>3, <1>4 DEF WorkStep

\* A step of the FAQ's Index-FAQ job.
LEMMA InvIndexJob ==
  ASSUME TypeOK, NEW q \in Faqs, InvOf(q), NEW j \in IndexJobs(q),
         WorkStep(j) \/ JobFails(j), calls' = calls => NoNewDeletion(q)
  PROVE  InvOf(q)'
<1>0. /\ faq \in [Faqs -> [status : FAQStatus \cup {"new", "deleted"},
                           answer : AnswerText, indexed : AnswerText]]
      /\ object \in [Faqs -> AnswerText]
      /\ j \in JobSet(jobs) /\ j \in FaqJob /\ j.kind = "Index-FAQ" /\ j.file = q
  BY Typed DEF IndexJobs
<1>v. /\ OneIndexJob(q) /\ UploadStands(q)
      /\ Exists(q) => Ing!RowExists(q)
      /\ faq[q].status = "new" => faq[q].indexed = NoVersion
      /\ IndexJobs(q) = {j}
  BY DEF InvOf, RowsTogether, OneIndexJob
<1>e. ASSUME NEW pc
      PROVE  /\ [j EXCEPT !.pc = pc].kind = "Index-FAQ" /\ [j EXCEPT !.pc = pc].file = q
             /\ [j EXCEPT !.pc = pc].pc = pc /\ [j EXCEPT !.pc = pc].ver = j.ver
  BY <1>0 DEF FaqJob
<1>x. Exists(q) => faq[q].status # "deleted"
  BY DEF Exists, FAQStatus
<1>r. ASSUME UNCHANGED <<faq, embedding>>  PROVE RowsTogether(q)'
  BY <1>r, <1>v DEF RowsTogether, Exists, Ing!RowExists
<1>1. CASE ReadFaq(j)
  <2>0. UNCHANGED <<faq, calls, embedding, object>> /\ NoNewDeletion(q) /\ j.pc = "ready"
    BY <1>1 DEF ReadFaq, faqVars, tables, IndexAt
  <2>1. CASE ~Exists(q)
    BY <1>0, <1>1, <2>0, <2>1, IndexJobFails DEF ReadFaq
  <2>2. CASE Exists(q)
    <3> DEFINE k == IF NeedsIndex(q) THEN [j EXCEPT !.pc = "wipe", !.ver = faq[q].answer]
                                     ELSE [j EXCEPT !.pc = "done"]
    <3>1. k.kind = "Index-FAQ" /\ k.file = q /\ k.pc \in {"wipe", "done"}
      BY <1>0 DEF FaqJob
    <3>2. jobs' = Advance(jobs, j, k)
      BY <1>0, <1>1, <2>2 DEF ReadFaq
    <3> HIDE DEF k
    <3>3. "Index-FAQ" \notin Faults => faq[q].indexed = NoVersion \/ object[q] = faq[q].indexed
      BY <1>v, <2>0, <2>2 DEF InvOf, Matches
    <3>. QED  BY <1>r, <2>0, <3>1, <3>2, <3>3, IndexJobMoved
  <2>. QED  BY <2>1, <2>2
<1>2. CASE WipeChunks(j)
  <2> DEFINE k == [j EXCEPT !.pc = "upload"]
  <2>1. k.kind = "Index-FAQ" /\ k.file = q /\ k.pc = "upload"
    BY <1>e
  <2>2. jobs' = Advance(jobs, j, k)
    BY <1>2 DEF WipeChunks, MovesTo
  <2> HIDE DEF k
  <2>3. UNCHANGED <<faq, calls, embedding, object>>
    BY <1>2 DEF WipeChunks, faqVars
  <2>. QED  BY <1>r, <2>1, <2>2, <2>3, IndexJobMoved
<1>3. CASE UploadAnswer(j)
  <2> DEFINE k == [j EXCEPT !.pc = "status"]
  <2>1. k.kind = "Index-FAQ" /\ k.file = q /\ k.pc = "status" /\ k.ver = j.ver
    BY <1>e
  <2>2. jobs' = Advance(jobs, j, k)
    BY <1>3 DEF UploadAnswer, MovesTo
  <2> HIDE DEF k
  <2>3. UNCHANGED <<faq, calls, embedding>> /\ object'[q] = j.ver
    BY <1>0, <1>3 DEF UploadAnswer, faqVars
  <2>. QED  BY <1>r, <2>1, <2>2, <2>3, IndexJobMoved
<1>4. CASE SetUploadStatus(j)
  <2>0. UNCHANGED <<faq, calls, embedding, object>> /\ j.pc = "status"
    BY <1>4 DEF SetUploadStatus, faqVars, tables, IndexAt
  <2>1. CASE Ing!RowExists(q)
    <3> DEFINE k == [j EXCEPT !.pc = "rag"]
    <3>1. k.kind = "Index-FAQ" /\ k.file = q /\ k.pc = "rag" /\ k.ver = j.ver
      BY <1>e
    <3>2. jobs' = Advance(jobs, j, k)
      BY <1>0, <1>4, <2>1 DEF SetUploadStatus, MovesTo
    <3> HIDE DEF k
    <3>3. faq[q].status # "deleted" => object[q] = j.ver
      BY <1>v, <2>0 DEF UploadStands
    <3>. QED  BY <1>r, <2>0, <3>1, <3>2, <3>3, IndexJobMoved
  <2>2. CASE ~Ing!RowExists(q)
    BY <1>0, <1>4, <1>v, <2>0, <2>2, IndexJobFails DEF SetUploadStatus
  <2>. QED  BY <2>1, <2>2
<1>5. CASE HandOff(j)
  <2> DEFINE k == [j EXCEPT !.pc = "hash"]
             i == Job("Process-RAG-File", j.file, NoVersion, 0)
  <2>1. k.kind = "Index-FAQ" /\ k.file = q /\ k.pc = "hash" /\ k.ver = j.ver
    BY <1>e
  <2>2. i.kind # "Index-FAQ"
    BY DEF Job
  <2>3. jobs' = Insert(Advance(jobs, j, k), i)
    BY <1>5 DEF HandOff
  <2> HIDE DEF k, i
  <2>4. UNCHANGED <<faq, calls, embedding, object>> /\ j.pc = "rag"
    BY <1>5 DEF HandOff, faqVars, tables, IndexAt
  <2>5. faq[q].status # "deleted" => object[q] = j.ver
    BY <1>v, <2>4 DEF UploadStands
  <2>. QED  BY <1>r, <2>1, <2>2, <2>3, <2>4, <2>5, IndexJobMoved
<1>6. CASE SetLastIndexedHash(j)
  <2> DEFINE k == [j EXCEPT !.pc = "done"]
  <2>1. k.kind = "Index-FAQ" /\ k.file = q /\ k.pc = "done"
    BY <1>e
  <2>2. jobs' = Advance(jobs, j, k)
    BY <1>6 DEF SetLastIndexedHash, MovesTo
  <2> HIDE DEF k
  <2>3. UNCHANGED <<calls, embedding, object>> /\ j.pc = "hash"
    BY <1>6 DEF SetLastIndexedHash, tables, IndexAt
  <2>4. /\ faq'[q].status = faq[q].status
        /\ Exists(q) => faq'[q].indexed = j.ver
        /\ ~Exists(q) => faq'[q].indexed = faq[q].indexed
    BY <1>0, <1>6 DEF SetLastIndexedHash
  <2>5. Exists(q) => object[q] = j.ver
    BY <1>v, <1>x, <2>3 DEF UploadStands
  <2>6. RowsTogether(q)'
    BY <1>v, <2>3, <2>4 DEF RowsTogether, Exists, Ing!RowExists, FAQStatus
  <2>. QED  BY <2>1, <2>2, <2>3, <2>4, <2>5, <2>6, IndexJobMoved
<1>7. CASE DeleteObject(j)
  BY <1>0, <1>7 DEF DeleteObject
<1>8. CASE Ing!WorkStep(j) /\ UNCHANGED faqVars
  <2>1. Ing!JobCompletes(j)
    BY <1>0, <1>8 DEF Ing!WorkStep, Ing!ArmEmbedding, Ing!FetchSource, Ing!EmitChunk, Ing!EmitMark,
         Ing!StoreChunk, Ing!CountChunks, Ing!SetCompleted
  <2>2. jobs' = Remove(jobs, j) /\ j.pc = "done" /\ UNCHANGED <<faq, calls, embedding, object>>
    BY <1>8, <2>1, SameRemove DEF Ing!JobCompletes, faqVars
  <2>. QED  BY <1>r, <2>2, IndexJobGone
<1>9. CASE JobFails(j)
  <2>1. /\ "Index-FAQ" \in Faults /\ Ing!AttemptFails(j)
        /\ UNCHANGED <<faq, calls, embedding, object>>
    BY <1>0, <1>9 DEF JobFails, Ing!JobFails, faqVars
  <2>. QED  BY <2>1, IndexJobFails
<1>. QED  BY <1>1, <1>2, <1>3, <1>4, <1>5, <1>6, <1>7, <1>8, <1>9 DEF WorkStep, IndexStep

LEMMA InvInit == Init => \A q \in Faqs : InvOf(q)
<1> SUFFICES ASSUME Init, NEW q \in Faqs  PROVE InvOf(q)
  OBVIOUS
<1>1. JobSet(jobs) = {} /\ JobSet(calls) = {}
  <2>1. JobSet(EmptyBag) = {} /\ Ing!EmptyBag = EmptyBag
    BY EmptyJobs DEF EmptyBag, Ing!EmptyBag, SetToBag, Ing!SetToBag
  <2>. QED  BY <2>1 DEF Init, Ing!Init
<1>2. faq[q] = [status |-> "new", answer |-> NoVersion, indexed |-> NoVersion]
  BY DEF Init
<1>. QED  BY <1>1, <1>2 DEF InvOf, OneIndexJob, IndexJobs, RowsTogether, UploadStands, Deleting,
                            Matches, Exists, FAQStatus

LEMMA InvStep ==
  ASSUME TypeOK, \A q \in Faqs : InvOf(q), [Next]_vars
  PROVE  \A q \in Faqs : InvOf(q)'
<1> SUFFICES ASSUME NEW q \in Faqs  PROVE InvOf(q)'
  OBVIOUS
<1>0. InvOf(q)
  OBVIOUS
<1>1. CASE UNCHANGED vars
  BY <1>0, <1>1 DEF vars, InvOf, OneIndexJob, IndexJobs, RowsTogether, UploadStands, Deleting,
                    Matches, Exists, Ing!RowExists
<1>2. CASE \/ \E p \in Faqs : Request(p)
           \/ \E c \in JobSet(calls) : CallStep(c) \/ CallAborts(c)
  BY <1>0, <1>2, InvCalls
<1>3. ASSUME NEW j \in JobSet(jobs), WorkStep(j) \/ JobFails(j)  PROVE InvOf(q)'
  <2>1. /\ j \notin IndexJobs(q) => SameIndex(q)
        /\ calls' = calls => NoNewDeletion(q)
    BY <1>3, JobStepFrame
  <2>2. calls' = calls
    BY <1>3 DEF WorkStep, IndexStep, ReadFaq, WipeChunks, UploadAnswer, SetUploadStatus, HandOff,
                SetLastIndexedHash, DeleteObject, JobFails, faqVars
  <2>3. CASE j \in IndexJobs(q)
    BY <1>0, <1>3, <2>1, <2>3, InvIndexJob
  <2>4. CASE j \notin IndexJobs(q)
    BY <1>0, <1>3, <2>1, <2>2, <2>4, InvOtherJobs
  <2>. QED  BY <2>3, <2>4
<1>. QED  BY <1>1, <1>2, <1>3 DEF Next

\* The inductive invariant, whatever fails: one Index-FAQ job per FAQ, whose
\* upload nothing replaces before it records the hash, and deletions of
\* deleted FAQs only.
THEOREM Invariant == Spec => []IndexInv
<1> DEFINE Inv == \A q \in Faqs : InvOf(q)
<1>1. Init => Inv
  BY InvInit
<1>2. TypeOK /\ Inv /\ [Next]_vars => Inv'
  BY InvStep
<1>3. Inv => IndexInv
  BY DEF InvOf, IndexInv
<1> HIDE DEF Inv
<1>. QED  BY <1>1, <1>2, <1>3, TypeInit, TypeStep, PTL DEF Spec

\* UniqueOpts is enough: unless attempts at Index-FAQ are interrupted, the hash
\* names the object that is stored, however many edits overlap.
THEOREM IndexedIsStored ==
  ASSUME "Index-FAQ" \notin Faults
  PROVE  Spec => []IndexedMatchesObject
<1> DEFINE Inv == \A q \in Faqs : InvOf(q)
<1>1. Init => Inv
  BY InvInit
<1>2. TypeOK /\ Inv /\ [Next]_vars => Inv'
  BY InvStep
<1>3. Inv => IndexedMatchesObject
  BY DEF InvOf, Matches, IndexJobs, IndexedMatchesObject
<1> HIDE DEF Inv
<1>. QED  BY <1>1, <1>2, <1>3, TypeInit, TypeStep, PTL DEF Spec

-----------------------------------------------------------------------------
(* One answer that is never edited becomes searchable once it is indexed *)

PastLookup == {"wipe", "upload", "status", "rag", "hash"}

\* The hash is set only once there is an answer, and only a FAQ without a hash
\* is indexed.
HashOk(q) ==
  /\ faq[q].status = "new" => faq[q].answer = NoVersion
  /\ faq[q].status # "deleted" =>
       /\ faq[q].indexed # NoVersion => faq[q].answer # NoVersion
       /\ \A j \in IndexJobs(q) : j.pc \in PastLookup =>
            faq[q].answer # NoVersion /\ faq[q].indexed = NoVersion

\* The document has been handed to the ingestion pipeline.
HandedOff(q) ==
  /\ faq[q].status # "deleted"
  /\ faq[q].indexed # NoVersion \/ \E j \in IndexJobs(q) : j.pc = "hash"

Ingests(j) == j.kind = "Process-RAG-File" /\ j.pc \in {"ready", "fetch", "emit"}

\* A job that will store chunk n of the FAQ, or emit the job that does.
BringsChunk(j, q, n) ==
  /\ j.file = q
  /\ \/ Ingests(j) /\ j.n <= n
     \/ j.kind = "Generate-Chunks" /\ j.pc = "ready" /\ j.n = n

\* A job that will set the flag, or emit the job that does.
BringsFlag(j, q) ==
  /\ j.file = q
  /\ Ingests(j) \/ (j.kind = "Mark-File-Embedded" /\ j.pc \in {"ready", "set"})

ChunkAssured(q, c) ==
  c \in chunks[q] \/ \E j \in JobSet(jobs) : BringsChunk(j, q, c.index)

FlagAssured(q) ==
  embedding[q] = "completed" \/ \E j \in JobSet(jobs) : BringsFlag(j, q)

\* Unless a job was given up, what was handed off is stored or on its way.
Assured(q) ==
  HandedOff(q) /\ NothingDiscarded(q) =>
    (\A a \in Answers : \A c \in Ing!ChunksOf(a) : ChunkAssured(q, c)) /\ FlagAssured(q)

\* Jobs that are not at work stay.
LEMMA OthersStay ==
  ASSUME TypeOK, NEW j \in JobSet(jobs), WorkStep(j) \/ JobFails(j)
  PROVE  JobSet(jobs) \ {j} \subseteq JobSet(jobs')
<1>0. IsABag(jobs)
  BY DEF TypeOK
<1>1. PICK k : \/ jobs' = Remove(jobs, j)
               \/ jobs' = Advance(jobs, j, k)
               \/ \E i : jobs' = Insert(Advance(jobs, j, k), i)
  BY JobGoesOn
<1>2. IsABag(Advance(jobs, j, k)) /\ JobSet(jobs) \ {j} \subseteq JobSet(Advance(jobs, j, k))
  BY <1>0, AdvanceJobs
<1>. QED  BY <1>0, <1>1, <1>2, RemoveJobs, InsertJobs

\* A failed attempt of a job that is not given up.
LEMMA ComesBack ==
  ASSUME TypeOK, NEW j \in JobSet(jobs), Ing!AttemptFails(j), NothingDiscarded(j.file)'
  PROVE  /\ Rescheduled(j) \in JobSet(jobs')
         /\ Rescheduled(j).kind = j.kind /\ Rescheduled(j).file = j.file
         /\ Rescheduled(j).pc = "ready"
         /\ Rescheduled(j).n = IF j.kind \in {"Process-RAG-File", "Index-FAQ"} THEN 0 ELSE j.n
<1>0. IsABag(jobs) /\ j \in FaqJob /\ j.kind \in Kinds
  BY JobFields DEF TypeOK
<1>1. ~LastAttempt(j)
  <2> SUFFICES ASSUME LastAttempt(j)  PROVE FALSE
    OBVIOUS
  <2>1. <<j.kind, j.file>> \in discarded'
    BY SameFailure
  <2>2. <<j.kind, j.file>>[2] = j.file
    OBVIOUS
  <2>. QED  BY <2>1, <2>2 DEF NothingDiscarded
<1>2. Rescheduled(j) \in JobSet(jobs')
  BY <1>0, <1>1, SameFailure, FailureJobs
<1>3. Rescheduled(j).n = IF j.kind \in {"Process-RAG-File", "Index-FAQ"} THEN 0 ELSE j.n
  <2>1. CASE j.kind \in {"Process-RAG-File", "Index-FAQ"}
    BY <2>1 DEF Rescheduled, Job
  <2>2. CASE j.kind \notin {"Process-RAG-File", "Index-FAQ"}
    BY <1>0, <2>2 DEF Rescheduled, Job, Kinds, Ing!Kinds
  <2>. QED  BY <2>1, <2>2
<1>. QED  BY <1>0, <1>1, <1>2, <1>3, RescheduledFields

\* A job's next step of its Work.
LEMMA StepsTo ==
  ASSUME TypeOK, NEW j \in JobSet(jobs), NEW pc, Ing!JobMoves(j, [j EXCEPT !.pc = pc])
  PROVE  \E k \in JobSet(jobs') :
           k.kind = j.kind /\ k.file = j.file /\ k.n = j.n /\ k.pc = pc
<1> DEFINE k == [j EXCEPT !.pc = pc]
<1>1. k.kind = j.kind /\ k.file = j.file /\ k.n = j.n /\ k.pc = pc
  BY DEF TypeOK, FaqJob
<1>2. jobs' = Advance(jobs, j, k)
  BY SameAdvance DEF Ing!JobMoves
<1> HIDE DEF k
<1>3. k \in JobSet(jobs')
  BY <1>2, AdvanceJobs DEF TypeOK
<1>. QED  BY <1>1, <1>3

\* Only Index-FAQ's wipe and the deletion take a chunk that was stored or is on
\* its way.
LEMMA KeepsChunk ==
  ASSUME TypeOK, NEW a, Answers = {a}, NEW q \in Faqs, NEW c \in Ing!ChunksOf(a),
         ChunkAssured(q, c),
         NEW j \in JobSet(jobs), WorkStep(j) \/ JobFails(j), ~(WipeChunks(j) /\ j.file = q),
         NothingDiscarded(q)'
  PROVE  ChunkAssured(q, c)'
<1>0. /\ IsABag(jobs) /\ chunks \in [Faqs -> SUBSET ChunkRows]
      /\ j \in FaqJob /\ j.kind \in Kinds /\ j.file \in Faqs /\ j.n \in Nat
      /\ j.kind = "Generate-Chunks" => j.ver \in Answers
      /\ j.kind = "Process-RAG-File" /\ j.pc = "emit" => j.ver \in Answers
  BY Typed, JobFields
<1>c. c = [index |-> c.index, ver |-> a] /\ c.index \in Nat /\ c.index < ChunkCount[a]
  <2>1. ChunkCount[a] \in Nat
    BY FaqAssumption
  <2>. QED  BY <2>1 DEF Ing!ChunksOf
<1>k. ASSUME NEW k \in JobSet(jobs'), BringsChunk(k, q, c.index)  PROVE ChunkAssured(q, c)'
  BY <1>k DEF ChunkAssured
<1>1. CASE c \in chunks[q]
  <2>1. c \in chunks'[q]
    <3>1. CASE IndexStep(j)
      BY <1>0, <1>1, <3>1 DEF IndexStep, ReadFaq, WipeChunks, UploadAnswer, SetUploadStatus, HandOff,
                  SetLastIndexedHash, tables
    <3>2. CASE DeleteObject(j)
      BY <1>1, <3>2 DEF DeleteObject
    <3>3. CASE Ing!WorkStep(j)
      BY <1>0, <1>1, <3>3 DEF Ing!WorkStep, Ing!ArmEmbedding, Ing!FetchSource, Ing!EmitChunk,
           Ing!EmitMark, Ing!StoreChunk, Ing!CountChunks, Ing!SetCompleted, Ing!JobCompletes
    <3>4. CASE JobFails(j)
      BY <1>1, <3>4 DEF JobFails, Ing!JobFails
    <3>. QED  BY <3>1, <3>2, <3>3, <3>4 DEF WorkStep
  <2>. QED  BY <2>1 DEF ChunkAssured
<1>2. ASSUME NEW i \in JobSet(jobs), BringsChunk(i, q, c.index), i # j  PROVE ChunkAssured(q, c)'
  BY <1>2, <1>k, OthersStay
<1>3. CASE BringsChunk(j, q, c.index)
  <2>0. j.file = q /\ j.kind \in {"Process-RAG-File", "Generate-Chunks"}
    BY <1>3 DEF BringsChunk, Ingests
  <2>f. ASSUME Ing!AttemptFails(j)  PROVE ChunkAssured(q, c)'
    <3>1. /\ Rescheduled(j) \in JobSet(jobs')
          /\ Rescheduled(j).kind = j.kind /\ Rescheduled(j).file = j.file
          /\ Rescheduled(j).pc = "ready"
          /\ Rescheduled(j).n = IF j.kind \in {"Process-RAG-File", "Index-FAQ"} THEN 0 ELSE j.n
      BY <2>0, <2>f, ComesBack
    <3>2. BringsChunk(Rescheduled(j), q, c.index)
      BY <1>3, <1>c, <2>0, <3>1 DEF BringsChunk, Ingests
    <3>. QED  BY <1>k, <3>1, <3>2
  <2>1. CASE Ing!ArmEmbedding(j)
    <3>1. CASE Ing!JobMoves(j, [j EXCEPT !.pc = "fetch"])
      <4>1. PICK k \in JobSet(jobs') : k.kind = j.kind /\ k.file = j.file /\ k.n = j.n /\ k.pc = "fetch"
        BY <3>1, StepsTo
      <4>. QED  BY <1>3, <1>k, <2>1, <4>1 DEF BringsChunk, Ingests, Ing!ArmEmbedding
    <3>. QED  BY <2>1, <2>f, <3>1 DEF Ing!ArmEmbedding
  <2>2. CASE Ing!FetchSource(j)
    <3> DEFINE k == [j EXCEPT !.pc = "emit", !.ver = object[j.file]]
    <3>1. k.kind = j.kind /\ k.file = j.file /\ k.n = j.n /\ k.pc = "emit"
      BY <1>0 DEF FaqJob
    <3>2. Ing!AttemptFails(j) \/ jobs' = Advance(jobs, j, k)
      BY <2>2, SameAdvance DEF Ing!FetchSource, Ing!JobMoves
    <3> HIDE DEF k
    <3>3. ASSUME jobs' = Advance(jobs, j, k)  PROVE ChunkAssured(q, c)'
      <4>1. k \in JobSet(jobs')
        BY <1>0, <3>3, AdvanceJobs
      <4>. QED  BY <1>3, <1>k, <2>2, <3>1, <4>1 DEF BringsChunk, Ingests, Ing!FetchSource
    <3>. QED  BY <2>f, <3>2, <3>3
  <2>3. CASE Ing!EmitChunk(j)
    <3> DEFINE k == [j EXCEPT !.n = @ + 1]
               i == Job("Generate-Chunks", j.file, j.ver, j.n)
    <3>1. k.kind = j.kind /\ k.file = j.file /\ k.n = j.n + 1 /\ k.pc = j.pc
      BY <1>0 DEF FaqJob
    <3>2. i.kind = "Generate-Chunks" /\ i.file = j.file /\ i.n = j.n /\ i.pc = "ready"
      BY DEF Job
    <3>3. jobs' = Insert(Advance(jobs, j, k), i)
      BY <2>3, SameInsert, SameAdvance, SameJob DEF Ing!EmitChunk
    <3> HIDE DEF k, i
    <3>4. k \in JobSet(jobs') /\ i \in JobSet(jobs')
      BY <1>0, <3>3, AdvanceJobs, InsertJobs
    <3>5. j.kind = "Process-RAG-File" /\ j.pc = "emit" /\ j.n <= c.index
      BY <1>3, <2>3 DEF BringsChunk, Ing!EmitChunk
    <3>6. CASE j.n = c.index
      BY <1>k, <2>0, <3>2, <3>4, <3>6 DEF BringsChunk
    <3>7. CASE j.n # c.index
      <4>1. k.n <= c.index
        BY <1>0, <1>c, <3>1, <3>5, <3>7
      <4>. QED  BY <1>k, <2>0, <3>1, <3>4, <3>5, <4>1 DEF BringsChunk, Ingests
    <3>. QED  BY <3>6, <3>7
  <2>4. CASE Ing!EmitMark(j)
    <3>1. j.n <= c.index /\ j.n = ChunkCount[j.ver] /\ j.ver \in Answers
      BY <1>0, <1>3, <2>4 DEF BringsChunk, Ing!EmitMark
    <3>. QED  BY <1>0, <1>c, <3>1
  <2>5. CASE Ing!StoreChunk(j)
    <3>1. CASE chunks' = [chunks EXCEPT ![j.file] = @ \cup {[index |-> j.n, ver |-> j.ver]}]
      <4>1. j.n = c.index /\ j.ver = a
        BY <1>0, <1>3, <2>5 DEF BringsChunk, Ingests, Ing!StoreChunk
      <4>2. c \in chunks'[q]
        BY <1>0, <1>c, <2>0, <3>1, <4>1
      <4>. QED  BY <4>2 DEF ChunkAssured
    <3>. QED  BY <2>5, <2>f, <3>1 DEF Ing!StoreChunk
  <2>6. CASE Ing!JobCompletes(j)
    BY <1>3, <2>6 DEF BringsChunk, Ingests, Ing!JobCompletes
  <2>7. CASE JobFails(j)
    BY <2>7, <2>f DEF JobFails, Ing!JobFails
  <2>8. ~IndexStep(j) /\ ~DeleteObject(j) /\ ~Ing!CountChunks(j) /\ ~Ing!SetCompleted(j)
    BY <2>0 DEF IndexStep, ReadFaq, WipeChunks, UploadAnswer, SetUploadStatus, HandOff,
                SetLastIndexedHash, IndexAt, DeleteObject, Ing!CountChunks, Ing!SetCompleted
  <2>. QED  BY <2>1, <2>2, <2>3, <2>4, <2>5, <2>6, <2>7, <2>8 DEF WorkStep, Ing!WorkStep
<1>. QED  BY <1>1, <1>2, <1>3 DEF ChunkAssured

\* Nothing takes the flag, or the jobs that will set it.
LEMMA KeepsFlag ==
  ASSUME TypeOK, NEW q \in Faqs, FlagAssured(q),
         NEW j \in JobSet(jobs), WorkStep(j) \/ JobFails(j), NothingDiscarded(q)'
  PROVE  FlagAssured(q)'
<1>0. /\ IsABag(jobs) /\ embedding \in [Faqs -> Ing!EmbeddingStatus \cup {"new", "deleted"}]
      /\ j \in FaqJob /\ j.kind \in Kinds /\ j.file \in Faqs
  BY Typed, JobFields
<1>k. ASSUME NEW k \in JobSet(jobs'), BringsFlag(k, q)  PROVE FlagAssured(q)'
  BY <1>k DEF FlagAssured
<1>f. ASSUME BringsFlag(j, q), Ing!AttemptFails(j)  PROVE FlagAssured(q)'
  <2>1. /\ Rescheduled(j) \in JobSet(jobs')
        /\ Rescheduled(j).kind = j.kind /\ Rescheduled(j).file = j.file
        /\ Rescheduled(j).pc = "ready"
    BY <1>f, ComesBack DEF BringsFlag
  <2>. QED  BY <1>f, <1>k, <2>1 DEF BringsFlag, Ingests
<1>1. CASE Ing!ArmEmbedding(j)
  <2>1. CASE Ing!JobMoves(j, [j EXCEPT !.pc = "fetch"]) /\ Ing!SetEmbeddingStatus(j.file, "processing")
    <3>1. PICK k \in JobSet(jobs') : k.kind = j.kind /\ k.file = j.file /\ k.pc = "fetch"
      BY <2>1, StepsTo
    <3>2. CASE j.file = q
      BY <1>1, <1>k, <3>1, <3>2 DEF BringsFlag, Ingests, Ing!ArmEmbedding
    <3>3. CASE j.file # q
      <4>1. embedding'[q] = embedding[q]
        BY <1>0, <2>1, <3>3 DEF Ing!SetEmbeddingStatus
      <4>2. ~BringsFlag(j, q)
        BY <3>3 DEF BringsFlag
      <4>. QED  BY <4>1, <4>2, OthersStay DEF FlagAssured
    <3>. QED  BY <3>2, <3>3
  <2>2. CASE Ing!AttemptFails(j) /\ embedding' = embedding
    BY <1>f, <2>2, OthersStay DEF FlagAssured
  <2>. QED  BY <1>1, <2>1, <2>2 DEF Ing!ArmEmbedding
<1>2. CASE Ing!SetCompleted(j)
  <2>1. CASE Ing!JobMoves(j, [j EXCEPT !.pc = "done"]) /\ Ing!SetEmbeddingStatus(j.file, "completed")
    <3>1. CASE j.file = q
      BY <1>0, <2>1, <3>1 DEF FlagAssured, Ing!SetEmbeddingStatus
    <3>2. CASE j.file # q
      <4>1. embedding'[q] = embedding[q]
        BY <1>0, <2>1, <3>2 DEF Ing!SetEmbeddingStatus
      <4>2. ~BringsFlag(j, q)
        BY <3>2 DEF BringsFlag
      <4>. QED  BY <4>1, <4>2, OthersStay DEF FlagAssured
    <3>. QED  BY <3>1, <3>2
  <2>2. CASE Ing!AttemptFails(j) /\ embedding' = embedding
    BY <1>f, <2>2, OthersStay DEF FlagAssured
  <2>. QED  BY <1>2, <2>1, <2>2 DEF Ing!SetCompleted
<1>3. CASE ~Ing!ArmEmbedding(j) /\ ~Ing!SetCompleted(j)
  <2>0. embedding' = embedding
    <3>1. CASE IndexStep(j) \/ DeleteObject(j) \/ JobFails(j)
      BY <3>1 DEF IndexStep, ReadFaq, WipeChunks, UploadAnswer, SetUploadStatus, HandOff,
                  SetLastIndexedHash, tables, DeleteObject, JobFails, Ing!JobFails
    <3>2. CASE Ing!WorkStep(j)
      BY <1>3, <3>2 DEF Ing!WorkStep, Ing!FetchSource, Ing!EmitChunk, Ing!EmitMark, Ing!StoreChunk,
           Ing!CountChunks, Ing!JobCompletes
    <3>. QED  BY <3>1, <3>2 DEF WorkStep
  <2>1. CASE embedding[q] = "completed" \/ ~BringsFlag(j, q)
    BY <2>0, <2>1, OthersStay DEF FlagAssured
  <2>2. CASE BringsFlag(j, q)
    <3>0. j.file = q /\ j.kind \in {"Process-RAG-File", "Mark-File-Embedded"}
      BY <2>2 DEF BringsFlag, Ingests
    <3>1. CASE Ing!FetchSource(j)
      <4> DEFINE k == [j EXCEPT !.pc = "emit", !.ver = object[j.file]]
      <4>1. k.kind = j.kind /\ k.file = j.file /\ k.pc = "emit"
        BY <1>0 DEF FaqJob
      <4>2. Ing!AttemptFails(j) \/ jobs' = Advance(jobs, j, k)
        BY <3>1, SameAdvance DEF Ing!FetchSource, Ing!JobMoves
      <4> HIDE DEF k
      <4>3. ASSUME jobs' = Advance(jobs, j, k)  PROVE FlagAssured(q)'
        <5>1. k \in JobSet(jobs')
          BY <1>0, <4>3, AdvanceJobs
        <5>. QED  BY <1>k, <3>0, <3>1, <4>1, <5>1 DEF BringsFlag, Ingests, Ing!FetchSource
      <4>. QED  BY <1>f, <2>2, <4>2, <4>3
    <3>2. CASE Ing!EmitChunk(j)
      <4> DEFINE k == [j EXCEPT !.n = @ + 1]
      <4>1. k.kind = j.kind /\ k.file = j.file /\ k.pc = j.pc
        BY <1>0 DEF FaqJob
      <4>2. jobs' = Insert(Advance(jobs, j, k), Job("Generate-Chunks", j.file, j.ver, j.n))
        BY <3>2, SameInsert, SameAdvance, SameJob DEF Ing!EmitChunk
      <4> HIDE DEF k
      <4>3. k \in JobSet(jobs')
        BY <1>0, <4>2, AdvanceJobs, InsertJobs
      <4>. QED  BY <1>k, <3>0, <3>2, <4>1, <4>3 DEF BringsFlag, Ingests, Ing!EmitChunk
    <3>3. CASE Ing!EmitMark(j)
      <4> DEFINE i == Job("Mark-File-Embedded", j.file, NoVersion, j.n)
      <4>1. i.kind = "Mark-File-Embedded" /\ i.file = j.file /\ i.pc = "ready"
        BY DEF Job
      <4>2. jobs' = Insert(Advance(jobs, j, [j EXCEPT !.pc = "done"]), i)
        BY <3>3, SameInsert, SameAdvance, SameJob DEF Ing!EmitMark
      <4> HIDE DEF i
      <4>3. i \in JobSet(jobs')
        BY <1>0, <4>2, AdvanceJobs, InsertJobs
      <4>. QED  BY <1>k, <3>0, <4>1, <4>3 DEF BringsFlag
    <3>4. CASE Ing!CountChunks(j)
      <4>1. CASE Ing!JobMoves(j, [j EXCEPT !.pc = "set"])
        <5>1. PICK k \in JobSet(jobs') : k.kind = j.kind /\ k.file = j.file /\ k.pc = "set"
          BY <4>1, StepsTo
        <5>. QED  BY <1>k, <3>0, <3>4, <5>1 DEF BringsFlag, Ing!CountChunks
      <4>. QED  BY <1>f, <2>2, <3>4, <4>1 DEF Ing!CountChunks
    <3>5. CASE Ing!JobCompletes(j)
      BY <2>2, <3>5 DEF BringsFlag, Ingests, Ing!JobCompletes
    <3>6. CASE JobFails(j)
      BY <1>f, <2>2, <3>6 DEF JobFails, Ing!JobFails
    <3>7. ~IndexStep(j) /\ ~DeleteObject(j) /\ ~Ing!StoreChunk(j)
      BY <3>0 DEF IndexStep, ReadFaq, WipeChunks, UploadAnswer, SetUploadStatus, HandOff,
                  SetLastIndexedHash, IndexAt, DeleteObject, Ing!StoreChunk
    <3>. QED  BY <1>3, <3>1, <3>2, <3>3, <3>4, <3>5, <3>6, <3>7 DEF WorkStep, Ing!WorkStep
  <2>. QED  BY <2>1, <2>2
<1>. QED  BY <1>1, <1>2, <1>3

\* A step that moves no Index-FAQ job of the FAQ past its lookup.
LEMMA HashFrame ==
  ASSUME NEW q \in Faqs, HashOk(q),
         \A j \in IndexJobs(q)' : j.pc \in PastLookup => j \in IndexJobs(q),
         faq'[q].indexed = faq[q].indexed,
         \/ faq'[q].answer = faq[q].answer
         \/ faq'[q].answer # NoVersion /\ faq'[q].status # "new",
         faq'[q].status = "new" => faq[q].status = "new",
         faq'[q].status # "deleted" => faq[q].status # "deleted"
  PROVE  HashOk(q)'
BY DEF HashOk

\* Calls leave the jobs in the table, and insert none that is past its lookup.
LEMMA CallFrame ==
  ASSUME TypeOK, NEW q,
         \/ \E p \in Faqs : Request(p)
         \/ \E c \in JobSet(calls) : CallStep(c) \/ CallAborts(c)
  PROVE  /\ JobSet(jobs) \subseteq JobSet(jobs') /\ discarded' = discarded
         /\ \A j \in IndexJobs(q)' : j.pc \in PastLookup => j \in IndexJobs(q)
<1>0. IsABag(jobs)
  BY DEF TypeOK
<1>u. ASSUME UNCHANGED <<jobs, discarded>>
      PROVE  /\ JobSet(jobs) \subseteq JobSet(jobs') /\ discarded' = discarded
             /\ \A j \in IndexJobs(q)' : j.pc \in PastLookup => j \in IndexJobs(q)
  BY <1>u DEF IndexJobs
<1>i. ASSUME NEW k, k.pc = "ready", jobs' = Insert(jobs, k), discarded' = discarded
      PROVE  /\ JobSet(jobs) \subseteq JobSet(jobs') /\ discarded' = discarded
             /\ \A j \in IndexJobs(q)' : j.pc \in PastLookup => j \in IndexJobs(q)
  <2>1. JobSet(jobs') = JobSet(jobs) \cup {k}
    BY <1>0, <1>i, InsertJobs
  <2>. QED  BY <1>i, <2>1 DEF IndexJobs, PastLookup
<1>1. ASSUME NEW p \in Faqs, Request(p)  PROVE UNCHANGED <<jobs, discarded>>
  BY <1>1 DEF Request, RecordUnanswered, AnswerChecks, Update, DeleteRows
<1>2. ASSUME NEW c \in JobSet(calls), CallStep(c) \/ CallAborts(c)
      PROVE  \/ UNCHANGED <<jobs, discarded>>
             \/ /\ discarded' = discarded
                /\ \E k : k.pc = "ready" /\ jobs' = Insert(jobs, k)
  <2>1. /\ Job("Index-FAQ", c.faq, NoVersion, 0).pc = "ready"
        /\ Job("Delete-File-From-Storage", c.faq, NoVersion, 0).pc = "ready"
    BY DEF Job
  <2>. QED  BY <1>2, <2>1
            DEF CallStep, AnswerUpdates, AnswerEnqueues, EnqueueIndexFaq, DeleteEnqueues, CallAborts
<1>. QED  BY <1>u, <1>i, <1>1, <1>2

LEMMA HashCalls ==
  ASSUME TypeOK, NEW q \in Faqs, HashOk(q),
         \/ \E p \in Faqs : Request(p)
         \/ \E c \in JobSet(calls) : CallStep(c) \/ CallAborts(c)
  PROVE  HashOk(q)'
<1>0. /\ faq \in [Faqs -> [status : FAQStatus \cup {"new", "deleted"},
                           answer : AnswerText, indexed : AnswerText]]
      /\ JobSet(calls) \subseteq AnswerCall \cup DeleteCall
  BY Typed
<1>s. "deleted" \notin FAQStatus /\ "new" \notin FAQStatus
  BY DEF FAQStatus
<1>f. \A j \in IndexJobs(q)' : j.pc \in PastLookup => j \in IndexJobs(q)
  BY CallFrame
<1>u. ASSUME faq' = faq  PROVE HashOk(q)'
  BY <1>f, <1>u, HashFrame
<1>1. ASSUME NEW p \in Faqs, Request(p)  PROVE HashOk(q)'
  <2>1. CASE RecordUnanswered(p)
    <3>1. /\ faq'[q].indexed = faq[q].indexed /\ faq'[q].answer = faq[q].answer
          /\ faq'[q].status = faq[q].status \/ (faq[q].status = "new" /\ faq'[q].status = "unanswered")
      BY <1>0, <2>1 DEF RecordUnanswered
    <3>. QED  BY <1>f, <3>1, HashFrame
  <2>2. ASSUME NEW a \in Answers, AnswerChecks(p, a)  PROVE HashOk(q)'
    BY <1>u, <2>2 DEF AnswerChecks
  <2>3. ASSUME NEW s \in FAQStatus, Update(p, s)  PROVE HashOk(q)'
    <3>1. /\ faq'[q].indexed = faq[q].indexed /\ faq'[q].answer = faq[q].answer
          /\ faq'[q].status = faq[q].status \/ (Exists(q) /\ faq'[q].status = s)
      BY <1>0, <2>3 DEF Update
    <3>. QED  BY <1>f, <1>s, <3>1, HashFrame DEF Exists
  <2>4. CASE DeleteRows(p)
    <3>1. CASE p = q
      BY <1>0, <2>4, <3>1 DEF DeleteRows, HashOk
    <3>2. CASE p # q
      <4>1. faq'[q] = faq[q]
        BY <1>0, <2>4, <3>2 DEF DeleteRows
      <4>. QED  BY <1>f, <4>1, HashFrame
    <3>. QED  BY <3>1, <3>2
  <2>. QED  BY <1>1, <2>1, <2>2, <2>3, <2>4 DEF Request
<1>2. ASSUME NEW c \in JobSet(calls), CallStep(c) \/ CallAborts(c)  PROVE HashOk(q)'
  <2>1. CASE AnswerUpdates(c)
    <3>1. c.answer # NoVersion
      BY <1>0, <2>1, FaqAssumption DEF AnswerUpdates, AnswerCall, DeleteCall
    <3>2. /\ faq'[q].indexed = faq[q].indexed
          /\ \/ faq'[q] = faq[q]
             \/ /\ faq'[q].answer = c.answer /\ faq'[q].status = "answered" /\ Exists(q)
      BY <1>0, <2>1 DEF AnswerUpdates
    <3>. QED  BY <1>f, <1>s, <3>1, <3>2, HashFrame DEF Exists
  <2>2. CASE AnswerEnqueues(c) \/ DeleteEnqueues(c) \/ CallAborts(c)
    BY <1>u, <2>2 DEF AnswerEnqueues, DeleteEnqueues, CallAborts
  <2>. QED  BY <1>2, <2>1, <2>2 DEF CallStep
<1>. QED  BY <1>1, <1>2

\* What a step of the FAQ's Index-FAQ job makes of it.
LEMMA IndexJobStep ==
  ASSUME TypeOK, NEW q \in Faqs, OneIndexJob(q), NEW j \in IndexJobs(q), WorkStep(j) \/ JobFails(j)
  PROVE  \/ IndexJobs(q)' = {} /\ faq' = faq
         \/ \E k : /\ IndexJobs(q)' = {k}
                   /\ \/ k.pc \in {"ready", "done"} /\ faq' = faq
                      \/ /\ k.pc = "wipe" /\ faq' = faq
                         /\ Exists(q) /\ NeedsIndex(q)
                      \/ /\ <<j.pc, k.pc>> \in {<<"wipe", "upload">>, <<"upload", "status">>,
                                                <<"status", "rag">>, <<"rag", "hash">>}
                         /\ faq' = faq
                      \/ j.pc = "hash" /\ k.pc = "done" /\ SetLastIndexedHash(j)
<1> DEFINE Result ==
         \/ IndexJobs(q)' = {} /\ faq' = faq
         \/ \E k : /\ IndexJobs(q)' = {k}
                   /\ \/ k.pc \in {"ready", "done"} /\ faq' = faq
                      \/ /\ k.pc = "wipe" /\ faq' = faq
                         /\ Exists(q) /\ NeedsIndex(q)
                      \/ /\ <<j.pc, k.pc>> \in {<<"wipe", "upload">>, <<"upload", "status">>,
                                                <<"status", "rag">>, <<"rag", "hash">>}
                         /\ faq' = faq
                      \/ j.pc = "hash" /\ k.pc = "done" /\ SetLastIndexedHash(j)
<1>0. j \in JobSet(jobs) /\ j \in FaqJob /\ j.kind = "Index-FAQ" /\ j.file = q
  BY Typed DEF IndexJobs
<1>e. ASSUME NEW pc
      PROVE  /\ [j EXCEPT !.pc = pc].kind = "Index-FAQ" /\ [j EXCEPT !.pc = pc].file = q
             /\ [j EXCEPT !.pc = pc].pc = pc
  BY <1>0 DEF FaqJob
<1>m. ASSUME NEW pc, MovesTo(j, pc)
      PROVE  \E k : IndexJobs(q)' = {k} /\ k.pc = pc
  <2>1. jobs' = Advance(jobs, j, [j EXCEPT !.pc = pc])
    BY <1>m DEF MovesTo
  <2>. QED  BY <1>e, <2>1, IndexMoves
<1>f. ASSUME Ing!AttemptFails(j), faq' = faq  PROVE Result
  <2>1. CASE LastAttempt(j)
    <3>1. jobs' = Remove(jobs, j)
      BY <1>f, <2>1, SameFailure DEF AfterFailure
    <3>. QED  BY <1>f, <3>1, IndexMoves
  <2>2. CASE ~LastAttempt(j)
    <3>1. jobs' = Advance(jobs, j, Rescheduled(j))
      BY <1>f, <2>2, SameFailure DEF AfterFailure
    <3>2. /\ Rescheduled(j).kind = "Index-FAQ" /\ Rescheduled(j).file = q
          /\ Rescheduled(j).pc = "ready"
      BY <1>0, <2>2, RescheduledFields
    <3>3. IndexJobs(q)' = {Rescheduled(j)}
      BY <3>1, <3>2, IndexMoves
    <3>. QED  BY <1>f, <3>2, <3>3
  <2>. QED  BY <2>1, <2>2
<1>1. CASE ReadFaq(j)
  <2>0. faq' = faq
    BY <1>1 DEF ReadFaq, faqVars
  <2>1. CASE ~Exists(q)
    BY <1>0, <1>1, <1>f, <2>0, <2>1 DEF ReadFaq
  <2>2. CASE Exists(q) /\ NeedsIndex(q)
    <3> DEFINE k == [j EXCEPT !.pc = "wipe", !.ver = faq[q].answer]
    <3>1. k.kind = "Index-FAQ" /\ k.file = q /\ k.pc = "wipe"
      BY <1>0 DEF FaqJob
    <3>2. jobs' = Advance(jobs, j, k)
      BY <1>0, <1>1, <2>2 DEF ReadFaq
    <3> HIDE DEF k
    <3>3. IndexJobs(q)' = {k}
      BY <3>1, <3>2, IndexMoves
    <3>. QED  BY <2>0, <2>2, <3>1, <3>3
  <2>3. CASE Exists(q) /\ ~NeedsIndex(q)
    <3>1. jobs' = Advance(jobs, j, [j EXCEPT !.pc = "done"])
      BY <1>0, <1>1, <2>3 DEF ReadFaq
    <3>2. IndexJobs(q)' = {[j EXCEPT !.pc = "done"]}
      BY <1>e, <3>1, IndexMoves
    <3>. QED  BY <1>e, <2>0, <3>2
  <2>. QED  BY <2>1, <2>2, <2>3
<1>2. CASE WipeChunks(j)
  <2>1. PICK k : IndexJobs(q)' = {k} /\ k.pc = "upload"
    BY <1>2, <1>m DEF WipeChunks
  <2>. QED  BY <1>2, <2>1 DEF WipeChunks, IndexAt, faqVars
<1>3. CASE UploadAnswer(j)
  <2>1. PICK k : IndexJobs(q)' = {k} /\ k.pc = "status"
    BY <1>3, <1>m DEF UploadAnswer
  <2>. QED  BY <1>3, <2>1 DEF UploadAnswer, IndexAt, faqVars
<1>4. CASE SetUploadStatus(j)
  <2>0. faq' = faq /\ j.pc = "status"
    BY <1>4 DEF SetUploadStatus, faqVars, IndexAt
  <2>1. CASE MovesTo(j, "rag")
    <3>1. PICK k : IndexJobs(q)' = {k} /\ k.pc = "rag"
      BY <1>m, <2>1
    <3>. QED  BY <2>0, <3>1
  <2>2. CASE Ing!AttemptFails(j)
    BY <1>f, <2>0, <2>2
  <2>. QED  BY <1>4, <2>1, <2>2 DEF SetUploadStatus
<1>5. CASE HandOff(j)
  <2>1. jobs' = Insert(Advance(jobs, j, [j EXCEPT !.pc = "hash"]),
                       Job("Process-RAG-File", j.file, NoVersion, 0))
    BY <1>5 DEF HandOff
  <2>2. Job("Process-RAG-File", j.file, NoVersion, 0).kind # "Index-FAQ"
    BY DEF Job
  <2>3. IndexJobs(q)' = {[j EXCEPT !.pc = "hash"]}
    BY <1>e, <2>1, <2>2, IndexMoves
  <2>4. PICK k : IndexJobs(q)' = {k} /\ k.pc = "hash"
    BY <1>e, <2>3
  <2>5. j.pc = "rag" /\ faq' = faq
    BY <1>5 DEF HandOff, IndexAt, faqVars
  <2>. QED  BY <2>4, <2>5
<1>6. CASE SetLastIndexedHash(j)
  <2>1. PICK k : IndexJobs(q)' = {k} /\ k.pc = "done"
    BY <1>6, <1>m DEF SetLastIndexedHash
  <2>. QED  BY <1>6, <2>1 DEF SetLastIndexedHash, IndexAt
<1>7. CASE Ing!WorkStep(j) /\ UNCHANGED faqVars
  <2>1. Ing!JobCompletes(j)
    BY <1>0, <1>7 DEF Ing!WorkStep, Ing!ArmEmbedding, Ing!FetchSource, Ing!EmitChunk, Ing!EmitMark,
         Ing!StoreChunk, Ing!CountChunks, Ing!SetCompleted
  <2>2. jobs' = Remove(jobs, j) /\ faq' = faq
    BY <1>7, <2>1, SameRemove DEF Ing!JobCompletes, faqVars
  <2>. QED  BY <2>2, IndexMoves
<1>8. CASE JobFails(j)
  BY <1>8, <1>f DEF JobFails, Ing!JobFails, faqVars
<1>9. ~DeleteObject(j)
  BY <1>0 DEF DeleteObject
<1>. QED  BY <1>1, <1>2, <1>3, <1>4, <1>5, <1>6, <1>7, <1>8, <1>9 DEF WorkStep, IndexStep

\* A job other than the FAQ's Index-FAQ job does not write the FAQ's row.
LEMMA OtherJobStep ==
  ASSUME TypeOK, NEW q \in Faqs, NEW j \in JobSet(jobs), j \notin IndexJobs(q),
         WorkStep(j) \/ JobFails(j)
  PROVE  faq'[q] = faq[q] /\ IndexJobs(q)' = IndexJobs(q)
<1>0. faq \in [Faqs -> [status : FAQStatus \cup {"new", "deleted"},
                        answer : AnswerText, indexed : AnswerText]]
  BY Typed
<1>1. IndexJobs(q)' = IndexJobs(q)
  BY JobStepFrame DEF SameIndex
<1>2. CASE SetLastIndexedHash(j)
  <2>1. j.file # q
    BY <1>2 DEF SetLastIndexedHash, IndexAt, IndexJobs
  <2>. QED  BY <1>0, <1>1, <1>2, <2>1 DEF SetLastIndexedHash
<1>3. CASE ~SetLastIndexedHash(j)
  BY <1>1, <1>3 DEF WorkStep, IndexStep, ReadFaq, WipeChunks, UploadAnswer, SetUploadStatus, HandOff,
                    DeleteObject, JobFails, faqVars
<1>. QED  BY <1>2, <1>3

LEMMA HashJobs ==
  ASSUME TypeOK, NEW a, Answers = {a}, NEW q \in Faqs, OneIndexJob(q), HashOk(q),
         NEW j \in JobSet(jobs), WorkStep(j) \/ JobFails(j)
  PROVE  HashOk(q)'
<1>0. faq \in [Faqs -> [status : FAQStatus \cup {"new", "deleted"},
                        answer : AnswerText, indexed : AnswerText]]
  BY Typed
<1>1. CASE j \notin IndexJobs(q)
  BY <1>1, OtherJobStep, HashFrame
<1>2. CASE j \in IndexJobs(q)
  <2>1. CASE IndexJobs(q)' = {} /\ faq' = faq
    BY <2>1, HashFrame
  <2>2. ASSUME NEW k, IndexJobs(q)' = {k}, k.pc \in {"ready", "done"}, faq' = faq  PROVE HashOk(q)'
    BY <2>2, HashFrame DEF PastLookup
  <2>3. ASSUME NEW k, IndexJobs(q)' = {k}, k.pc = "wipe", faq' = faq, Exists(q), NeedsIndex(q)
        PROVE  HashOk(q)'
    <3>1. faq[q].answer \in {a, NoVersion} /\ faq[q].indexed \in {a, NoVersion}
      BY <1>0 DEF AnswerText
    <3>2. faq[q].status # "deleted" /\ faq[q].status # "new"
      BY <2>3 DEF Exists, FAQStatus
    <3>3. faq[q].answer # NoVersion /\ faq[q].indexed = NoVersion
      BY <2>3, <3>1, <3>2 DEF HashOk, NeedsIndex
    <3>. QED  BY <2>3, <3>2, <3>3 DEF HashOk
  <2>4. ASSUME NEW k, IndexJobs(q)' = {k}, j.pc \in PastLookup, faq' = faq  PROVE HashOk(q)'
    BY <1>2, <2>4 DEF HashOk
  <2>5. ASSUME NEW k, IndexJobs(q)' = {k}, k.pc = "done", j.pc = "hash", SetLastIndexedHash(j)
        PROVE  HashOk(q)'
    <3>1. faq'[q].status = faq[q].status /\ faq'[q].answer = faq[q].answer
      BY <1>0, <2>5 DEF SetLastIndexedHash
    <3>2. faq[q].status # "deleted" => faq[q].answer # NoVersion
      BY <1>2, <2>5 DEF HashOk, PastLookup
    <3>3. faq[q].status = "new" => faq[q].answer = NoVersion
      BY DEF HashOk
    <3>. QED  BY <2>5, <3>1, <3>2, <3>3 DEF HashOk, PastLookup
  <2>6. {"wipe", "upload", "status", "rag"} \subseteq PastLookup
    BY DEF PastLookup
  <2>. QED  BY <1>2, <2>1, <2>2, <2>3, <2>4, <2>5, <2>6, IndexJobStep
<1>. QED  BY <1>1, <1>2

LEMMA AssuredCalls ==
  ASSUME TypeOK, NEW q \in Faqs, RowsTogether(q), HashOk(q), Assured(q),
         \/ \E p \in Faqs : Request(p)
         \/ \E c \in JobSet(calls) : CallStep(c) \/ CallAborts(c)
  PROVE  Assured(q)'
<1>0. /\ faq \in [Faqs -> [status : FAQStatus \cup {"new", "deleted"},
                           answer : AnswerText, indexed : AnswerText]]
      /\ embedding \in [Faqs -> Ing!EmbeddingStatus \cup {"new", "deleted"}]
      /\ chunks \in [Faqs -> SUBSET ChunkRows]
      /\ JobSet(calls) \subseteq AnswerCall \cup DeleteCall
  BY Typed
<1>j. /\ JobSet(jobs) \subseteq JobSet(jobs') /\ discarded' = discarded
      /\ \A j \in IndexJobs(q)' : j.pc \in PastLookup => j \in IndexJobs(q)
  BY CallFrame
<1>k. ASSUME chunks'[q] = chunks[q], embedding'[q] = embedding[q],
             faq'[q].indexed = faq[q].indexed,
             faq'[q].status # "deleted" => faq[q].status # "deleted"
      PROVE  Assured(q)'
  <2>1. HandedOff(q)' => HandedOff(q)
    BY <1>j, <1>k DEF HandedOff, PastLookup
  <2>2. NothingDiscarded(q)' => NothingDiscarded(q)
    BY <1>j DEF NothingDiscarded
  <2>3. \A c : ChunkAssured(q, c) => ChunkAssured(q, c)'
    BY <1>j, <1>k DEF ChunkAssured
  <2>4. FlagAssured(q) => FlagAssured(q)'
    BY <1>j, <1>k DEF FlagAssured
  <2>. QED  BY <2>1, <2>2, <2>3, <2>4 DEF Assured
<1>1. ASSUME NEW p \in Faqs, Request(p)  PROVE Assured(q)'
  <2>1. CASE RecordUnanswered(p)
    <3>1. CASE p = q
      <4>1. faq[q].status = "new" /\ faq[q].answer = NoVersion /\ faq[q].indexed = NoVersion
        BY <2>1, <3>1 DEF RecordUnanswered, HashOk, RowsTogether
      <4>2. \A j \in IndexJobs(q) : j.pc \notin PastLookup
        BY <4>1 DEF HashOk
      <4>3. faq'[q].indexed = NoVersion
        BY <1>0, <2>1, <4>1 DEF RecordUnanswered
      <4>. QED  BY <1>j, <4>2, <4>3 DEF Assured, HandedOff, PastLookup
    <3>2. CASE p # q
      <4>1. faq'[q] = faq[q] /\ chunks' = chunks /\ embedding'[q] = embedding[q]
        BY <1>0, <2>1, <3>2 DEF RecordUnanswered
      <4>. QED  BY <1>k, <4>1
    <3>. QED  BY <3>1, <3>2
  <2>2. ASSUME NEW a \in Answers, AnswerChecks(p, a)  PROVE Assured(q)'
    BY <1>k, <2>2 DEF AnswerChecks, tables
  <2>3. ASSUME NEW s \in FAQStatus, Update(p, s)  PROVE Assured(q)'
    <3>1. /\ faq'[q].indexed = faq[q].indexed
          /\ faq'[q].status = faq[q].status \/ Exists(q)
          /\ chunks' = chunks /\ embedding' = embedding
      BY <1>0, <2>3 DEF Update, tables
    <3>. QED  BY <1>k, <3>1 DEF Exists, FAQStatus
  <2>4. CASE DeleteRows(p)
    <3>1. CASE p = q
      BY <1>0, <2>4, <3>1 DEF DeleteRows, Assured, HandedOff
    <3>2. CASE p # q
      <4>1. faq'[q] = faq[q] /\ chunks'[q] = chunks[q] /\ embedding'[q] = embedding[q]
        BY <1>0, <2>4, <3>2 DEF DeleteRows
      <4>. QED  BY <1>k, <4>1
    <3>. QED  BY <3>1, <3>2
  <2>. QED  BY <1>1, <2>1, <2>2, <2>3, <2>4 DEF Request
<1>2. ASSUME NEW c \in JobSet(calls), CallStep(c) \/ CallAborts(c)  PROVE Assured(q)'
  <2>1. CASE AnswerUpdates(c)
    <3>1. /\ faq'[q].indexed = faq[q].indexed
          /\ faq'[q] = faq[q] \/ Exists(q)
          /\ chunks' = chunks /\ embedding' = embedding
      BY <1>0, <2>1 DEF AnswerUpdates, tables
    <3>. QED  BY <1>k, <3>1 DEF Exists, FAQStatus
  <2>2. CASE AnswerEnqueues(c) \/ DeleteEnqueues(c) \/ CallAborts(c)
    BY <1>k, <2>2 DEF AnswerEnqueues, DeleteEnqueues, CallAborts, tables
  <2>. QED  BY <1>2, <2>1, <2>2 DEF CallStep
<1>. QED  BY <1>1, <1>2

\* The job that HandOff inserts will store every chunk and set the flag.
LEMMA HandOffAssures ==
  ASSUME TypeOK, NEW j \in JobSet(jobs), HandOff(j)
  PROVE  /\ \A a \in Answers : \A c \in Ing!ChunksOf(a) : ChunkAssured(j.file, c)'
         /\ FlagAssured(j.file)'
<1> DEFINE k == [j EXCEPT !.pc = "hash"]
           i == Job("Process-RAG-File", j.file, NoVersion, 0)
<1>1. i.kind = "Process-RAG-File" /\ i.file = j.file /\ i.pc = "ready" /\ i.n = 0
  BY DEF Job
<1>2. jobs' = Insert(Advance(jobs, j, k), i) /\ IsABag(jobs)
  BY DEF HandOff, TypeOK
<1> HIDE DEF k, i
<1>3. i \in JobSet(jobs')
  BY <1>2, AdvanceJobs, InsertJobs
<1>4. ASSUME NEW a \in Answers, NEW c \in Ing!ChunksOf(a)  PROVE ChunkAssured(j.file, c)'
  <2>1. c.index \in Nat
    <3>1. ChunkCount[a] \in Nat
      BY FaqAssumption
    <3>. QED  BY <3>1 DEF Ing!ChunksOf
  <2>2. BringsChunk(i, j.file, c.index)
    BY <1>1, <2>1 DEF BringsChunk, Ingests
  <2>. QED  BY <1>3, <2>2 DEF ChunkAssured
<1>5. BringsFlag(i, j.file)
  BY <1>1 DEF BringsFlag, Ingests
<1>. QED  BY <1>3, <1>4, <1>5 DEF FlagAssured

\* What a job step says of the hand-off: it is the hand-off, or nothing new.
LEMMA HandOffIsNew ==
  ASSUME TypeOK, NEW q \in Faqs, OneIndexJob(q), NEW j \in JobSet(jobs),
         WorkStep(j) \/ JobFails(j), HandedOff(q)'
  PROVE  HandedOff(q) \/ (HandOff(j) /\ j.file = q)
<1>0. faq \in [Faqs -> [status : FAQStatus \cup {"new", "deleted"},
                        answer : AnswerText, indexed : AnswerText]]
  BY Typed
<1>1. CASE j \notin IndexJobs(q)
  BY <1>1, OtherJobStep DEF HandedOff
<1>2. CASE j \in IndexJobs(q)
  <2>1. CASE IndexJobs(q)' = {} /\ faq' = faq
    BY <2>1 DEF HandedOff
  <2>2. ASSUME NEW k, IndexJobs(q)' = {k}, k.pc # "hash", faq' = faq  PROVE HandedOff(q)
    BY <2>2 DEF HandedOff
  <2>3. ASSUME j.pc = "hash"  PROVE HandedOff(q)
    <3>1. faq'[q].status = faq[q].status
      <4>1. CASE SetLastIndexedHash(j)
        BY <1>0, <4>1 DEF SetLastIndexedHash
      <4>2. CASE ~SetLastIndexedHash(j)
        BY <4>2 DEF WorkStep, IndexStep, ReadFaq, WipeChunks, UploadAnswer, SetUploadStatus, HandOff,
                    DeleteObject, JobFails, faqVars
      <4>. QED  BY <4>1, <4>2
    <3>. QED  BY <1>2, <2>3, <3>1 DEF HandedOff
  <2>4. ASSUME NEW k, IndexJobs(q)' = {k}, j.pc = "rag", k.pc = "hash"  PROVE HandOff(j)
    <3>1. j.kind = "Index-FAQ"
      BY <1>2 DEF IndexJobs
    <3>2. ~Ing!AttemptFails(j) /\ ~Ing!JobCompletes(j)
      <4>1. Ing!JobCompletes(j) => j.pc = "done"
        BY DEF Ing!JobCompletes
      <4>2. ASSUME Ing!AttemptFails(j)  PROVE FALSE
        <5>1. CASE LastAttempt(j)
          <6>1. jobs' = Remove(jobs, j)
            BY <4>2, <5>1, SameFailure DEF AfterFailure
          <6>. QED  BY <1>2, <2>4, <6>1, IndexMoves
        <5>2. CASE ~LastAttempt(j)
          <6>1. jobs' = Advance(jobs, j, Rescheduled(j)) /\ j \in FaqJob
            BY <4>2, <5>2, SameFailure DEF AfterFailure, TypeOK
          <6>2. /\ Rescheduled(j).kind = "Index-FAQ" /\ Rescheduled(j).file = q
                /\ Rescheduled(j).pc = "ready"
            BY <1>2, <3>1, <5>2, <6>1, RescheduledFields DEF IndexJobs
          <6>3. IndexJobs(q)' = {Rescheduled(j)}
            BY <1>2, <6>1, <6>2, IndexMoves
          <6>. QED  BY <2>4, <6>2, <6>3
        <5>. QED  BY <5>1, <5>2
      <4>. QED  BY <2>4, <4>1, <4>2
    <3>. QED  BY <2>4, <3>1, <3>2
              DEF WorkStep, JobFails, Ing!JobFails, IndexStep, ReadFaq, WipeChunks, UploadAnswer,
                  SetUploadStatus, SetLastIndexedHash, DeleteObject, IndexAt, Ing!WorkStep,
                  Ing!ArmEmbedding, Ing!FetchSource, Ing!EmitChunk, Ing!EmitMark, Ing!StoreChunk,
                  Ing!CountChunks, Ing!SetCompleted
  <2>5. j.file = q
    BY <1>2 DEF IndexJobs
  <2>. QED  BY <1>2, <2>1, <2>2, <2>3, <2>4, <2>5, IndexJobStep
<1>. QED  BY <1>1, <1>2

\* What was discarded stays discarded.
LEMMA DiscardedGrows ==
  ASSUME NEW j, WorkStep(j) \/ JobFails(j)
  PROVE  discarded \subseteq discarded'
<1>1. Ing!AttemptFails(j) => discarded \subseteq discarded'
  BY DEF Ing!AttemptFails
<1>. QED  BY <1>1 DEF WorkStep, JobFails, Ing!JobFails, IndexStep, ReadFaq, WipeChunks, UploadAnswer,
             SetUploadStatus, HandOff, SetLastIndexedHash, DeleteObject, MovesTo, Ing!WorkStep,
             Ing!ArmEmbedding, Ing!FetchSource, Ing!EmitChunk, Ing!EmitMark, Ing!StoreChunk,
             Ing!CountChunks, Ing!SetCompleted, Ing!JobCompletes, Ing!JobMoves

LEMMA AssuredJobs ==
  ASSUME TypeOK, NEW a, Answers = {a}, NEW q \in Faqs, OneIndexJob(q), HashOk(q), Assured(q),
         NEW j \in JobSet(jobs), WorkStep(j) \/ JobFails(j)
  PROVE  Assured(q)'
<1> SUFFICES ASSUME HandedOff(q)', NothingDiscarded(q)'
             PROVE  /\ \A c \in Ing!ChunksOf(a) : ChunkAssured(q, c)'
                    /\ FlagAssured(q)'
  BY DEF Assured, Ing!ChunksOf
<1>1. CASE HandOff(j) /\ j.file = q
  BY <1>1, HandOffAssures
<1>2. ASSUME HandedOff(q), ~(HandOff(j) /\ j.file = q)
      PROVE  /\ \A c \in Ing!ChunksOf(a) : ChunkAssured(q, c)'
             /\ FlagAssured(q)'
  <2>1. NothingDiscarded(q)
    BY DiscardedGrows DEF NothingDiscarded
  <2>2. (\A c \in Ing!ChunksOf(a) : ChunkAssured(q, c)) /\ FlagAssured(q)
    BY <1>2, <2>1 DEF Assured
  <2>3. ~(WipeChunks(j) /\ j.file = q)
    <3> SUFFICES ASSUME WipeChunks(j), j.file = q  PROVE FALSE
      OBVIOUS
    <3>1. j \in IndexJobs(q) /\ j.pc = "wipe" /\ faq' = faq
      BY DEF WipeChunks, IndexAt, IndexJobs, faqVars
    <3>2. faq[q].indexed = NoVersion
      BY <1>2, <3>1 DEF HashOk, HandedOff, PastLookup
    <3>. QED  BY <1>2, <3>1, <3>2 DEF HandedOff, OneIndexJob
  <2>. QED  BY <2>2, <2>3, KeepsChunk, KeepsFlag
<1>. QED  BY <1>1, <1>2, HandOffIsNew

LEMMA AssuredInit == Init => \A q \in Faqs : HashOk(q) /\ Assured(q)
<1> SUFFICES ASSUME Init, NEW q \in Faqs  PROVE HashOk(q) /\ Assured(q)
  OBVIOUS
<1>1. JobSet(jobs) = {}
  <2>1. JobSet(EmptyBag) = {} /\ Ing!EmptyBag = EmptyBag
    BY EmptyJobs DEF EmptyBag, Ing!EmptyBag, SetToBag, Ing!SetToBag
  <2>. QED  BY <2>1 DEF Init, Ing!Init
<1>2. faq[q] = [status |-> "new", answer |-> NoVersion, indexed |-> NoVersion]
  BY DEF Init
<1>. QED  BY <1>1, <1>2 DEF HashOk, Assured, HandedOff, IndexJobs

\* The inductive invariant behind IndexedMeansSearchable.
SearchInv == \A q \in Faqs : InvOf(q) /\ HashOk(q) /\ Assured(q)

LEMMA SearchStep ==
  ASSUME NEW a, Answers = {a}, TypeOK, SearchInv, [Next]_vars
  PROVE  SearchInv'
<1>1. \A q \in Faqs : InvOf(q)'
  BY InvStep DEF SearchInv
<1>2. ASSUME NEW q \in Faqs  PROVE HashOk(q)' /\ Assured(q)'
  <2>0. InvOf(q) /\ HashOk(q) /\ Assured(q) /\ OneIndexJob(q) /\ RowsTogether(q)
    BY DEF SearchInv, InvOf
  <2>1. CASE UNCHANGED vars
    BY <2>0, <2>1 DEF vars, HashOk, Assured, HandedOff, IndexJobs, NothingDiscarded,
                      ChunkAssured, FlagAssured
  <2>2. CASE \/ \E p \in Faqs : Request(p)
             \/ \E c \in JobSet(calls) : CallStep(c) \/ CallAborts(c)
    BY <2>0, <2>2, HashCalls, AssuredCalls
  <2>3. ASSUME NEW j \in JobSet(jobs), WorkStep(j) \/ JobFails(j)
        PROVE  HashOk(q)' /\ Assured(q)'
    BY <2>0, <2>3, HashJobs, AssuredJobs
  <2>. QED  BY <2>1, <2>2, <2>3 DEF Next
<1>. QED  BY <1>1, <1>2 DEF SearchInv

LEMMA SearchInvSuffices ==
  ASSUME NEW a, Answers = {a}, TypeOK, SearchInv
  PROVE  IndexedMeansSearchable
<1> SUFFICES ASSUME NEW q \in Faqs, Exists(q), faq[q].indexed # NoVersion, Quiet(q),
                    NothingDiscarded(q)
             PROVE  Searchable(q, faq[q].indexed) /\ embedding[q] = "completed"
  BY DEF IndexedMeansSearchable
<1>0. faq[q].indexed \in AnswerText /\ chunks[q] \subseteq ChunkRows
  BY Typed
<1>1. HandedOff(q)
  BY DEF HandedOff, Exists, FAQStatus
<1>2. (\A c \in Ing!ChunksOf(a) : ChunkAssured(q, c)) /\ FlagAssured(q)
  BY <1>1 DEF SearchInv, Assured
<1>3. Ing!ChunksOf(a) \subseteq chunks[q] /\ embedding[q] = "completed"
  BY <1>2 DEF Quiet, ChunkAssured, FlagAssured, BringsChunk, BringsFlag
<1>4. faq[q].indexed = a
  BY <1>0 DEF AnswerText
<1>5. ChunkRows = Ing!ChunksOf(a)
  BY DEF ChunkRows
<1>. QED  BY <1>0, <1>3, <1>4, <1>5 DEF Searchable

\* An answer that is never edited: when an Index-FAQ job has recorded it, its
\* whole document is searchable as soon as the jobs of the FAQ have ended and
\* none was discarded, whichever calls, failures and retries came between.
THEOREM IndexedIsSearchable ==
  ASSUME NEW a, Answers = {a}
  PROVE  Spec => []IndexedMeansSearchable
<1>1. Init => SearchInv
  BY InvInit, AssuredInit DEF SearchInv
<1>2. TypeOK /\ SearchInv /\ [Next]_vars => SearchInv'
  BY SearchStep
<1>3. TypeOK /\ SearchInv => IndexedMeansSearchable
  BY SearchInvSuffices
<1>. QED  BY <1>1, <1>2, <1>3, TypeInit, TypeStep, PTL DEF Spec

-----------------------------------------------------------------------------
(* What the liveness of FaqPipeline rests on *)

Answered(q, a) == faq[q].status = "answered" /\ faq[q].answer = a

\* The answer is going to be indexed or is, or River gave that up, and no job
\* will record the hash of another one.
IndexAssured(q, a) ==
  /\ \A j \in IndexJobs(q) : j.pc \in PastLookup => j.ver = a
  /\ \/ \E j \in IndexJobs(q) : j.pc # "done"
     \/ faq[q].indexed = a
     \/ <<"Index-FAQ", q>> \in discarded

\* Index-FAQ: a job that has not begun will see to the answer that is current,
\* because no other one is under way.
QueuedIsAssured ==
  \A q \in Faqs, a \in Answers :
    Answered(q, a) /\ (\E j \in IndexJobs(q) : j.pc = "ready") => IndexAssured(q, a)

\* As long as the answer stays, nothing that is requested, fails or is retried
\* loses it to the index.
NoAnswerIsLost ==
  [][\A q \in Faqs, a \in Answers :
       Answered(q, a) /\ IndexAssured(q, a) /\ Answered(q, a)' => IndexAssured(q, a)']_vars

\* A job that is queued is the only one, so none holds another answer.
LEMMA UniqueIsAssured == IndexInv => QueuedIsAssured
<1> SUFFICES ASSUME IndexInv, NEW q \in Faqs, NEW a \in Answers,
                    NEW j \in IndexJobs(q), j.pc = "ready"
             PROVE  IndexAssured(q, a)
  BY DEF QueuedIsAssured
<1>1. \A i \in IndexJobs(q) : i = j
  BY DEF IndexInv, OneIndexJob
<1>. QED  BY <1>1 DEF IndexAssured, PastLookup

\* Calls insert jobs and take none away; they do not record the hash.
LEMMA CallsAssured ==
  ASSUME TypeOK, NEW q \in Faqs, NEW a \in Answers, IndexAssured(q, a), Answered(q, a)',
         \/ \E p \in Faqs : Request(p)
         \/ \E c \in JobSet(calls) : CallStep(c) \/ CallAborts(c)
  PROVE  IndexAssured(q, a)'
<1>0. faq \in [Faqs -> [status : FAQStatus \cup {"new", "deleted"},
                        answer : AnswerText, indexed : AnswerText]]
  BY Typed
<1>1. /\ JobSet(jobs) \subseteq JobSet(jobs') /\ discarded' = discarded
      /\ \A j \in IndexJobs(q)' : j.pc \in PastLookup => j \in IndexJobs(q)
  BY CallFrame
<1>2. faq'[q].indexed = faq[q].indexed
  <2>1. ASSUME NEW p \in Faqs, Request(p)  PROVE faq'[q].indexed = faq[q].indexed
    <3>1. CASE DeleteRows(p)
      <4>1. p # q
        BY <1>0, <3>1 DEF DeleteRows, Answered
      <4>. QED  BY <1>0, <3>1, <4>1 DEF DeleteRows
    <3>2. CASE RecordUnanswered(p)
      BY <1>0, <3>2 DEF RecordUnanswered
    <3>3. ASSUME NEW s \in FAQStatus, Update(p, s)  PROVE faq'[q].indexed = faq[q].indexed
      BY <1>0, <3>3 DEF Update
    <3>4. (\E b \in Answers : AnswerChecks(p, b)) => faq' = faq
      BY DEF AnswerChecks
    <3>. QED  BY <2>1, <3>1, <3>2, <3>3, <3>4 DEF Request
  <2>2. ASSUME NEW c \in JobSet(calls), CallStep(c) \/ CallAborts(c)
        PROVE  faq'[q].indexed = faq[q].indexed
    <3>1. CASE AnswerUpdates(c)
      BY <1>0, <3>1 DEF AnswerUpdates
    <3>. QED  BY <2>2, <3>1 DEF CallStep, AnswerEnqueues, DeleteEnqueues, CallAborts
  <2>. QED  BY <2>1, <2>2
<1>3. IndexJobs(q) \subseteq IndexJobs(q)'
  BY <1>1 DEF IndexJobs
<1>. QED  BY <1>1, <1>2, <1>3 DEF IndexAssured

\* The FAQ's own job reads the answer that is current, carries it to its hash,
\* and is tried again or given up when it fails.
LEMMA IndexJobAssures ==
  ASSUME TypeOK, NEW q \in Faqs, NEW a \in Answers, OneIndexJob(q),
         Answered(q, a), IndexAssured(q, a),
         NEW j \in IndexJobs(q), WorkStep(j) \/ JobFails(j)
  PROVE  IndexAssured(q, a)'
<1>0. /\ j \in JobSet(jobs) /\ j \in FaqJob /\ j.kind = "Index-FAQ" /\ j.file = q
      /\ faq \in [Faqs -> [status : FAQStatus \cup {"new", "deleted"},
                           answer : AnswerText, indexed : AnswerText]]
  BY Typed DEF IndexJobs
<1>h. /\ IndexJobs(q) = {j} /\ (j.pc \in PastLookup => j.ver = a)
      /\ j.pc # "done" \/ faq[q].indexed = a \/ <<"Index-FAQ", q>> \in discarded
  BY DEF IndexAssured, OneIndexJob
<1>x. Exists(q)
  BY DEF Exists, FAQStatus, Answered
<1>e. ASSUME NEW pc
      PROVE  LET k == [j EXCEPT !.pc = pc] IN
             k.kind = "Index-FAQ" /\ k.file = q /\ k.pc = pc /\ k.ver = j.ver
  BY <1>0 DEF FaqJob
\* A step within PastLookup.
<1>m. ASSUME NEW pc, MovesTo(j, pc), pc \in PastLookup, j.pc \in PastLookup
      PROVE  IndexAssured(q, a)'
  <2> DEFINE k == [j EXCEPT !.pc = pc]
  <2>1. k.kind = "Index-FAQ" /\ k.file = q /\ k.pc = pc /\ k.ver = a
    BY <1>e, <1>h, <1>m
  <2>2. jobs' = Advance(jobs, j, k)
    BY <1>m DEF MovesTo
  <2> HIDE DEF k
  <2>3. IndexJobs(q)' = {k}
    BY <2>1, <2>2, IndexMoves
  <2>. QED  BY <1>m, <2>1, <2>3 DEF IndexAssured, PastLookup
<1>f. ASSUME Ing!AttemptFails(j)  PROVE IndexAssured(q, a)'
  <2>1. CASE LastAttempt(j)
    <3>1. jobs' = Remove(jobs, j)
      BY <1>f, <2>1, SameFailure DEF AfterFailure
    <3>2. <<"Index-FAQ", q>> \in discarded'
      BY <1>0, <1>f, <2>1, SameFailure
    <3>3. IndexJobs(q)' = {}
      BY <3>1, IndexMoves
    <3>. QED  BY <3>2, <3>3 DEF IndexAssured
  <2>2. CASE ~LastAttempt(j)
    <3> DEFINE k == Rescheduled(j)
    <3>1. jobs' = Advance(jobs, j, k)
      BY <1>f, <2>2, SameFailure DEF AfterFailure
    <3>2. k.kind = "Index-FAQ" /\ k.file = q /\ k.pc = "ready"
      BY <1>0, <2>2, RescheduledFields
    <3> HIDE DEF k
    <3>3. IndexJobs(q)' = {k}
      BY <3>1, <3>2, IndexMoves
    <3>. QED  BY <3>2, <3>3 DEF IndexAssured, PastLookup
  <2>. QED  BY <2>1, <2>2
<1>1. CASE ReadFaq(j)
  <2> DEFINE k == IF NeedsIndex(q) THEN [j EXCEPT !.pc = "wipe", !.ver = faq[q].answer]
                                   ELSE [j EXCEPT !.pc = "done"]
  <2>1. /\ k.kind = "Index-FAQ" /\ k.file = q
        /\ IF NeedsIndex(q) THEN k.pc = "wipe" /\ k.ver = a ELSE k.pc = "done"
    BY <1>0 DEF FaqJob, Answered
  <2>2. jobs' = Advance(jobs, j, k) /\ faq' = faq
    BY <1>0, <1>1, <1>x DEF ReadFaq, faqVars
  <2> HIDE DEF k
  <2>3. IndexJobs(q)' = {k}
    BY <2>1, <2>2, IndexMoves
  <2>4. ~NeedsIndex(q) => faq[q].indexed = a
    BY DEF NeedsIndex, Answered
  <2>. QED  BY <2>1, <2>2, <2>3, <2>4 DEF IndexAssured, PastLookup
<1>2. CASE WipeChunks(j) \/ UploadAnswer(j)
  BY <1>2, <1>m DEF WipeChunks, UploadAnswer, IndexAt, PastLookup
<1>3. CASE SetUploadStatus(j)
  BY <1>3, <1>m, <1>f DEF SetUploadStatus, IndexAt, PastLookup
<1>4. CASE HandOff(j)
  <2> DEFINE k == [j EXCEPT !.pc = "hash"]
             i == Job("Process-RAG-File", j.file, NoVersion, 0)
  <2>1. k.kind = "Index-FAQ" /\ k.file = q /\ k.pc = "hash" /\ k.ver = a /\ i.kind # "Index-FAQ"
    BY <1>4, <1>e, <1>h DEF HandOff, IndexAt, PastLookup, Job
  <2>2. jobs' = Insert(Advance(jobs, j, k), i)
    BY <1>4 DEF HandOff
  <2> HIDE DEF k, i
  <2>3. IndexJobs(q)' = {k}
    BY <2>1, <2>2, IndexMoves
  <2>. QED  BY <2>1, <2>3 DEF IndexAssured, PastLookup
<1>5. CASE SetLastIndexedHash(j)
  <2> DEFINE k == [j EXCEPT !.pc = "done"]
  <2>1. k.kind = "Index-FAQ" /\ k.file = q /\ k.pc = "done"
    BY <1>e
  <2>2. jobs' = Advance(jobs, j, k)
    BY <1>5 DEF SetLastIndexedHash, MovesTo
  <2>3. faq'[q].indexed = a
    BY <1>0, <1>5, <1>h, <1>x DEF SetLastIndexedHash, IndexAt, PastLookup
  <2> HIDE DEF k
  <2>4. IndexJobs(q)' = {k}
    BY <2>1, <2>2, IndexMoves
  <2>. QED  BY <2>1, <2>3, <2>4 DEF IndexAssured, PastLookup
<1>6. CASE Ing!WorkStep(j) /\ UNCHANGED faqVars
  <2>1. Ing!JobCompletes(j)
    BY <1>0, <1>6 DEF Ing!WorkStep, Ing!ArmEmbedding, Ing!FetchSource, Ing!EmitChunk, Ing!EmitMark,
         Ing!StoreChunk, Ing!CountChunks, Ing!SetCompleted
  <2>2. jobs' = Remove(jobs, j) /\ faq' = faq /\ j.pc = "done" /\ discarded' = discarded
    BY <1>6, <2>1, SameRemove DEF Ing!JobCompletes, faqVars
  <2>3. IndexJobs(q)' = {}
    BY <2>2, IndexMoves
  <2>. QED  BY <1>h, <2>2, <2>3 DEF IndexAssured
<1>7. CASE JobFails(j)
  BY <1>7, <1>f DEF JobFails, Ing!JobFails
<1>8. ~DeleteObject(j)
  BY <1>0 DEF DeleteObject
<1>. QED  BY <1>1, <1>2, <1>3, <1>4, <1>5, <1>6, <1>7, <1>8 DEF WorkStep, IndexStep

\* Every step keeps an answer on its way to the index, or in it.
LEMMA AnswerStep ==
  ASSUME TypeOK, IndexInv, [Next]_vars, NEW q \in Faqs, NEW a \in Answers,
         Answered(q, a), Answered(q, a)', IndexAssured(q, a)
  PROVE  IndexAssured(q, a)'
<1>0. OneIndexJob(q)
  BY DEF IndexInv
<1>1. CASE UNCHANGED vars
  BY <1>1 DEF vars, IndexAssured, IndexJobs
<1>2. CASE \/ \E p \in Faqs : Request(p)
           \/ \E c \in JobSet(calls) : CallStep(c) \/ CallAborts(c)
  BY <1>2, CallsAssured
<1>3. ASSUME NEW j \in JobSet(jobs), WorkStep(j) \/ JobFails(j)  PROVE IndexAssured(q, a)'
  <2>1. CASE j \in IndexJobs(q)
    BY <1>0, <1>3, <2>1, IndexJobAssures
  <2>2. CASE j \notin IndexJobs(q)
    <3>1. faq'[q] = faq[q] /\ IndexJobs(q)' = IndexJobs(q)
      BY <1>3, <2>2, OtherJobStep
    <3>2. discarded \subseteq discarded'
      BY <1>3, DiscardedGrows
    <3>. QED  BY <3>1, <3>2 DEF IndexAssured
  <2>. QED  BY <2>1, <2>2
<1>. QED  BY <1>1, <1>2, <1>3 DEF Next

\* IndexCatchesUp says that a queued job indexes the current answer some day;
\* this is what no schedule, failure or other request can take away meanwhile,
\* under any Faults.
THEOREM NoAnswerLost == Spec => []QueuedIsAssured /\ NoAnswerIsLost
<1>1. TypeOK /\ IndexInv /\ [Next]_vars =>
        \A q \in Faqs, a \in Answers :
          Answered(q, a) /\ IndexAssured(q, a) /\ Answered(q, a)' => IndexAssured(q, a)'
  BY AnswerStep
<1>. QED  BY <1>1, UniqueIsAssured, TypeCorrect, Invariant, PTL DEF Spec, NoAnswerIsLost

-----------------------------------------------------------------------------
(* The object of a deleted FAQ *)

\* Calls do not bring a deleted FAQ back.
LEMMA CallsUnwritten ==
  ASSUME TypeOK, NEW q \in Faqs, Unwritten(q), ObjectDue(q),
         \/ \E p \in Faqs : Request(p)
         \/ \E c \in JobSet(calls) : CallStep(c) \/ CallAborts(c)
  PROVE  (Unwritten(q) /\ ObjectDue(q))'
<1>0. /\ faq \in [Faqs -> [status : FAQStatus \cup {"new", "deleted"},
                           answer : AnswerText, indexed : AnswerText]]
      /\ faq[q].status = "deleted" /\ ~Exists(q) /\ faq[q].status # "new"
  BY Typed DEF Unwritten, Exists, FAQStatus
<1>1. /\ JobSet(jobs) \subseteq JobSet(jobs') /\ discarded' = discarded
      /\ \A j \in IndexJobs(q)' : j.pc \in PastLookup => j \in IndexJobs(q)
  BY CallFrame
<1>2. faq'[q].status = "deleted" /\ object'[q] = object[q]
  <2>1. ASSUME NEW p \in Faqs, Request(p)  PROVE faq'[q].status = "deleted" /\ object' = object
    <3>1. CASE DeleteRows(p)
      BY <1>0, <3>1 DEF DeleteRows
    <3>2. CASE RecordUnanswered(p)
      BY <1>0, <3>2 DEF RecordUnanswered
    <3>3. ASSUME NEW s \in FAQStatus, Update(p, s)
          PROVE  faq'[q].status = "deleted" /\ object' = object
      <4>1. p # q
        BY <1>0, <3>3 DEF Update
      <4>. QED  BY <1>0, <3>3, <4>1 DEF Update, tables
    <3>4. (\E b \in Answers : AnswerChecks(p, b)) => faq' = faq /\ object' = object
      BY DEF AnswerChecks, tables
    <3>. QED  BY <1>0, <2>1, <3>1, <3>2, <3>3, <3>4 DEF Request
  <2>2. ASSUME NEW c \in JobSet(calls), CallStep(c) \/ CallAborts(c)
        PROVE  faq'[q].status = "deleted" /\ object' = object
    <3>1. CASE AnswerUpdates(c)
      <4>1. faq' = faq \/ c.faq # q
        BY <1>0, <3>1 DEF AnswerUpdates
      <4>. QED  BY <1>0, <3>1, <4>1 DEF AnswerUpdates, tables
    <3>. QED  BY <1>0, <2>2, <3>1 DEF CallStep, AnswerEnqueues, DeleteEnqueues, CallAborts, tables
  <2>. QED  BY <2>1, <2>2
<1>3. Unwritten(q)'
  BY <1>1, <1>2 DEF Unwritten, PastLookup
<1>4. ObjectDue(q)'
  BY <1>1, <1>2 DEF ObjectDue, DeletesObject
<1>. QED  BY <1>3, <1>4

\* No job uploads, and the FAQ stays deleted.
LEMMA JobsUnwritten ==
  ASSUME TypeOK, NEW q \in Faqs, OneIndexJob(q), Unwritten(q),
         NEW j \in JobSet(jobs), WorkStep(j) \/ JobFails(j)
  PROVE  /\ Unwritten(q)'
         /\ object'[q] = object[q] \/ object'[q] = NoVersion
<1>0. /\ faq \in [Faqs -> [status : FAQStatus \cup {"new", "deleted"},
                           answer : AnswerText, indexed : AnswerText]]
      /\ object \in [Faqs -> AnswerText] /\ j \in FaqJob /\ j.file \in Faqs
      /\ faq[q].status = "deleted" /\ ~Exists(q)
      /\ \A i \in IndexJobs(q) : i.pc \notin {"wipe", "upload"}
  BY Typed, JobFields DEF Unwritten, Exists, FAQStatus
<1>1. Unwritten(q)'
  <2>1. CASE j \notin IndexJobs(q)
    BY <1>0, <2>1, OtherJobStep DEF Unwritten
  <2>2. CASE j \in IndexJobs(q)
    <3>1. CASE IndexJobs(q)' = {} /\ faq' = faq
      BY <1>0, <3>1 DEF Unwritten
    <3>2. ASSUME NEW k, IndexJobs(q)' = {k}, k.pc \in {"ready", "done"}, faq' = faq  PROVE Unwritten(q)'
      BY <1>0, <3>2 DEF Unwritten
    <3>3. ASSUME NEW k, IndexJobs(q)' = {k}, faq' = faq,
                 <<j.pc, k.pc>> \in {<<"wipe", "upload">>, <<"upload", "status">>,
                                     <<"status", "rag">>, <<"rag", "hash">>}
          PROVE  Unwritten(q)'
      BY <1>0, <2>2, <3>3 DEF Unwritten
    <3>4. ASSUME NEW k, IndexJobs(q)' = {k}, k.pc = "done", SetLastIndexedHash(j)  PROVE Unwritten(q)'
      <4>1. j.file = q
        BY <2>2 DEF IndexJobs
      <4>2. faq' = faq
        BY <1>0, <3>4, <4>1 DEF SetLastIndexedHash
      <4>. QED  BY <1>0, <3>4, <4>2 DEF Unwritten
    <3>. QED  BY <1>0, <2>2, <3>1, <3>2, <3>3, <3>4, IndexJobStep
  <2>. QED  BY <2>1, <2>2
<1>2. object'[q] = object[q] \/ object'[q] = NoVersion
  <2>1. CASE UploadAnswer(j)
    <3>1. j.file # q
      BY <1>0, <2>1 DEF UploadAnswer, IndexAt, IndexJobs
    <3>. QED  BY <1>0, <2>1, <3>1 DEF UploadAnswer
  <2>2. CASE DeleteObject(j)
    BY <1>0, <2>2 DEF DeleteObject
  <2>3. CASE Ing!WorkStep(j) /\ UNCHANGED faqVars
    BY <2>3 DEF Ing!WorkStep, Ing!ArmEmbedding, Ing!FetchSource, Ing!EmitChunk, Ing!EmitMark,
         Ing!StoreChunk, Ing!CountChunks, Ing!SetCompleted, Ing!JobCompletes
  <2>4. CASE ReadFaq(j) \/ WipeChunks(j) \/ SetUploadStatus(j) \/ HandOff(j) \/ SetLastIndexedHash(j)
    BY <2>4 DEF ReadFaq, WipeChunks, SetUploadStatus, HandOff, SetLastIndexedHash, tables
  <2>5. CASE JobFails(j)
    BY <2>5 DEF JobFails, Ing!JobFails
  <2>. QED  BY <2>1, <2>2, <2>3, <2>4, <2>5 DEF WorkStep, IndexStep
<1>. QED  BY <1>1, <1>2

\* Every step keeps the deletion of an object that nobody will write.
LEMMA ObjectStep ==
  ASSUME TypeOK, IndexInv, [Next]_vars, NEW q \in Faqs, Unwritten(q), ObjectDue(q)
  PROVE  (Unwritten(q) /\ ObjectDue(q))'
<1>0. OneIndexJob(q) /\ object \in [Faqs -> AnswerText]
  BY Typed DEF IndexInv
<1>1. CASE UNCHANGED vars
  BY <1>1 DEF vars, Unwritten, ObjectDue, IndexJobs, DeletesObject
<1>2. CASE \/ \E p \in Faqs : Request(p)
           \/ \E c \in JobSet(calls) : CallStep(c) \/ CallAborts(c)
  BY <1>2, CallsUnwritten
<1>3. ASSUME NEW j \in JobSet(jobs), WorkStep(j) \/ JobFails(j)  PROVE (Unwritten(q) /\ ObjectDue(q))'
  <2>1. Unwritten(q)' /\ (object'[q] = object[q] \/ object'[q] = NoVersion)
    BY <1>0, <1>3, JobsUnwritten
  <2>2. discarded \subseteq discarded' /\ JobSet(jobs) \ {j} \subseteq JobSet(jobs')
    BY <1>3, DiscardedGrows, OthersStay
  <2>3. CASE ~DeletesObject(j, q)
    <3>1. \A i \in JobSet(jobs) : DeletesObject(i, q) => i \in JobSet(jobs')
      BY <2>2, <2>3
    <3>. QED  BY <2>1, <2>2, <3>1 DEF ObjectDue, DeletesObject
  <2>4. CASE DeletesObject(j, q)
    <3>0. IsABag(jobs) /\ j \in FaqJob
      BY Typed
    <3>1. CASE DeleteObject(j)
      <4>1. object'[q] = NoVersion
        BY <1>0, <2>4, <3>1 DEF DeleteObject, DeletesObject
      <4>. QED  BY <2>1, <4>1 DEF ObjectDue
    <3>2. CASE Ing!AttemptFails(j)
      <4>1. CASE LastAttempt(j)
        <5>1. <<"Delete-File-From-Storage", q>> \in discarded'
          BY <2>4, <3>2, <4>1, SameFailure DEF DeletesObject
        <5>. QED  BY <2>1, <5>1 DEF ObjectDue
      <4>2. CASE ~LastAttempt(j)
        <5> DEFINE k == Rescheduled(j)
        <5>1. k \in JobSet(jobs')
          BY <3>0, <3>2, <4>2, SameFailure, FailureJobs
        <5>2. DeletesObject(k, q)
          BY <2>4, <3>0, <4>2, RescheduledFields DEF DeletesObject
        <5> HIDE DEF k
        <5>3. ObjectDue(q)'
          BY <5>1, <5>2 DEF ObjectDue, DeletesObject
        <5>. QED  BY <2>1, <5>3
      <4>. QED  BY <4>1, <4>2
    <3>3. ~IndexStep(j)
      BY <2>4 DEF DeletesObject, IndexStep, ReadFaq, WipeChunks, UploadAnswer, SetUploadStatus, HandOff,
                  SetLastIndexedHash, IndexAt
    <3>4. ~Ing!WorkStep(j)
      BY <2>4 DEF DeletesObject, Ing!WorkStep, Ing!ArmEmbedding, Ing!FetchSource, Ing!EmitChunk,
                  Ing!EmitMark, Ing!StoreChunk, Ing!CountChunks, Ing!SetCompleted, Ing!JobCompletes
    <3>. QED  BY <1>3, <3>1, <3>2, <3>3, <3>4 DEF WorkStep, JobFails, Ing!JobFails
  <2>. QED  BY <2>3, <2>4
<1>. QED  BY <1>1, <1>2, <1>3 DEF Next

\* DeletedObjectGoes says that a queued deletion is done some day; this is what
\* no schedule, failure or late Index-FAQ can take away meanwhile.
THEOREM NoObjectForgotten == Spec => NoObjectIsForgotten
<1>1. TypeOK /\ IndexInv /\ [Next]_vars =>
        \A q \in Faqs : Unwritten(q) /\ ObjectDue(q) => (Unwritten(q) /\ ObjectDue(q))'
  BY ObjectStep
<1>. QED  BY <1>1, TypeCorrect, Invariant, PTL DEF Spec, NoObjectIsForgotten
=============================================================================
