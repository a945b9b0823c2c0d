---------------------------- MODULE FaqPipeline -----------------------------
(***************************************************************************)
(* Captured questions, their curated answers, and how an answer becomes    *)
(* searchable: faq.Service writes the faqs row and enqueues Index-FAQ,     *)
(* which wipes the chunks of the FAQ, uploads the answer as a document and *)
(* hands it to the ingestion pipeline (the jobs of module Ingestion).      *)
(*                                                                         *)
(* A FAQ and its files row are created and deleted together, so the FAQ's  *)
(* id also names its files row and its object.  An answer stands for the   *)
(* answer text, for its sha256 hash and for the document rendered of it.   *)
(* HTTP calls that touch the database more than once take one step per     *)
(* statement or transaction, and interleave with each other and the jobs.  *)
(***************************************************************************)
EXTENDS JobQueue, FiniteSets

CONSTANTS
  Faqs,         \* FAQ ids
  Questions,
  Question,     \* the question each FAQ was captured with
  Answers,
  ChunkCount,   \* how many chunks the document of an answer has
  MaxRequests,  \* bound: Answer, Update and Delete calls that are modelled
  Faults        \* what outside failures and crashes interrupt: kinds, or "HTTP"

ASSUME FaqAssumption ==
  /\ Question \in [Faqs -> Questions]
  /\ NoVersion \notin Answers /\ ChunkCount \in [Answers -> Nat] /\ MaxRequests \in Nat
  /\ Faults \subseteq {"HTTP", "Index-FAQ", "Delete-File-From-Storage",
                      "Process-RAG-File", "Generate-Chunks", "Mark-File-Embedded"}

VARIABLES
  faq,                         \* the faqs row of each FAQ
  calls,                       \* HTTP calls between two of their statements
  embedding, object, chunks,   \* as in Ingestion, for the FAQ's files row
  jobs, discarded, requests

faqVars == <<faq, calls>>
tables == <<embedding, object, chunks>>
vars == <<faq, calls, embedding, object, chunks, jobs, discarded, requests>>

Ing == INSTANCE Ingestion WITH Files <- Faqs, Versions <- Answers

FAQStatus == {"unanswered", "answered", "dismissed"}

Exists(q) == faq[q].status \in FAQStatus

AnswerText == Answers \cup {NoVersion}

Kinds == Ing!Kinds \cup {"Index-FAQ", "Delete-File-From-Storage"}

\* A job carries the answer it read or the chunk it is for.
FaqJob ==
  {j \in [kind : Kinds, file : Faqs, ver : AnswerText, n : Nat,
          pc : Ing!Steps \cup {"wipe", "upload", "status", "rag", "hash"},
          attempt : 1 .. MaxAttempts] :
    /\ j.kind = "Generate-Chunks" => j.ver \in Answers /\ j.n < ChunkCount[j.ver]
    /\ j.kind = "Process-RAG-File" /\ j.pc = "emit" => j.ver \in Answers}

ChunkRows == UNION {Ing!ChunksOf(a) : a \in Answers}

TypeOK ==
  /\ faq \in [Faqs -> [status : FAQStatus \cup {"new", "deleted"},
                       answer : AnswerText, indexed : AnswerText]]
  /\ IsABag(calls)
  /\ JobSet(calls) \subseteq
       [op : {"Answer"}, faq : Faqs, answer : Answers, pc : {"update", "enqueue"}]
         \cup [op : {"Delete"}, faq : Faqs, pc : {"enqueue"}]
  /\ embedding \in [Faqs -> Ing!EmbeddingStatus \cup {"new", "deleted"}]
  /\ object \in [Faqs -> AnswerText]
  /\ chunks \in [Faqs -> SUBSET ChunkRows]
  /\ IsABag(jobs)
  /\ JobSet(jobs) \subseteq FaqJob
  /\ discarded \subseteq Kinds \X Faqs
  /\ requests \in 0 .. MaxRequests

Init ==
  /\ faq = [q \in Faqs |-> [status |-> "new", answer |-> NoVersion, indexed |-> NoVersion]]
  /\ calls = EmptyBag
  /\ Ing!Init

-----------------------------------------------------------------------------
(* faq.Service and the handlers that call it *)

CountRequest == requests < MaxRequests /\ requests' = requests + 1

\* uq_faqs_unanswered_question: another open row with the same question.
QuestionTaken(q) ==
  \E p \in Faqs \ {q} : Question[p] = Question[q] /\ faq[p].status = "unanswered"

\* The chat found no context: the files row and the faqs row are inserted in
\* one transaction, which the unique index rolls back when the question is open;
\* module Chat shows that it is this one step.
RecordUnanswered(q) ==
  /\ faq[q].status = "new"
  /\ ~QuestionTaken(q)
  /\ faq' = [faq EXCEPT ![q].status = "unanswered"]
  /\ embedding' = [embedding EXCEPT ![q] = "pending"]
  /\ UNCHANGED <<calls, object, chunks, jobs, discarded, requests>>

\* FaqRepository.Answer reads the row and checks its status ...
AnswerChecks(q, a) ==
  /\ CountRequest
  /\ faq[q].status \in {"unanswered", "answered"}
  /\ calls' = Insert(calls, [op |-> "Answer", faq |-> q, answer |-> a, pc |-> "update"])
  /\ UNCHANGED <<faq, tables, jobs, discarded>>

\* ... and updates it, outside a transaction; no row left is an error.
AnswerUpdates(c) ==
  /\ c.op = "Answer" /\ c.pc = "update"
  /\ \/ /\ Exists(c.faq)
        /\ faq' = [faq EXCEPT ![c.faq].status = "answered", ![c.faq].answer = c.answer]
        /\ calls' = Advance(calls, c, [c EXCEPT !.pc = "enqueue"])
     \/ /\ ~Exists(c.faq)
        /\ calls' = Remove(calls, c)
        /\ UNCHANGED faq
  /\ UNCHANGED <<tables, jobs, discarded, requests>>

\* UniqueOpts: the insert is skipped while an Index-FAQ job of this FAQ is
\* available, running or waiting for its next attempt.
IndexLive(q) == \E j \in JobSet(jobs) : j.kind = "Index-FAQ" /\ j.file = q

\* Faulty variant: the insert without UniqueOpts.
EnqueueIndexFaq_NotUnique(q) == jobs' = Insert(jobs, Job("Index-FAQ", q, NoVersion, 0))

EnqueueIndexFaq(q) ==
  jobs' = IF IndexLive(q) THEN jobs ELSE Insert(jobs, Job("Index-FAQ", q, NoVersion, 0))

AnswerEnqueues(c) ==
  /\ c.op = "Answer" /\ c.pc = "enqueue"
  /\ EnqueueIndexFaq(c.faq)
  /\ calls' = Remove(calls, c)
  /\ UNCHANGED <<faq, tables, discarded, requests>>

\* Service.Update: one transaction, any status to any status.
Update(q, s) ==
  /\ CountRequest
  /\ Exists(q)
  /\ s = "unanswered" => ~QuestionTaken(q)
  /\ faq' = [faq EXCEPT ![q].status = s]
  /\ UNCHANGED <<calls, tables, jobs, discarded>>

\* Service.Delete: the rows and, by cascade, the chunks go in one transaction ...
DeleteRows(q) ==
  /\ CountRequest
  /\ Exists(q)
  /\ faq' = [faq EXCEPT ![q] = [status |-> "deleted", answer |-> NoVersion, indexed |-> NoVersion]]
  /\ embedding' = [embedding EXCEPT ![q] = "deleted"]
  /\ chunks' = [chunks EXCEPT ![q] = {}]
  /\ calls' = Insert(calls, [op |-> "Delete", faq |-> q, pc |-> "enqueue"])
  /\ UNCHANGED <<object, jobs, discarded>>

\* ... and the deletion of the object is enqueued after the commit.
DeleteEnqueues(c) ==
  /\ c.op = "Delete"
  /\ jobs' = Insert(jobs, Job("Delete-File-From-Storage", c.faq, NoVersion, 0))
  /\ calls' = Remove(calls, c)
  /\ UNCHANGED <<faq, tables, discarded, requests>>

CallStep(c) == AnswerUpdates(c) \/ AnswerEnqueues(c) \/ DeleteEnqueues(c)

\* The web process dies, or the next statement of the call fails.
CallAborts(c) ==
  /\ "HTTP" \in Faults
  /\ calls' = Remove(calls, c)
  /\ UNCHANGED <<faq, tables, jobs, discarded, requests>>

-----------------------------------------------------------------------------
(* FaqIndexWorker.Work; the job carries the answer it read *)

IndexAt(j, pc) == j.kind = "Index-FAQ" /\ j.pc = pc

MovesTo(j, pc) == jobs' = Advance(jobs, j, [j EXCEPT !.pc = pc]) /\ UNCHANGED discarded

\* Faulty variant: an answer is indexed once and never again.
NeedsIndex_Once(q) == faq[q].status = "answered" /\ faq[q].indexed = NoVersion

NeedsIndex(q) == faq[q].status = "answered" /\ faq[q].indexed # faq[q].answer

ReadFaq(j) ==
  /\ IndexAt(j, "ready")
  /\ \/ /\ ~Exists(j.file)
        /\ Ing!AttemptFails(j)
     \/ /\ Exists(j.file)
        /\ jobs' = Advance(jobs, j,
             IF NeedsIndex(j.file) THEN [j EXCEPT !.pc = "wipe", !.ver = faq[j.file].answer]
                                   ELSE [j EXCEPT !.pc = "done"])
        /\ UNCHANGED discarded
  /\ UNCHANGED <<faqVars, tables, requests>>

\* Faulty variant: the hash is recorded before the work it stands for.
WipeChunks_HashFirst(j) ==
  /\ IndexAt(j, "wipe")
  /\ chunks' = [chunks EXCEPT ![j.file] = {}]
  /\ faq' = IF Exists(j.file) THEN [faq EXCEPT ![j.file].indexed = j.ver] ELSE faq
  /\ MovesTo(j, "upload")
  /\ UNCHANGED <<calls, embedding, object, requests>>

WipeChunks(j) ==
  /\ IndexAt(j, "wipe")
  /\ chunks' = [chunks EXCEPT ![j.file] = {}]
  /\ MovesTo(j, "upload")
  /\ UNCHANGED <<faqVars, embedding, object, requests>>

UploadAnswer(j) ==
  /\ IndexAt(j, "upload")
  /\ object' = [object EXCEPT ![j.file] = j.ver]
  /\ MovesTo(j, "status")
  /\ UNCHANGED <<faqVars, embedding, chunks, requests>>

\* Faulty variant: a status that cannot be set makes the worker upload again.
SetUploadStatus_Again(j) ==
  /\ IndexAt(j, "status")
  /\ MovesTo(j, IF Ing!RowExists(j.file) THEN "rag" ELSE "upload")
  /\ UNCHANGED <<faqVars, tables, requests>>

\* fileService.SetStatus: files.status itself has no reader in the pipeline,
\* but the update of a missing row is an error.
SetUploadStatus(j) ==
  /\ IndexAt(j, "status")
  /\ \/ Ing!RowExists(j.file) /\ MovesTo(j, "rag")
     \/ ~Ing!RowExists(j.file) /\ Ing!AttemptFails(j)
  /\ UNCHANGED <<faqVars, tables, requests>>

HandOff(j) ==
  /\ IndexAt(j, "rag")
  /\ jobs' = Insert(Advance(jobs, j, [j EXCEPT !.pc = "hash"]),
                    Job("Process-RAG-File", j.file, NoVersion, 0))
  /\ UNCHANGED <<faqVars, tables, discarded, requests>>

\* SetLastIndexedHash: an update of no row is not an error.
SetLastIndexedHash(j) ==
  /\ IndexAt(j, "hash")
  /\ faq' = IF Exists(j.file) THEN [faq EXCEPT ![j.file].indexed = j.ver] ELSE faq
  /\ MovesTo(j, "done")
  /\ UNCHANGED <<calls, tables, requests>>

\* Faulty variant: the worker looks the files row up first.
DeleteObject_NeedsRow(j) ==
  /\ j.kind = "Delete-File-From-Storage" /\ j.pc = "ready"
  /\ object' = IF Ing!RowExists(j.file) THEN [object EXCEPT ![j.file] = NoVersion] ELSE object
  /\ MovesTo(j, "done")
  /\ UNCHANGED <<faqVars, embedding, chunks, requests>>

\* DeleteFileWorker.Work: deleting an object that is not there succeeds.
DeleteObject(j) ==
  /\ j.kind = "Delete-File-From-Storage" /\ j.pc = "ready"
  /\ object' = [object EXCEPT ![j.file] = NoVersion]
  /\ MovesTo(j, "done")
  /\ UNCHANGED <<faqVars, embedding, chunks, requests>>

IndexStep(j) ==
  \/ ReadFaq(j) \/ WipeChunks(j) \/ UploadAnswer(j) \/ SetUploadStatus(j)
  \/ HandOff(j) \/ SetLastIndexedHash(j)

WorkStep(j) ==
  \/ IndexStep(j)
  \/ DeleteObject(j)
  \/ Ing!WorkStep(j) /\ UNCHANGED faqVars

JobFails(j) == j.kind \in Faults /\ Ing!JobFails(j) /\ UNCHANGED faqVars

Request(q) ==
  \/ RecordUnanswered(q)
  \/ \E a \in Answers : AnswerChecks(q, a)
  \/ \E s \in FAQStatus : Update(q, s)
  \/ DeleteRows(q)

Next ==
  \/ \E q \in Faqs : Request(q)
  \/ \E c \in JobSet(calls) : CallStep(c) \/ CallAborts(c)
  \/ \E j \in JobSet(jobs) : WorkStep(j) \/ JobFails(j)

Spec == Init /\ [][Next]_vars

\* A free worker runs some available job; an HTTP call that began goes on.
Fairness ==
  /\ WF_vars(\E j \in JobSet(jobs) : WorkStep(j))
  /\ WF_vars(\E c \in JobSet(calls) : CallStep(c))

FairSpec == Spec /\ Fairness

-----------------------------------------------------------------------------
(* Properties *)

Quiet(q) ==
  /\ \A j \in JobSet(jobs) : j.file # q
  /\ \A c \in JobSet(calls) : c.faq # q

NothingDiscarded(q) == \A d \in discarded : d[2] # q

Searchable(q, a) == chunks[q] = Ing!ChunksOf(a)

\* faq.Service.Delete: whatever jobs and calls of a FAQ are still running when
\* it is deleted, no chunk of it is ever stored again and no files row is left.
DeletedLeavesNoRow ==
  \A q \in Faqs : faq[q].status = "deleted" =>
    chunks[q] = {} /\ embedding[q] = "deleted"

\* UniqueOpts of Index-FAQ: whatever edits overlap, the hash that says which
\* answer was indexed names the document that is stored, unless a job of the
\* FAQ is just replacing it.
IndexedMatchesObject ==
  \A q \in Faqs :
    /\ Exists(q) /\ faq[q].indexed # NoVersion
    /\ \A j \in JobSet(jobs) : j.file = q /\ j.kind = "Index-FAQ" =>
         j.pc \in {"ready", "done"}
    => object[q] = faq[q].indexed

\* Index-FAQ with one answer that is never edited: once nothing is running and
\* no job was given up, an answer recorded as indexed has all of its chunks and
\* its file is completed.
IndexedMeansSearchable ==
  \A q \in Faqs :
    /\ Exists(q) /\ faq[q].indexed # NoVersion
    /\ Quiet(q) /\ NothingDiscarded(q)
    => Searchable(q, faq[q].indexed) /\ embedding[q] = "completed"

\* An Index-FAQ job that has not begun will index the answer that is current,
\* unless the answer or the status changes again or the job is discarded.
IndexCatchesUp ==
  \A q \in Faqs, a \in Answers :
    (/\ faq[q].status = "answered" /\ faq[q].answer = a
     /\ \E j \in JobSet(jobs) : IndexAt(j, "ready") /\ j.file = q)
    ~> \/ faq[q].indexed = a
       \/ faq[q].status # "answered" \/ faq[q].answer # a
       \/ <<"Index-FAQ", q>> \in discarded

\* The object of a deleted FAQ goes once its deletion is enqueued, unless an
\* Index-FAQ job is already past its lookup, or the deletion is discarded.
DeletedObjectGoes ==
  \A q \in Faqs :
    (/\ faq[q].status = "deleted"
     /\ \E j \in JobSet(jobs) :
          j.kind = "Delete-File-From-Storage" /\ j.file = q /\ j.pc = "ready"
     /\ \A j \in JobSet(jobs) : j.file = q => ~IndexAt(j, "wipe") /\ ~IndexAt(j, "upload"))
    ~> object[q] = NoVersion \/ <<"Delete-File-From-Storage", q>> \in discarded

IndexJobs(q) == {j \in JobSet(jobs) : j.kind = "Index-FAQ" /\ j.file = q}

\* A deleted FAQ with no Index-FAQ job past its lookup and before the end of
\* its upload.
Unwritten(q) ==
  /\ faq[q].status = "deleted"
  /\ \A j \in IndexJobs(q) : j.pc \notin {"wipe", "upload"}

DeletesObject(j, q) == j.kind = "Delete-File-From-Storage" /\ j.file = q /\ j.pc = "ready"

\* The object is about to be removed, is removed, or River gave that up.
ObjectDue(q) ==
  \/ \E j \in JobSet(jobs) : DeletesObject(j, q)
  \/ object[q] = NoVersion
  \/ <<"Delete-File-From-Storage", q>> \in discarded

\* FaqIndexWorker against DeleteFileWorker: only an upload that an Index-FAQ job
\* had begun with a row in hand makes the object of a FAQ outlive its deletion.
\* Otherwise it is removed or its removal queued, and stays so: failing attempts
\* at the removal do not lose it, and jobs and calls that come late, retries of
\* Index-FAQ among them, write no object.
NoObjectIsForgotten ==
  [][\A q \in Faqs : Unwritten(q) /\ ObjectDue(q) => (Unwritten(q) /\ ObjectDue(q))']_vars

-----------------------------------------------------------------------------
(* The inductive invariant behind IndexedMatchesObject *)

\* UniqueOpts: one job, and one copy of it.
OneIndexJob(q) == \A i, j \in IndexJobs(q) : i = j /\ jobs[i] = 1

\* The FAQ and its files row come and go together.
RowsTogether(q) ==
  /\ Exists(q) => Ing!RowExists(q)
  /\ faq[q].status = "new" => faq[q].indexed = NoVersion

Deleting(q) ==
  \/ \E c \in JobSet(calls) : c.op = "Delete" /\ c.faq = q
  \/ \E j \in JobSet(jobs) : j.kind = "Delete-File-From-Storage" /\ j.file = q

\* What the running job has uploaded is still there when it records the hash.
UploadStands(q) ==
  faq[q].status # "deleted" =>
    \A j \in IndexJobs(q) : j.pc \in {"status", "rag", "hash"} => object[q] = j.ver

IndexInv ==
  \A q \in Faqs :
    /\ OneIndexJob(q) /\ RowsTogether(q) /\ UploadStands(q)
    /\ Deleting(q) => faq[q].status = "deleted"

-----------------------------------------------------------------------------
(* What the design documents say and the code does not keep *)

\* An edit removes the old chunks: no chunk of an earlier answer stays beside
\* those of the indexed one once the pipeline is quiet.
NoStaleChunks ==
  \A q \in Faqs :
    Exists(q) /\ Quiet(q) /\ faq[q].indexed # NoVersion =>
      \A c \in chunks[q] : c.ver = faq[q].indexed

\* Edits serialize on Index-FAQ: when the pipeline is quiet and gave nothing
\* up, the current answer is the indexed one.
EveryAnswerIndexed ==
  \A q \in Faqs :
    /\ faq[q].status = "answered" /\ Quiet(q) /\ NothingDiscarded(q)
    => faq[q].indexed = faq[q].answer
=============================================================================
