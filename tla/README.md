# TLA+ models and proofs for uwa-go-rag

uwa-go-rag is a Go web service for retrieval-augmented chat: users upload
documents and curate answers to frequent questions; background jobs cut them
into chunks, embed the chunks and store them in Postgres for similarity search.
This directory holds TLA+ modules of the parts whose correctness depends on the
order in which requests, jobs, crashes and retries happen, and of the chunker;
the TLC runs that check them; and the TLAPS proofs about them. Paths below are
relative to `src/`.

## 1. Inventory

| Component | Code | State it keeps | Operations | What makes it correct |
|---|---|---|---|---|
| Job queue (River) | `internal/infra/queue/river.go` | the River job table | one `Enqueue…` per job kind; River fetches, retries, rescues and discards | at least once, no order between jobs, one live Index-FAQ per FAQ |
| Ingestion pipeline | `internal/worker/{process_rag,generate_chunks,mark_file_embedded}.go`, `internal/rag/service.go`, `chunk_repository.go` | `files.embedding_status`, `chunks` rows | the three jobs and `POST /files/{id}/rag` | the flag is `completed` only with all chunks stored; no file hangs in `processing` |
| Chunker, tokenizer | `internal/rag/{service,chunker}.go`, `internal/infra/tokenization/simple.go` | none (pure) | parse, merge, split, windows; split and count | nothing lost, headings in scope, sizes, termination |
| FAQ service and indexing | `internal/faq/`, `faq_repository.go`, `internal/worker/index_faq.go` | `faqs` rows with the two hashes, the FAQ's `files` row and object | RecordUnanswered, Answer, Update, Delete, Index-FAQ | an answer ends up searchable, an old one does not stay; deletion removes everything |
| Chat service | `internal/chat/{service,handler}.go` | none | search, prompt, capture of an unanswered question | one open row per question; no failed search is lost; capture never fails the chat |
| File store | `internal/file/`, `file_repository.go`, `internal/worker/{process_file_deletion,process_image}.go` | `files` rows, objects and thumbnails in the bucket | presign, client PUT, status update, thumbnail, delete | no object outlives its row without a known cause |
| Users and passwords | `internal/user/`, `user_repo.go` | `users` rows | create, change password, update, delete | overlapping changes serialize on the row |
| Unit of work | `unitofwork.go` | an open transaction | begin, commit, rollback | all or nothing; every lock is given back |
| Authentication, permissions | `internal/auth/`, `internal/web/handler.go`, `internal/infra/jwt/`, `internal/server/middlewares/` | the session cookie, tokens | login, refresh, logout, the middlewares | a role change and a deletion reach what was issued before |
| Audit log | `internal/audit/`, `audit_repo.go`, `internal/worker/insert_audit.go` | `audit_logs` rows | record, page through | an event gets its row; a reader misses none |
| Service manager | `cmd/web/` | the running services, one cancellation context, one 30 s deadline | Start, sequential shutdown | the process ends after a signal; the pool closes last |
| Chat hub and websocket | `internal/chat/{hub,handler}.go` | registered connections | register, unregister, CloseAll | connections get a going-away close |
| Clients and plumbing | `internal/infra/{storage,ai,cookie,password}`, `internal/server`, `internal/env`, `cmd/seed`, `cmd/poc` | none | I/O, parsing, wiring | see section 6 |

How they interact: HTTP handlers and jobs share only Postgres, the object store
and the job table. There is no lock across them: single statements and the
transactions of `UnitOfWork.Do` are atomic, everything else interleaves. An
`Enqueue…` call is a separate write that is *not* part of the caller's
transaction. Any job may run again from its beginning after a crash.

Hard behaviours, listed with their lines in `PROJECT.json` under "hazards":
parallel chunk jobs against the completion job; retries that repeat what was
done; deletion and re-indexing while jobs of the earlier content are queued;
values read once and used after they changed; an enqueue that fails behind a
commit; uploads behind a deletion; row locks and unique indexes that make one
transaction wait for another; tokens that outlive what they were issued for; a
silent insert failure; paging while rows arrive; budgets that are computed from
parts and spent on the joined text.

## 2. Modules

| Module | What it is |
|---|---|
| `JobQueue` | The River job table as a bag of job records, with attempts and discards. Extended by every module with jobs. |
| `Ingestion` | The three ingestion jobs, the requests that start them, upload and deletion. |
| `IngestionContract` | What ingestion promises the readers of `files` and `chunks`: no jobs, no retries. `Ingestion` implements it. |
| `FaqPipeline` | `faq.Service` and Index-FAQ, composed with the jobs of `Ingestion` (`INSTANCE Ingestion WITH Files <- Faqs, Versions <- Answers`). |
| `Chat` | `chat.Service` and the capture as a transaction of two inserts; it refines the one step `RecordUnanswered` of `FaqPipeline`. |
| `FileStore` | Rows, objects and thumbnails of uploaded files, and their deletion. |
| `Users` | The users table with one atomic operation per request: what `Accounts` implements and `Sessions` builds on. |
| `Accounts` | The transactions of `user.Service`, statement by statement, with row locks. |
| `Sessions` | Logins, cookies, access and refresh tokens against changes of the users. |
| `AuditLog` | The audit jobs, the table and a client that pages through it. |
| `Tokens` | Tokenizer and sentence splitter, over sequences of character classes. |
| `Chunker` | `ParseSections` and `ChunkSections`, one step per node, merge or turn of a loop. |
| `Shutdown` | The service manager with its three services, the chat hub's connections and the connection pool, from start-up to exit. |
| `…Proofs` | TLAPS proofs about the module of that name. `AccountsProofs` covers `Sessions` too, `ServerProofs` covers `Chat` and `Shutdown`; those of `JobQueueProofs` are lemmas on the job table that the others share. |
| `MC…` | Definitions of constants for TLC. |

### State and actions

*JobQueue.* `jobs` is a bag because two identical inserts make two jobs. A job's
`pc` is the next step of its `Work` method; `attempt` is River's counter. A
finished or discarded job leaves the bag; what was discarded is remembered in
`discarded` so that properties can say "unless River gave up". A retried job
starts again from its arguments (`Rescheduled`).

*Ingestion.* `embedding[f]` is `files.embedding_status`, extended by `"new"` (no
row yet) and `"deleted"`; `object[f]` is the object under the row's key;
`chunks[f]` the chunk rows as `[index, ver]`. `ArmEmbedding`, `FetchSource`,
`EmitChunk`, `EmitMark` are the calls of `ProcessDocWorker.Work` in order;
`StoreChunk` is `ChunkGeneratorWorker.Work`; `CountChunks` and `SetCompleted`
the two statements of `MarkFileEmbeddedWorker.Work`. `JobFails` is an outside
failure or a crash at any step, also after the last effect of a job and before
River records it. The unique constraint and the foreign key of `chunks` are the
guard `InsertAllowed`, the cascade is in `DeleteRow`.

*FaqPipeline.* `faq[q]` holds the status, the answer (which stands for its hash)
and the hash last indexed. `calls` is the bag of HTTP calls between two of their
statements: Answer is read-and-check, update, enqueue; Delete is a transaction,
then an enqueue. Capture and Update are one step each. `ReadFaq`,
`WipeChunks`, `UploadAnswer`, `SetUploadStatus`, `HandOff`, `SetLastIndexedHash`
are the calls of `FaqIndexWorker.Work` in order. `Faults` names the job kinds
(or `"HTTP"`) that outside failures and crashes interrupt in a run.

*Chat.* `pc[c]` is the next step of chat `c`: embed, search, ask the model, then
the transaction `begin`, `files`, `faqs`, `commit`. `pending` are rows inserted
and not committed. The partial unique index is `Open` (a committed open row) and
`MustWait` (an uncommitted one, whose transaction the second insert waits for).
A chat names the rows it would create. Curators act in one step each. `wasOpen`
is history: the chats during which their question was open.

*FileStore.* `bucket` maps a file's two keys, object and thumbnail, to the
number of the PUT that made their content. `calls` are DELETE requests between
the row's deletion and the two enqueues. `url` is the presigned URL, which works
whatever happened to the row. `unclaimed` is history: keys written or left
behind when no deletion of them is to come.

*Users, Accounts.* `users[u]` is a row, `lock[u]` the holder of its row lock,
`call[c]` a request: the transaction has begun (`"lock"`), has the lock and has
read the row (`"write"`), has written (`"commit"`). `Rollback` is every way a
transaction dies. A password stands for itself and its hash.

*Sessions.* `cookie[b]` holds the values of browser `b`'s session cookie,
`tokens` the access tokens in circulation with the role they were issued under
(the role stands for the permissions, which only migrations and the seed
change), `login[b]` a login between its statements. Users change through the
operations of `Users`, behind the middlewares.

*AuditLog.* `rows` are committed rows, `nextId` is the sequence, taken before
the commit. An insert fails with an error (`JobFails`) or without one
(`InsertFails`). `reader` is a client that asks for page after page until one is
not full.

*Tokens, Chunker.* A text is a sequence of the classes word, blank, sentence end
and other punctuation. `doc` is what goldmark's walk yields, node by node;
`stack`, `sections`, `pos`, `start`, `budget`, `group`, `currentTokens`, `chunks` are the
variables of `ParseSections`, `mergeSmallSections`, `splitSection` and
`sentenceWindows`. `Content` puts a chunk's text together and is what the size
is measured on.

*Shutdown.* `main` is where `ServiceManager.Start` is: serving, in the shutdown
of the worker, in the web server's hooks (`"hooks"` before and `"hub"` after
`CloseAll` copied its map), draining the server, closing the pool, waiting for
the errgroup, exited. `run[s]` is the goroutine of service `s`; the first that
fails cancels the context, as a signal does. `conn[c]` follows a websocket
through `HandleWS`; an upgraded connection is hijacked and no longer counts as
a handler of the server. `deadline` is the end of the 30 s. Jobs, handlers and
clients may hang; a stopped worker may therefore leave jobs behind when the
deadline passes.

### Abstractions

- In the pipelines a document is the number of chunks the chunker makes of it
  (`ChunkCount`); `Chunker` shows what they are.
- A hash identifies its text; chunk rows carry the content they were cut from.
- An FAQ's id also names its `files` row and its object: the three are created
  and deleted together.
- In `Ingestion` the client uploads an object once, as the upload form does. The
  presigned URL would let it replace the object while it is valid; `FileStore`
  has that, `FaqPipeline` the replacement by the service itself.
- `FaqPipeline` leaves out a manual `POST /files/{id}/rag` for the files row of an
  FAQ, which the endpoint would accept: there Index-FAQ is what starts ingestion.
  `Ingestion` has the request, and the second ingestion it brings, for any file.
- `files.status` has no reader in the pipelines; its update fails there when the
  row is gone. `FileStore` keeps its value.
- A call that fails fails without effect; an effect followed by a failure is the
  failure of the next step.
- In `Sessions` the check of a request's identity and the operation on the users
  table are one step: no property there depends on what lies between.
- Variants of a definition with a suffix (`AllCounted_OffByOne`) are faulty
  versions. No specification uses them: they are put in place of the original to
  confirm that the properties notice.

## 3. Runs

| Run | Instance | What it shows |
|---|---|---|
| `IngestionRetries` | 1 file, an empty and a 2-chunk document, 1 request, 2 attempts per job | With every job failing or crashing once anywhere, and deletion at any time: `CompletedMeansStored`, refinement of `IngestionContract`, and under fairness `ArmedIsResolved`. |
| `FaqEdits` | 1 FAQ, answers of 1 and 2 chunks, any 2 calls, 2 attempts, deletion jobs that fail or crash | `DeletedLeavesNoRow`, `IndexedMatchesObject`, `NoObjectIsForgotten`, and under fairness `IndexCatchesUp`, `DeletedObjectGoes`. |
| `FaqCrashes` | 1 FAQ, 1 answer, 2 attempts, failures in the HTTP call, Index-FAQ and Process-RAG-File | `IndexedMeansSearchable`. |
| `FaqStaleChunks` | an answer and its edit | **Violation.** A queued chunk job of the old answer stores its chunk after the wipe and keeps the new chunk out. |
| `FaqLostEdit` | an answer and its edit | **Violation.** An edit behind a running Index-FAQ job is never indexed. |
| `Chat` | 3 chats, one question typed in two ways, all curator actions | `OneOpenPerQuestion`, `NoContextIsCaptured`, `CaptureIsOneStep`, and under fairness `EveryChatEnds`. |
| `FileStore` | 1 image, 2 PUTs, 2 thumbnail requests, 2 attempts per job | `OrphansAreExplained`, and under fairness `DeletedFileGoes`, `ThumbnailCatchesUp`. |
| `Accounts` | 1 user, 2 passwords, 2 requests at a time, without end | `NothingStale`, refinement of `Users`, and under fairness `EveryCallEnds`. |
| `Sessions` | the administrator and a user, 2 roles, one browser | Under fairness `RoleChangesArrive`, `DeletedUserFadesOut`. |
| `AuditLog` | 2 events, 2 attempts, page sizes 1 and 2, every pair of dates | `NoRowMissed`, and under fairness `EventsAreRecorded`. |
| `Chunker` | documents of up to 5 of 9 headings and blocks, limit 8, overlap 2 | `HeadingsInScope`, `NothingLost`, `ChunksFit`, `MergedStaysWhole`, `WordsAreDescribed`, `AlwaysForward`, and no deadlock before the end. |
| `Shutdown` | 2 websockets, 2 workers, 2 handlers | `PoolClosesLast` and, under fairness, `ShutdownEnds`, with a signal or a failing service at any moment, also while others still start. |

The two violations are disagreements between the design documents (quoted in
`PROJECT.json`, "findings") and what the code does.

**Bounds.** Jobs of different files share nothing but the queue, which gives no
order anyway, and users, questions and FAQs meet only on their own row: one of
them is enough, and two contents where content is replaced. Two chunks are the
smallest document whose chunks can be partly stored; the empty document is the
boundary case. Two attempts give one retry of every job, one makes every failure
a discard; more attempts only repeat the first retry. `MaxRequests` bounds HTTP
calls, `MaxUploads` PUTs. Two transactions are the smallest number that can wait
for each other; a third chat can come between them. One browser that two people
share shows what a cookie of one login does to the next. Two events with two
attempts make four rows, more than a page. In `Chunker` the nine nodes are
texts on either side of the limit: two that fit together and not one by one, one
that begins with punctuation, one sentence, code and a table that exceed the
limit, headings that skip a level, are empty or have no word; five nodes make two
sections that merge, a third that does not, and a block that is split. In `Shutdown` two
jobs, handlers and connections show one that is done beside one that is not.
Deadlock is checked for `Chunker` only: elsewhere the system rightly stops when
the requests of the bound are used up, or everything has exited.

**Fairness.** `WF` of "some available job takes a step": River has five workers
and fetches whenever one is free. It is not assumed that a job succeeds, only
that it is tried; nothing makes a client act. An HTTP call that began goes on, as
its goroutine does (`FaqPipeline`, `FileStore`, `Accounts`, `Chat`, `Sessions`).
`Accounts` needs `SF` for taking the row lock: Postgres queues those who wait, so
one that waits while others come and go has its turn. `Sessions` assumes that
what has an expiry date expires. `Shutdown` assumes that goroutines which can go
on do, that the 30 s pass, and that a closing handshake ends (the websocket
library gives it a time limit of its own, because `CloseAll` takes no context);
it does not assume that a job, a handler or a client ever ends.

### Known divergences without a run

Met while modelling; the models have these behaviours, and the properties are
stated so that they say what does hold.

- No code writes `embedding_status = 'failed'`, which
  `docs/PRDs/mvp-embedding-generation-ingestion-pipeline.md:107` describes;
  `ArmedIsResolved` therefore ends in "or given up".
- The completion job counts and marks in two statements; an Index-FAQ that wipes
  between them leaves a file completed without chunks (same document, line 109).
- An edit whose indexing fails behind the wipe and that is then reverted makes
  the two hashes equal again: the retry returns at once, and the answer has no
  chunks (`docs/PRDs/mvp-internal-faq-pipeline.md:388`).
- Index-FAQ uploads without a second look: the object of an FAQ deleted meanwhile
  stays (`docs/PRDs/mvp-internal-faq-deletion-pipeline.md:214`). A thumbnail job
  and a late PUT do the same to an uploaded file.
- A chunk may exceed 512 tokens (`internal/rag/chunker.go:50`,
  `docs/PRDs/mvp-markdown-doc-chunking-pipeline.md:262`): a sentence or table that
  does, headings that leave no room, a joint before punctuation, whose blanks
  count as a token of their own, or headings without any word (`## -`), which are
  one token as a context and several before a text. The overlap can make a window
  that the one before it contains.
- The comments at `internal/rag/chunker.go:10` and `:42` call tables and code
  blocks atomic. A code block beyond the limit is windowed like a paragraph, and
  its lines are joined by blanks; line 196 of the same PRD allows the break.
- A text without any word is one token, whatever its length
  (`internal/infra/tokenization/simple.go:53`); by the comment at line 21 every
  punctuation character of it would be one. A long line of symbols is therefore
  never too large for a chunk. `WordsAreDescribed` is what holds of the comment:
  it describes every counted text that has a word.
- Blanks at the end of a text are added to its last word
  (`internal/infra/tokenization/simple.go:82`), which the comment at line 21 does
  not say. No text the engine counts ends in a blank, so it makes no difference.
- `InsertOpts` on the workers (`internal/worker/process_image.go:105`,
  `internal/worker/insert_audit.go:35`) is not what River reads, it takes it from
  the arguments; those jobs have 25 attempts, not 5.
- An audit insert that fails after its statement was prepared is not noticed
  (`audit_repo.go:59`). A client that stops at the total the first page reported
  can miss rows; one that reads until a page is not full cannot.
- `PATCH /users/{id}` writes an empty password when none is given; both logins
  refuse empty passwords.

## 4. Proofs

All proofs are for arbitrary constants, under the modules' named assumptions,
which TLC evaluates in the runs.

`IngestionProofs` (from `MaxAttemptsAssumption`, `IngestionAssumption`):

- `TypeCorrect`: `Spec => []TypeOK`.
- `Invariant`: `Spec => []IngestionInv`. `CompletedMeansStored` is not inductive:
  `SetCompleted` acts on a count taken earlier. `IngestionInv` adds what makes
  it so: every job agrees with the one content of its file (`JobAgrees`: a
  completion job carries exactly the number of chunks of the object, and one
  that has counted has all chunks stored; a chunk job carries an index below
  it), `ChunksCoherent`, and that an armed file has a job that resolves it
  (`ArmedHasJob`). The count implies "all stored" by cardinality
  (`CountedMeansAll`): rows of the right content, with distinct indexes, as many
  as there are chunks. A chunk that is stored later cannot break it, because an
  insert is possible only while a chunk is missing (`InsertMeansMissing`).
- `CompletedIsHonest`, `ChunksAreCoherent`, `NoFileStuck`: three properties from
  it.
- `Refinement`: `Spec => ImplementsContract`, step by step under the invariant.

They hold for any number of overlapping requests, which the run has only as
retries. They do not extend to `FaqPipeline`: there the content of a file
changes, and `JobAgrees` is false. What does hold there is proved apart.

`FaqPipelineProofs` (from `MaxAttemptsAssumption`, `FaqAssumption`):

- `TypeCorrect`: `Spec => []TypeOK`. `FaqJob` says what it needs of the jobs: a
  chunk job is for a chunk its answer has.
- `DeletedIsGone`: `Spec => []DeletedLeavesNoRow`, inductive with the types.
  What a late job writes to rows is guarded by the files row or by the foreign
  key, and neither comes back.
- `Invariant`: `Spec => []IndexInv`, under any `Faults`. A FAQ has one Index-FAQ
  job in one copy (`OneIndexJob`: `EnqueueIndexFaq` inserts only when none is
  live, and a job that is scheduled again is still that one); the FAQ and its
  files row go together (`RowsTogether`); only a deleted FAQ is being deleted
  (`Deleting`); so what the job uploaded stands until it records the hash
  (`UploadStands`).
- `IndexedIsStored`: `"Index-FAQ" \notin Faults` implies
  `Spec => []IndexedMatchesObject`. The assumption is needed: an attempt that is
  cut short between the upload and the hash leaves the new document under the
  old hash until the next attempt, or for good when it was the last.

The job table of `Ingestion` inside `FaqPipeline` is the same table, but its
operators come through `INSTANCE`: `SameInsert` to `SameFailure` identify them
with those of `JobQueue`. `JobGoesOn` says once what any of the job steps does to
the table, and `JobStepFrame` concludes what it leaves alone.

`IndexedIsSearchable` (`Spec => []IndexedMeansSearchable`, with one answer that
is never edited) needs the whole chain behind the hash. `SearchInv` adds to the
above that the hash is set once (`HashOk`) and that, unless a job was discarded,
what was handed off is stored or on its way (`Assured`): each chunk has its row,
its chunk job or a Process-RAG-File job that has yet to emit it, and the flag is
set or will be. With an answer that is edited it is false: `FaqStaleChunks` is
the counterexample.

Two of its theorems are about what the liveness properties rest on, under any
`Faults`. `NoAnswerLost` (for `IndexCatchesUp`): while an answer stays, an
Index-FAQ job that has not begun sees to it and no other job holds an older
answer (`IndexAssured`), and no request, failure or retry takes that away; only
River gives it up. `NoObjectForgotten` (for `DeletedObjectGoes`) proves `NoObjectIsForgotten`: once no
Index-FAQ job of a deleted FAQ is between its lookup and its upload
(`Unwritten`), none will be, and its object is removed or its deletion queued
from then on. Without `Unwritten` it is false: that is the late upload of the
hazard list.

`ServerProofs`, about `Chat` (from `ChatAssumption`), proves `NeverOpenTwice`,
`NothingLostSilently` and `CaptureRefines` from `ChatInv`: of the chats that ask
the same there is one open row or one uncommitted row at most, an open row's
commit finds no other, and a chat's question being open was noted for every chat
that runs. The uniqueness is what the index checks at the insert, and `MustWait`
is why it still holds at the commit. `ChatsGoOn` is the safety half of
`EveryChatEnds`: whoever waits does so for a transaction that only has to commit
(`WaitsAreShort`), and no chat turns back or loses its reply.

`AccountsProofs` (from `UsersAssumption`, `AccountsAssumption`) proves
`NoStaleCommit`, `NoLockIsLeft`, `Refinement` and `DeletedIsFinal` from
`AccountsInv`: a call
beyond `LockRow` holds its row's lock, a row has one holder, and what the holder
read or wrote follows from the row as it is. Only a holder's commit changes an
existing row, so that the row of every other waiting call is still unread. A lock belongs
to a call that is past `LockRow` and not ended, so whoever waits for it waits for
somebody who can go on.

About `Sessions` (from `SessionsAssumption`) it proves the safety that the two
liveness properties of the run rest on. `SessionsInv` adds to the types that a
login or a cookie names a user who has a row (rows are never removed), so that
the permissions that are read are those of a role. `RolesSettle` (`SettledStays`):
a token comes from a refresh, which reads the role anew, or from a login whose
read is in `login` (`TokensAreNew`, `LoginsAreNew`), so a former role does not
come back while the row keeps its role. `FadingIsFinal` (`FadedStays`): a cookie
comes to name a user only at the end of a login of that user (`CookiesAreNew`),
and a login begins with an active one.

`FileStoreProofs` (from `MaxAttemptsAssumption`, `FileStoreAssumption`) proves
`TypeCorrect` and `OrphansExplained`. `OrphansAreExplained` is inductive with
the types: its four explanations hand the key on to each other. A DELETE call
that has yet to enqueue becomes a queued job or, when it is cut short, an entry
of `unclaimed`; a failed attempt at the job becomes the next attempt or an entry
of `discarded`; and a write behind all of them is noted by `Claim`.
`NoDeletionLost` and `NoThumbnailLost` are the safety halves of
`DeletedFileGoes` and `ThumbnailCatchesUp`. The first begins where nobody can
write the key any more: the upload URL has expired and no thumbnail job is past
its lookup (`Unwritten`). The second needs that deletions come after the row is
gone (`DeletionsAreLate`), or one could remove a thumbnail that was asked for.

`AuditLogProofs` (from `AuditLogAssumption`) proves `PagesMissNothing`, that is
`Spec => []NoRowMissed`. `AuditInv` says that ids are taken once
(`IdsAreTakenOnce`: the sequence gives an id to one insert, and an insert runs in
one job) and that every owed row the client was not sent has a rank, its number
of newer rows, not below the offset of the next page (`NothingBehind`). Rows that
are added only raise ranks (`RankGrows`). The ranks of the rows are exactly
0, 1, ... (an injection between sets of one size), so a page that is not full has
no row behind it (`PageIsFull`): ending there is right. `TypeCorrect` bounds the
ids as the run does: every attempt at an insert takes one of its event's
`MaxAttempts` (`Spent`). `NoneForgotten` is the safety kernel of
`EventsAreRecorded`: no step takes away both the job and the record of an event
that was owed, unless River gave up or the insert failed silently.

About `Shutdown` (from `ShutdownAssumption`), `ServerProofs` proves `PoolClosesLast`
for any number of connections, workers and handlers, from `OrderInv`: what each finished step of the shutdown has waited for stays true
behind it. That jobs stay at 0 needs `NothingFetched` (the context is cancelled
before `Start` goes on, so a worker that starts late fetches nothing), that
handlers stay at 0 needs the listener to be closed (`StepsDone`).
`ShutdownEnds` rests on two more: `ShutdownGoesOn`, nothing takes the shutdown
back (`NothingTurnsBack`), and `JoinGoesOn`, at `g.Wait` each service that has
not returned can (`JoinIsNoTrap`), even one that was still starting when the
signal came: a web server that binds no port again because its listener is
closed, a worker whose `Start` does not block (`ReturnInv`).

`ChunkerProofs` (from `ChunkerAssumption`) holds for documents of any length over
any nodes, and for any limits and overlap.

- The texts are data: what a recursive function computes is proved as far as it
  is needed from the least element of a set of numbers (`LeastNatural`, from
  which `Recursion` and `Induction` for one function and one set at a time):
  `Ascending` lists a set of indices in order (`AscendingIs…`, `AscendingUnique`),
  sums of sentence tokens rise.
- `TypeCorrect` (`TypeInv`): a section is a nonempty list of blocks of the
  document, the loops of the split stay within it, and a window always finds its
  last sentence.
- `MovesForward`: `AlwaysForward`. `NextStartMoves` is the point of the overlap:
  whatever the sentences weigh, the next window begins behind the one before.
- `NoLoss`: `NothingLost` speaks of the end only. `LossInv` says at every step
  what has been kept so far: the sections hold the document's blocks in order
  and up to its end (`Chain`, `Begin`); the pieces of the chunks and of the open
  group follow each other (`Emission`), and the next block or window may follow
  them (`May`) or the section's last block has been reached (`Reached`).
- `ScopesAreKept`: `HeadingsInScope`. `TitleInv` is about the stack during the
  walk: without its placeholders it is the scope of the next block
  (`StackIsScope`), node for node, because both are lists in ascending order of
  the same set. Merging compares texts, not nodes: siblings have parents of the
  same titles (`SameTitlesPath`), and the path of a parent is the beginning of
  the path (`ParentPathBegins`), so the title-by-title prefix survives any number
  of merges.
- `MergedIsOneChunk`: `MergedStaysWhole`. `RoomInv`: a section whose blocks have
  different scopes was merged, so its tokens fit into what the context of its
  headings leaves (`HasRoom`), and that is the budget the split gives it
  (`RoomIsBudget`). `Section.tokens` is the sum over its blocks (`Adds`), sums of
  a beginning are no larger (`SumsRise`), hence no block of it can overflow the
  budget and none is too large by itself.

- `TokensAreAsDescribed`: `WordsAreDescribed`. `SplitIsCut` says of every text
  that `Split`, which goes from word to word and cuts what lies between, finds
  the tokens that start at `SplitStarts`, and that nothing is lost. A list of
  pieces is a cut of a part of a text (`IsCut`) when it starts exactly where the
  text says; cuts of adjacent parts are a cut of both (`CutJoin`), and one turn of
  the loop adds one (`WithWordCuts`, `WithRestCuts`). `SplitStarts` is not the
  comment: it leaves a text without a word whole and gives blanks at the end to
  the last word. Where a text has a word and no blank at its end the two agree
  (`SplitIsDescribed`), and every text that is counted ends in no blank, however
  it was joined (`CountedIsFull`).
- `ChunksAreInLimit`: `ChunksFit`. The budget is spent on counts of the parts, the
  limit is about the joined text. With `Split` described, the count of a text is
  its number of token starts (`CountIsStarts`), so a joint costs something only
  where a start is added: before a text that begins with a word the blanks of the
  joint go to the token of that word (`ApartCount`, and by induction over the
  parts `JoinCount`). `FitInv` is inductive: the open group
  weighs `currentTokens`, within its section's budget, and a finished chunk is
  one block or sentence or weighs no more than the budget (`FitStep`); what it
  weighs bounds its content (`ContentFits`). The four exceptions of `ChunksFit`
  are the cases in which the code exceeds the limit.

Only model-checked: the liveness properties, because liveness under fairness is
out of the reach of the prover. What they say beyond the theorems above, that
what is queued or waits is done some day, is left to the runs. Every
invariant, action property and refinement that a run checks and that holds is a
theorem.

## 5. Plan

Done: all modules of section 2, and proofs of every property that is not about
liveness and of the safety that liveness rests on. What is left:

- models: the websocket's messages and ping timers once the endpoint does more
  than echo; the listing pages of files and users (ordered by a date, so that
  deletions move rows between pages).

## 6. Not modelled

- Listings, download URLs and rendering: reads and formatting. Similarity search
  is "some chunks or none" in `Chat`.
- `Encode` and `Decode` of the tokenizer, which nothing but its tests calls, and
  goldmark, the Markdown parser: `Chunker` begins with the nodes of its walk.
- `file.Service.Save`, the upload form's copy on local disk: it has no row, and
  nothing in the service reads it back.
- The websocket's echo, its ping timers and its token messages.
- The HTTP routing, CORS, CSRF and environment configuration, the AI, S3, cookie
  and argon2 clients (pure I/O; their effects on shared state are in the models),
  the roles and permissions tables beyond `GetPermissionsByUser` (no operation of
  the service writes them), the seed and proof-of-concept commands.
