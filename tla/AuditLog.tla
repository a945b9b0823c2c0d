------------------------------ MODULE AuditLog -------------------------------
(***************************************************************************)
(* The audit log: handlers enqueue an event, Insert-Audit-Log inserts a    *)
(* row for it, and GET /auditlogs pages through the rows, newest first.    *)
(*                                                                         *)
(* The insert has no key, so a job that is run again inserts again.  It is *)
(* sent with Query, and the rows are closed without asking for their       *)
(* error: what fails once the statement was prepared is not reported.      *)
(* An id is taken when the INSERT runs and the row is seen when it         *)
(* commits, so rows can appear below rows a reader has already seen.       *)
(***************************************************************************)
EXTENDS JobQueue, FiniteSets

CONSTANTS
  Events,         \* logins and ingestion requests
  CreatedAt,      \* when each was logged
  Times,          \* the dates a reader can ask for
  Absent, Unreadable,   \* a query parameter that is missing, or does not parse
  Sizes,          \* the page sizes a reader can ask for
  DefaultSize, MaxSize  \* 10 and 100 in the code

ASSUME AuditLogAssumption ==
  /\ IsFiniteSet(Events)
  /\ CreatedAt \in [Events -> Times] /\ Times \subseteq Nat
  /\ {Absent, Unreadable} \cap (Times \cup Sizes) = {}
  /\ DefaultSize \in 1 .. MaxSize /\ MaxSize \in Nat

VARIABLES
  rows,       \* audit_logs: committed rows
  nextId,     \* the sequence of audit_logs.id
  jobs, discarded,
  logged,     \* the events whose handler has come to EnqueueAuditLog
  unreported, \* history: events with an insert that failed without an error
  reader      \* a client that reads page after page

vars == <<rows, nextId, jobs, discarded, logged, unreported, reader>>

MaxId == Cardinality(Events) * MaxAttempts

AuditRow == [id : 1 .. MaxId, event : Events]

AuditJob ==
  {j \in [kind : {"Insert-Audit-Log"}, file : Events, ver : {NoVersion}, n : 0 .. MaxId,
          pc : {"ready", "insert", "done"}, attempt : 1 .. MaxAttempts] :
    j.pc # "insert" => j.n = 0}

Filter == [from : Times \cup {Absent}, to : Times \cup {Absent}]

Idle == [pc |-> "idle"]

\* owed: the rows that matched when the client began; seen: those it was sent.
Reader == [pc : {"next", "end"}, filter : Filter, size : 1 .. MaxSize, page : Nat,
           owed : SUBSET (1 .. MaxId), seen : SUBSET (1 .. MaxId)]

TypeOK ==
  /\ rows \subseteq AuditRow
  /\ \A r, q \in rows : r.id = q.id => r = q
  /\ nextId \in 1 .. MaxId + 1 /\ \A r \in rows : r.id < nextId
  /\ IsABag(jobs) /\ JobSet(jobs) \subseteq AuditJob
  /\ discarded \subseteq Events /\ logged \subseteq Events /\ unreported \subseteq Events
  /\ reader \in Reader \cup {Idle}

Init ==
  /\ rows = {} /\ nextId = 1
  /\ jobs = EmptyBag /\ discarded = {}
  /\ logged = {} /\ unreported = {}
  /\ reader = Idle

-----------------------------------------------------------------------------
(* Writing *)

\* At the end of POST /auth/login, and of POST /files/{uuid}/rag.  When the
\* enqueue fails the event is lost but for a log line.
EnqueueAuditLog(e) ==
  /\ e \notin logged
  /\ logged' = logged \cup {e}
  /\ jobs' \in {Insert(jobs, Job("Insert-Audit-Log", e, NoVersion, 0)), jobs}
  /\ UNCHANGED <<rows, nextId, discarded, unreported, reader>>

AttemptFails(j) ==
  /\ jobs' = AfterFailure(jobs, j)
  /\ discarded' = discarded \cup (IF LastAttempt(j) THEN {j.file} ELSE {})

\* Record: the event is valid, the statement is prepared and begins to run.
InsertBegins(j) ==
  /\ j.pc = "ready"
  /\ nextId' = nextId + 1
  /\ jobs' = Advance(jobs, j, [j EXCEPT !.pc = "insert", !.n = nextId])
  /\ UNCHANGED <<rows, discarded, logged, unreported, reader>>

Finished(j) == [j EXCEPT !.pc = "done", !.n = 0]

InsertCommits(j) ==
  /\ j.pc = "insert"
  /\ rows' = rows \cup {[id |-> j.n, event |-> j.file]}
  /\ jobs' = Advance(jobs, j, Finished(j))
  /\ UNCHANGED <<nextId, discarded, logged, unreported, reader>>

\* The statement fails while it runs: rows.Err() is not looked at.
InsertFails(j) ==
  /\ j.pc = "insert"
  /\ unreported' = unreported \cup {j.file}
  /\ jobs' = Advance(jobs, j, Finished(j))
  /\ UNCHANGED <<rows, nextId, discarded, logged, reader>>

JobCompletes(j) ==
  /\ j.pc = "done"
  /\ jobs' = Remove(jobs, j)
  /\ UNCHANGED <<rows, nextId, discarded, logged, unreported, reader>>

\* Faulty variant: the worker does not return the error of Record.
JobFails_Ignored(j) ==
  /\ jobs' = Remove(jobs, j)
  /\ UNCHANGED <<rows, nextId, discarded, logged, unreported, reader>>

\* No connection, or the statement cannot be prepared; or the process crashes,
\* behind the commit too.
JobFails(j) ==
  /\ AttemptFails(j)
  /\ UNCHANGED <<rows, nextId, logged, unreported, reader>>

WorkStep(j) == InsertBegins(j) \/ InsertCommits(j) \/ InsertFails(j) \/ JobCompletes(j)

-----------------------------------------------------------------------------
(* Reading *)

\* parseParam: a date that does not parse is as good as none.
ParseDate(d) == IF d = Unreadable THEN Absent ELSE d

\* Both dates or none, and not the wrong way round.
Validate(f) ==
  /\ (f.from = Absent) = (f.to = Absent)
  /\ f.from # Absent => f.from <= f.to

\* A size that is missing, unreadable or less than 1
ParsePagination(size) == IF size \in Nat \ {0} THEN size ELSE DefaultSize

Normalize(size) == IF size \in 1 .. MaxSize THEN size ELSE DefaultSize

Matching(f) ==
  {r \in rows : f.from # Absent => CreatedAt[r.event] \in f.from .. f.to}

\* Faulty variant: the first page has number 0.
GetOffset_FromZero(page, size) == page * size

GetOffset(page, size) == (page - 1) * size

\* ORDER BY id DESC LIMIT size OFFSET offset
FindAll(f, page, size) ==
  {r \in Matching(f) :
    LET newer == Cardinality({q \in Matching(f) : q.id > r.id})
    IN  GetOffset(page, size) <= newer /\ newer < GetOffset(page, size) + size}

Ids(S) == {r.id : r \in S}

\* A client asks for the first page ...
BeginReading(from, to, size) ==
  /\ reader.pc = "idle"
  /\ LET f == [from |-> ParseDate(from), to |-> ParseDate(to)] IN
     /\ Validate(f)
     /\ reader' = [pc |-> "next", filter |-> f, size |-> Normalize(ParsePagination(size)), page |-> 1,
                   owed |-> Ids(Matching(f)), seen |-> {}]
  /\ UNCHANGED <<rows, nextId, jobs, discarded, logged, unreported>>

\* ... and for the next one, until a page is not full.
ReadPage ==
  /\ reader.pc = "next"
  /\ LET page == FindAll(reader.filter, reader.page, reader.size) IN
     reader' = [reader EXCEPT
       !.seen = @ \cup Ids(page),
       !.page = IF Cardinality(page) = reader.size THEN @ + 1 ELSE @,
       !.pc = IF Cardinality(page) = reader.size THEN "next" ELSE "end"]
  /\ UNCHANGED <<rows, nextId, jobs, discarded, logged, unreported>>

EndReading ==
  /\ reader.pc = "end"
  /\ reader' = Idle
  /\ UNCHANGED <<rows, nextId, jobs, discarded, logged, unreported>>

Next ==
  \/ \E e \in Events : EnqueueAuditLog(e)
  \/ \E j \in JobSet(jobs) : WorkStep(j) \/ JobFails(j)
  \/ \E from, to \in Times \cup {Absent, Unreadable}, size \in Sizes :
       BeginReading(from, to, size)
  \/ ReadPage \/ EndReading

Spec == Init /\ [][Next]_vars

\* Workers run what is available.
Fairness == WF_vars(\E j \in JobSet(jobs) : WorkStep(j))

FairSpec == Spec /\ Fairness

-----------------------------------------------------------------------------
(* Properties *)

\* At least once: an event that reached the queue gets its row, whatever
\* attempts fail, unless River gives the job up or an insert failed without
\* telling.
EventsAreRecorded ==
  \A e \in Events :
    (\E j \in JobSet(jobs) : j.file = e)
    ~> \/ \E r \in rows : r.event = e
       \/ e \in discarded \/ e \in unreported

\* Rows arrive while a client pages, above and below the page it is at, and
\* move rows on to a later page; they never move one back, so a client that
\* reads until a page is not full has seen every row that was there when it
\* began, some perhaps twice.
NoRowMissed == reader.pc = "end" => reader.owed \subseteq reader.seen
=============================================================================
