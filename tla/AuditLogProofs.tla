--------------------------- MODULE AuditLogProofs ---------------------------
(***************************************************************************)
(* A client that pages through the audit log misses no row, for any events *)
(* and page sizes and whatever is inserted meanwhile.                      *)
(***************************************************************************)
EXTENDS AuditLog, JobQueueProofs, FiniteSetTheorems

-----------------------------------------------------------------------------
(* Ranks: how many rows are newer *)

DistinctIds(S) ==
  /\ \A r \in S : r.id \in Nat
  /\ \A r, q \in S : r.id = q.id => r = q

Newer(S, r) == {q \in S : q.id > r.id}

Rank(S, r) == Cardinality(Newer(S, r))

Page(S, off, size) == {r \in S : off <= Rank(S, r) /\ Rank(S, r) < off + size}

LEMMA RankType ==
  ASSUME NEW S, IsFiniteSet(S), NEW r
  PROVE  IsFiniteSet(Newer(S, r)) /\ Rank(S, r) \in Nat
<1>1. Newer(S, r) \in SUBSET S
  BY DEF Newer
<1>2. IsFiniteSet(Newer(S, r))
  BY <1>1, FS_Subset
<1>. QED  BY <1>2, FS_CardinalityType DEF Rank

\* Rows that are added move a row on, never back.
LEMMA RankGrows ==
  ASSUME NEW S, NEW T, IsFiniteSet(T), S \subseteq T, NEW r
  PROVE  Rank(S, r) <= Rank(T, r)
<1>1. Newer(S, r) \in SUBSET Newer(T, r)
  BY DEF Newer
<1>. QED  BY <1>1, RankType, FS_Subset DEF Rank

\* An older row has a greater rank.
LEMMA RankOrder ==
  ASSUME NEW S, IsFiniteSet(S), DistinctIds(S), NEW r \in S, NEW q \in S, r.id < q.id
  PROVE  Rank(S, q) + 1 <= Rank(S, r)
<1>0. IsFiniteSet(Newer(S, q)) /\ IsFiniteSet(Newer(S, r)) /\ Rank(S, q) \in Nat
  BY RankType
<1>1. q \notin Newer(S, q)
  BY DEF Newer, DistinctIds
<1>2. Newer(S, q) \cup {q} \in SUBSET Newer(S, r)
  BY DEF Newer, DistinctIds
<1>3. Cardinality(Newer(S, q) \cup {q}) = Rank(S, q) + 1
  BY <1>0, <1>1, FS_AddElement DEF Rank
<1>. QED  BY <1>0, <1>2, <1>3, FS_Subset DEF Rank

\* The ranks of the rows are 0, 1, ..., so that a page below some row is full.
LEMMA PageIsFull ==
  ASSUME NEW S, IsFiniteSet(S), DistinctIds(S), NEW off \in Nat, NEW size \in Nat \ {0},
         NEW last \in S, Rank(S, last) >= off + size
  PROVE  Cardinality(Page(S, off, size)) = size
<1> DEFINE n == Cardinality(S)
           I == 0 .. n - 1
           f == [r \in S |-> Rank(S, r)]
<1>0. n \in Nat /\ \A r \in S : Rank(S, r) \in Nat
  BY FS_CardinalityType, RankType
<1>1. \A r \in S : Rank(S, r) \in I
  <2> SUFFICES ASSUME NEW r \in S  PROVE Rank(S, r) \in I
    OBVIOUS
  <2>1. Newer(S, r) \in SUBSET (S \ {r})
    BY DEF Newer, DistinctIds
  <2>2. IsFiniteSet(S \ {r}) /\ Cardinality(S \ {r}) = n - 1
    BY FS_RemoveElement
  <2>3. Rank(S, r) <= n - 1
    BY <2>1, <2>2, FS_Subset DEF Rank
  <2>. QED  BY <1>0, <2>3
<1>2. \A r, q \in S : Rank(S, r) = Rank(S, q) => r = q
  <2> SUFFICES ASSUME NEW r \in S, NEW q \in S, r # q  PROVE Rank(S, r) # Rank(S, q)
    OBVIOUS
  <2>1. r.id < q.id \/ q.id < r.id
    BY DEF DistinctIds
  <2>. QED  BY <1>0, <2>1, RankOrder
<1>3. f \in Injection(S, I)
  BY <1>1, <1>2 DEF Injection, IsInjective
<1>4. IsFiniteSet(I) /\ Cardinality(I) = n
  <2> HIDE DEF n
  <2>1. 0 \in Int /\ n - 1 \in Int
    BY <1>0
  <2>2. IsFiniteSet(I) /\ Cardinality(I) = IF 0 > n - 1 THEN 0 ELSE n - 1 - 0 + 1
    BY <2>1, FS_Interval
  <2>. QED  BY <1>0, <2>2
<1>5. f \in Surjection(S, I)
  BY <1>3, <1>4, FS_Injection
<1>6. \A m \in I : \E r \in S : Rank(S, r) = m
  BY <1>5 DEF Surjection
<1> DEFINE P == Page(S, off, size)
           J == off .. off + size - 1
           g == [r \in P |-> Rank(S, r)]
<1>7. P \subseteq S /\ \A r \in P : Rank(S, r) \in J
  BY <1>0 DEF Page
<1>8. \A m \in J : \E r \in P : Rank(S, r) = m
  <2> SUFFICES ASSUME NEW m \in J  PROVE \E r \in P : Rank(S, r) = m
    OBVIOUS
  <2>1. m \in I /\ off <= m /\ m < off + size
    BY <1>0, <1>1
  <2>2. PICK r \in S : Rank(S, r) = m
    BY <1>6, <2>1
  <2>. QED  BY <2>1, <2>2 DEF Page
<1> HIDE DEF P, J
<1>9. g \in Injection(P, J) /\ g \in Surjection(P, J)
  BY <1>2, <1>7, <1>8 DEF Injection, IsInjective, Surjection
<1>10. IsFiniteSet(J) /\ Cardinality(J) = size
  BY FS_Interval DEF J
<1>11. Cardinality(P) = Cardinality(J)
  BY <1>9, <1>10, FS_Injection
<1>. QED  BY <1>10, <1>11 DEF P

-----------------------------------------------------------------------------
(* The inductive invariant *)

\* Ids are taken once: no row has the id of another or of an insert to come.
IdsAreTakenOnce ==
  /\ rows \subseteq [id : Nat \ {0}, event : Events] /\ IsFiniteSet(rows)
  /\ nextId \in Nat \ {0} /\ \A r \in rows : r.id < nextId
  /\ \A r, q \in rows : r.id = q.id => r = q
  /\ IsABag(jobs)
  /\ JobSet(jobs) \subseteq [kind : {"Insert-Audit-Log"}, file : Events, ver : {NoVersion}, n : Nat,
                             pc : {"ready", "insert", "done"}, attempt : Nat]
  /\ \A j \in JobSet(jobs) : j.pc = "insert" =>
       /\ j.n \in 1 .. nextId - 1 /\ jobs[j] = 1
       /\ \A r \in rows : r.id # j.n
       /\ \A i \in JobSet(jobs) : i.pc = "insert" /\ i.n = j.n => i = j

ReaderOK ==
  reader = Idle \/ reader \in [pc : {"next", "end"}, filter : Filter, size : Nat \ {0},
                               page : Nat \ {0}, owed : SUBSET Nat, seen : SUBSET Nat]

\* What a client was not sent yet is not behind it.
NothingBehind ==
  reader.pc = "next" =>
    LET M == Matching(reader.filter) IN
    /\ reader.owed \subseteq Ids(M)
    /\ \A r \in M : r.id \in reader.owed \ reader.seen =>
         GetOffset(reader.page, reader.size) <= Rank(M, r)

AuditInv == IdsAreTakenOnce /\ ReaderOK /\ NothingBehind /\ NoRowMissed

LEMMA InvInit == Init => AuditInv
<1> SUFFICES ASSUME Init  PROVE AuditInv
  OBVIOUS
<1>1. IsABag(jobs) /\ JobSet(jobs) = {}
  BY EmptyJobs DEF Init
<1>2. reader.pc = "idle"
  BY DEF Init, Idle
<1>. QED  BY <1>1, <1>2, FS_EmptySet
          DEF Init, AuditInv, IdsAreTakenOnce, ReaderOK, NothingBehind, NoRowMissed

LEMMA RescheduledFields ==
  ASSUME NEW j, j.kind = "Insert-Audit-Log"
  PROVE  Rescheduled(j) = [kind |-> "Insert-Audit-Log", file |-> j.file, ver |-> NoVersion,
                           n |-> 0, pc |-> "ready", attempt |-> j.attempt + 1]
BY DEF Rescheduled, Job

\* A step that adds no row and puts no job into "insert"
LEMMA NoNewInsert ==
  ASSUME IdsAreTakenOnce, UNCHANGED <<rows, nextId>>, IsABag(jobs'),
         NEW k, k \in [kind : {"Insert-Audit-Log"}, file : Events, ver : {NoVersion}, n : Nat,
                       pc : {"ready", "insert", "done"}, attempt : Nat],
         k.pc # "insert", JobSet(jobs') \subseteq JobSet(jobs) \cup {k},
         \A i \in JobSet(jobs) \cap JobSet(jobs') : jobs[i] = 1 /\ i # k => jobs'[i] = 1
  PROVE  IdsAreTakenOnce'
BY DEF IdsAreTakenOnce

LEMMA IdsStep == IdsAreTakenOnce /\ [Next]_vars => IdsAreTakenOnce'
<1> SUFFICES ASSUME IdsAreTakenOnce, [Next]_vars  PROVE IdsAreTakenOnce'
  OBVIOUS
<1> DEFINE AnyJob == [kind : {"Insert-Audit-Log"}, file : Events, ver : {NoVersion}, n : Nat,
                      pc : {"ready", "insert", "done"}, attempt : Nat]
<1>0. /\ rows \subseteq [id : Nat \ {0}, event : Events] /\ IsFiniteSet(rows)
      /\ nextId \in Nat \ {0} /\ \A r \in rows : r.id < nextId
      /\ \A r, q \in rows : r.id = q.id => r = q
      /\ IsABag(jobs) /\ JobSet(jobs) \subseteq AnyJob
      /\ \A j \in JobSet(jobs) : j.pc = "insert" =>
           /\ j.n \in 1 .. nextId - 1 /\ jobs[j] = 1
           /\ \A r \in rows : r.id # j.n
           /\ \A i \in JobSet(jobs) : i.pc = "insert" /\ i.n = j.n => i = j
  BY DEF IdsAreTakenOnce
<1>u. ASSUME UNCHANGED <<rows, nextId, jobs>>  PROVE IdsAreTakenOnce'
  BY <1>u DEF IdsAreTakenOnce
<1>1. CASE UNCHANGED vars
  BY <1>1, <1>u DEF vars
<1>2. ASSUME NEW e \in Events, EnqueueAuditLog(e)  PROVE IdsAreTakenOnce'
  <2> DEFINE k == Job("Insert-Audit-Log", e, NoVersion, 0)
  <2>1. k \in AnyJob /\ k.pc # "insert"
    BY DEF Job
  <2> HIDE DEF k
  <2>2. UNCHANGED <<rows, nextId>>
    BY <1>2 DEF EnqueueAuditLog
  <2>3. CASE jobs' = Insert(jobs, k)
    <3>1. /\ IsABag(jobs') /\ JobSet(jobs') = JobSet(jobs) \cup {k}
          /\ \A i \in JobSet(jobs) \ {k} : jobs'[i] = jobs[i]
      BY <1>0, <2>3, InsertJobs, InsertCopies
    <3>. QED  BY <2>1, <2>2, <3>1, NoNewInsert
  <2>4. CASE jobs' = jobs
    BY <1>u, <2>2, <2>4
  <2>. QED  BY <1>2, <2>3, <2>4 DEF EnqueueAuditLog, k
<1>3. ASSUME NEW j \in JobSet(jobs), WorkStep(j) \/ JobFails(j)  PROVE IdsAreTakenOnce'
  <2>0. j \in AnyJob
    BY <1>0
  <2>a. ASSUME NEW k \in AnyJob, k.pc # "insert", jobs' = Advance(jobs, j, k), UNCHANGED <<rows, nextId>>
        PROVE  IdsAreTakenOnce'
    <3>1. /\ IsABag(jobs') /\ JobSet(jobs') \subseteq JobSet(jobs) \cup {k}
          /\ \A i \in JobSet(jobs) \ {j, k} : jobs'[i] = jobs[i]
          /\ jobs[j] = 1 => JobSet(jobs') = (JobSet(jobs) \ {j}) \cup {k}
      BY <1>0, <2>a, AdvanceJobs, AdvanceCopies
    <3>. QED  BY <2>a, <3>1, NoNewInsert
  <2>d. ASSUME jobs' = Remove(jobs, j), UNCHANGED <<rows, nextId>>  PROVE IdsAreTakenOnce'
    <3>1. /\ IsABag(jobs') /\ JobSet(jobs') \subseteq JobSet(jobs)
          /\ \A i \in JobSet(jobs) \ {j} : jobs'[i] = jobs[i]
          /\ jobs[j] = 1 => JobSet(jobs') = JobSet(jobs) \ {j}
      BY <1>0, <2>d, RemoveJobs, RemoveCopies
    <3>. QED  BY <1>0, <2>d, <3>1 DEF IdsAreTakenOnce
  <2>f. Finished(j) \in AnyJob /\ Finished(j).pc = "done"
    BY <2>0 DEF Finished
  <2>1. CASE InsertBegins(j)
    <3> DEFINE k == [j EXCEPT !.pc = "insert", !.n = nextId]
    <3>1. k \in AnyJob /\ k.pc = "insert" /\ k.n = nextId
      BY <1>0, <2>0
    <3>2. j.pc # "insert" /\ jobs' = Advance(jobs, j, k) /\ rows' = rows /\ nextId' = nextId + 1
      BY <2>1 DEF InsertBegins
    <3> HIDE DEF k
    <3>3. \A i \in JobSet(jobs) : i.pc = "insert" => i.n # nextId /\ i # j
      BY <1>0, <3>2
    <3>4. k \notin JobSet(jobs)
      BY <3>1, <3>3
    <3>5. /\ IsABag(jobs') /\ JobSet(jobs') \subseteq JobSet(jobs) \cup {k}
          /\ \A i \in JobSet(jobs) \ {j, k} : jobs'[i] = jobs[i]
          /\ jobs'[k] = 1
      <4>1. jobs'[k] = 1
        <5>1. IsABag(Remove(jobs, j)) /\ k \notin JobSet(Remove(jobs, j))
          BY <1>0, <3>4, RemoveJobs
        <5>. QED  BY <3>2, <5>1, InsertCopies DEF Advance
      <4>. QED  BY <1>0, <3>2, <4>1, AdvanceJobs, AdvanceCopies
    <3>6. \A r \in rows : r.id # nextId
      BY <1>0
    <3>7. /\ nextId' \in Nat \ {0} /\ \A r \in rows' : r.id < nextId'
      BY <1>0, <3>2
    <3>8. \A i \in JobSet(jobs') : i.pc = "insert" =>
             i.n \in 1 .. nextId' - 1 /\ jobs'[i] = 1 /\ \A r \in rows' : r.id # i.n
      BY <1>0, <3>1, <3>2, <3>3, <3>5, <3>6
    <3>9. \A i, l \in JobSet(jobs') : i.pc = "insert" /\ l.pc = "insert" /\ i.n = l.n => i = l
      BY <1>0, <3>1, <3>3, <3>5
    <3>. QED  BY <1>0, <3>1, <3>2, <3>5, <3>7, <3>8, <3>9 DEF IdsAreTakenOnce
  <2>2. CASE InsertCommits(j)
    <3> DEFINE new == [id |-> j.n, event |-> j.file]
               k == Finished(j)
    <3>1. /\ j.pc = "insert" /\ rows' = rows \cup {new} /\ jobs' = Advance(jobs, j, k)
          /\ nextId' = nextId
      BY <2>2 DEF InsertCommits
    <3>2. j.n \in 1 .. nextId - 1 /\ jobs[j] = 1 /\ \A r \in rows : r.id # j.n
      BY <1>0, <3>1
    <3>3. new \in [id : Nat \ {0}, event : Events] /\ new.id = j.n
      BY <1>0, <2>0, <3>2
    <3>4. IsFiniteSet(rows')
      BY <1>0, <3>1, FS_AddElement
    <3> HIDE DEF new, k
    <3>5. /\ IsABag(jobs') /\ JobSet(jobs') = (JobSet(jobs) \ {j}) \cup {k}
          /\ \A i \in JobSet(jobs) \ {j, k} : jobs'[i] = jobs[i]
      BY <1>0, <3>1, <3>2, AdvanceJobs, AdvanceCopies
    <3>6. k \in AnyJob /\ k.pc = "done"
      BY <2>f DEF k
    <3>7. \A i \in JobSet(jobs') : i.pc = "insert" =>
             /\ i \in JobSet(jobs) /\ i # j /\ i # k /\ i.n # j.n
      BY <1>0, <3>1, <3>5, <3>6
    <3>8. \A i \in JobSet(jobs') : i.pc = "insert" =>
             /\ i.n \in 1 .. nextId' - 1 /\ jobs'[i] = 1 /\ \A r \in rows' : r.id # i.n
             /\ \A l \in JobSet(jobs') : l.pc = "insert" /\ l.n = i.n => l = i
      BY <1>0, <3>1, <3>3, <3>5, <3>7
    <3>9. /\ \A r \in rows' : r.id < nextId'
          /\ \A r, q \in rows' : r.id = q.id => r = q
      BY <1>0, <3>1, <3>2, <3>3
    <3>. QED  BY <1>0, <3>1, <3>3, <3>4, <3>5, <3>6, <3>8, <3>9 DEF IdsAreTakenOnce
  <2>3. CASE InsertFails(j)
    BY <2>3, <2>a, <2>f DEF InsertFails
  <2>4. CASE JobCompletes(j)
    BY <2>4, <2>d DEF JobCompletes
  <2>5. CASE JobFails(j)
    <3> DEFINE k == Rescheduled(j)
    <3>1. k \in AnyJob /\ k.pc = "ready"
      BY <2>0, RescheduledFields
    <3> HIDE DEF k
    <3>2. UNCHANGED <<rows, nextId>> /\ (jobs' = Remove(jobs, j) \/ jobs' = Advance(jobs, j, k))
      BY <2>5 DEF JobFails, AttemptFails, AfterFailure, k
    <3>. QED  BY <2>a, <2>d, <3>1, <3>2
  <2>. QED  BY <1>3, <2>1, <2>2, <2>3, <2>4, <2>5 DEF WorkStep
<1>4. ASSUME NEW from, NEW to, NEW size, BeginReading(from, to, size)  PROVE IdsAreTakenOnce'
  BY <1>4, <1>u DEF BeginReading
<1>5. CASE ReadPage \/ EndReading
  BY <1>5, <1>u DEF ReadPage, EndReading
<1>. QED  BY <1>1, <1>2, <1>3, <1>4, <1>5 DEF Next

-----------------------------------------------------------------------------
(* The reader *)

LEMMA MatchingRows ==
  ASSUME IdsAreTakenOnce, NEW f
  PROVE  IsFiniteSet(Matching(f)) /\ DistinctIds(Matching(f))
<1>1. Matching(f) \in SUBSET rows
  BY DEF Matching
<1>2. IsFiniteSet(Matching(f))
  BY <1>1, FS_Subset DEF IdsAreTakenOnce
<1>. QED  BY <1>1, <1>2 DEF IdsAreTakenOnce, DistinctIds

LEMMA FindAllIsPage ==
  ASSUME NEW f, NEW page, NEW size
  PROVE  FindAll(f, page, size) = Page(Matching(f), GetOffset(page, size), size)
BY DEF FindAll, Page, Rank, Newer

\* The page behind a full one begins where that one ended.
LEMMA NextOffset ==
  ASSUME NEW page \in Nat \ {0}, NEW size \in Nat \ {0}
  PROVE  /\ GetOffset(page, size) \in Nat
         /\ GetOffset(page + 1, size) = GetOffset(page, size) + size
<1>1. page - 1 \in Nat /\ (page - 1) * size \in Nat
  OBVIOUS
<1>2. (page + 1) - 1 = (page - 1) + 1
  OBVIOUS
<1>3. ((page - 1) + 1) * size = (page - 1) * size + size
  BY <1>1
<1>. QED  BY <1>1, <1>2, <1>3 DEF GetOffset

\* What others do to the rows while a client reads: nothing comes behind it.
LEMMA RowsGrow ==
  ASSUME IdsAreTakenOnce, IdsAreTakenOnce', ReaderOK, NothingBehind, rows \subseteq rows',
         reader' = reader
  PROVE  NothingBehind'
<1> SUFFICES ASSUME reader.pc = "next"  PROVE NothingBehind'
  BY DEF NothingBehind
<1> DEFINE M == Matching(reader.filter)
           N == M'
<1>1. M \subseteq N
  BY DEF Matching
<1>2. IsFiniteSet(N) /\ IsFiniteSet(M)
  <2>1. IsFiniteSet(rows') /\ N \in SUBSET rows'
    BY DEF IdsAreTakenOnce, Matching
  <2>2. IsFiniteSet(N)
    BY <2>1, FS_Subset
  <2>. QED  BY <1>1, <2>2, FS_Subset
<1>3. /\ reader.owed \subseteq Ids(M)
      /\ \A r \in M : r.id \in reader.owed \ reader.seen =>
           GetOffset(reader.page, reader.size) <= Rank(M, r)
  BY DEF NothingBehind
<1>4. \A r \in N : r.id \in reader.owed => r \in M
  <2> SUFFICES ASSUME NEW r \in N, r.id \in reader.owed  PROVE r \in M
    OBVIOUS
  <2>1. PICK q \in M : q.id = r.id
    BY <1>3 DEF Ids
  <2>2. r \in rows' /\ q \in rows'
    BY <1>1 DEF Matching
  <2>3. q = r
    BY <2>1, <2>2 DEF IdsAreTakenOnce
  <2>. QED  BY <2>3
<1>5. reader.page \in Nat \ {0} /\ reader.size \in Nat \ {0}
  BY DEF ReaderOK, Idle
<1> DEFINE off == GetOffset(reader.page, reader.size)
<1>6. off \in Nat
  BY <1>5, NextOffset
<1> HIDE DEF M, N, off
<1>7. \A r \in N : r.id \in reader.owed \ reader.seen => off <= Rank(N, r)
  <2> SUFFICES ASSUME NEW r \in N, r.id \in reader.owed \ reader.seen  PROVE off <= Rank(N, r)
    OBVIOUS
  <2>1. off <= Rank(M, r)
    BY <1>3, <1>4 DEF off
  <2>2. Rank(M, r) <= Rank(N, r) /\ Rank(M, r) \in Nat /\ Rank(N, r) \in Nat
    BY <1>1, <1>2, RankGrows, RankType
  <2>. QED  BY <1>6, <2>1, <2>2
<1>8. reader.owed \subseteq Ids(N)
  BY <1>1, <1>3 DEF Ids
<1>. QED  BY <1>7, <1>8 DEF NothingBehind, N, M, off, GetOffset, Rank, Newer

LEMMA ReaderStep ==
  ASSUME AuditInv, IdsAreTakenOnce', [Next]_vars
  PROVE  ReaderOK' /\ NothingBehind' /\ NoRowMissed'
<1>0. IdsAreTakenOnce /\ ReaderOK /\ NothingBehind /\ NoRowMissed
  BY DEF AuditInv
<1>g. ASSUME rows \subseteq rows', reader' = reader  PROVE ReaderOK' /\ NothingBehind' /\ NoRowMissed'
  <2>1. NothingBehind'
    BY <1>0, <1>g, RowsGrow
  <2>. QED  BY <1>0, <1>g, <2>1 DEF ReaderOK, NoRowMissed, Idle
<1>1. CASE UNCHANGED vars
  BY <1>1, <1>g DEF vars
<1>2. ASSUME NEW e \in Events, EnqueueAuditLog(e)
      PROVE  ReaderOK' /\ NothingBehind' /\ NoRowMissed'
  BY <1>2, <1>g DEF EnqueueAuditLog
<1>3. ASSUME NEW j \in JobSet(jobs), WorkStep(j) \/ JobFails(j)
      PROVE  ReaderOK' /\ NothingBehind' /\ NoRowMissed'
  BY <1>3, <1>g DEF WorkStep, InsertBegins, InsertCommits, InsertFails, JobCompletes, JobFails
<1>4. ASSUME NEW from \in Times \cup {Absent, Unreadable}, NEW to \in Times \cup {Absent, Unreadable},
             NEW size \in Sizes, BeginReading(from, to, size)
      PROVE  ReaderOK' /\ NothingBehind' /\ NoRowMissed'
  <2> DEFINE f == [from |-> ParseDate(from), to |-> ParseDate(to)]
             s == Normalize(ParsePagination(size))
             M == Matching(f)
  <2>1. f \in Filter
    BY DEF Filter, ParseDate
  <2>2. s \in Nat \ {0}
    BY AuditLogAssumption DEF Normalize
  <2>3. Ids(M) \subseteq Nat
    BY <1>0 DEF Ids, Matching, IdsAreTakenOnce
  <2>4. /\ reader' = [pc |-> "next", filter |-> f, size |-> s, page |-> 1,
                      owed |-> Ids(M), seen |-> {}]
        /\ rows' = rows
    BY <1>4 DEF BeginReading
  <2>5. M' = M
    BY <2>4 DEF Matching
  <2>6. GetOffset(1, s) = 0
    BY <2>2 DEF GetOffset
  <2>7. \A r : Rank(M, r) \in Nat
    BY <1>0, MatchingRows, RankType
  <2>9. Matching(reader.filter)' = M
    BY <2>4 DEF Matching
  <2> HIDE DEF f, s, M
  <2>8. /\ reader'.pc = "next" /\ reader'.page = 1 /\ reader'.size = s
        /\ reader'.owed = Ids(M) /\ reader'.seen = {}
    BY <2>4
  <2>10. ReaderOK'
    BY <2>1, <2>2, <2>3, <2>4 DEF ReaderOK
  <2>11. NoRowMissed'
    BY <2>8 DEF NoRowMissed
  <2>12. NothingBehind'
    <3>1. GetOffset(reader.page, reader.size)' = 0
      BY <2>6, <2>8 DEF GetOffset
    <3>2. \A r \in M : 0 <= Rank(M, r)
      BY <2>7
    <3>3. \A r : Rank(Matching(reader.filter), r)' = Rank(M, r)
      BY <2>9 DEF Rank, Newer
    <3>. QED  BY <2>8, <2>9, <3>1, <3>2, <3>3 DEF NothingBehind, Ids
  <2>. QED  BY <2>10, <2>11, <2>12
<1>5. CASE ReadPage
  <2> DEFINE M == Matching(reader.filter)
             off == GetOffset(reader.page, reader.size)
             page == FindAll(reader.filter, reader.page, reader.size)
             full == Cardinality(page) = reader.size
  <2>1. reader.pc = "next" /\ rows' = rows
    BY <1>5 DEF ReadPage
  <2>2. reader \in [pc : {"next", "end"}, filter : Filter, size : Nat \ {0},
                    page : Nat \ {0}, owed : SUBSET Nat, seen : SUBSET Nat]
    BY <1>0, <2>1 DEF ReaderOK, Idle
  <2>3. IsFiniteSet(M) /\ DistinctIds(M) /\ \A r : Rank(M, r) \in Nat
    BY <1>0, MatchingRows, RankType
  <2>4. page = Page(M, off, reader.size)
    BY FindAllIsPage
  <2>5. off \in Nat /\ GetOffset(reader.page + 1, reader.size) = off + reader.size
    BY <2>2, NextOffset
  <2>6. /\ reader.owed \subseteq Ids(M)
        /\ \A r \in M : r.id \in reader.owed \ reader.seen => off <= Rank(M, r)
    BY <1>0, <2>1 DEF NothingBehind
  <2>7. reader' = [reader EXCEPT !.seen = @ \cup Ids(page),
                                 !.page = IF full THEN @ + 1 ELSE @,
                                 !.pc = IF full THEN "next" ELSE "end"]
    BY <1>5 DEF ReadPage
  <2>8. Ids(page) \subseteq Nat
    BY <2>3, <2>4 DEF Ids, Page, DistinctIds
  <2>m. M' = M
    BY <2>1, <2>2, <2>7 DEF Matching
  <2>n. \A r : Rank(M, r)' = Rank(M, r)
    BY <2>m DEF Rank, Newer
  <2>i. Ids(M)' = Ids(M)
    BY <2>m DEF Ids
  <2> HIDE DEF page
  <2>9. ReaderOK'
    <3> HIDE DEF full
    <3>1. (IF full THEN reader.page + 1 ELSE reader.page) \in Nat \ {0}
      BY <2>2
    <3>2. reader.seen \cup Ids(page) \in SUBSET Nat
      BY <2>2, <2>8
    <3>3. (IF full THEN "next" ELSE "end") \in {"next", "end"}
      OBVIOUS
    <3>. QED  BY <2>2, <2>7, <3>1, <3>2, <3>3 DEF ReaderOK
  <2>10. /\ reader'.owed = reader.owed /\ reader'.seen = reader.seen \cup Ids(page)
         /\ reader'.filter = reader.filter /\ reader'.size = reader.size
         /\ full => reader'.pc = "next" /\ reader'.page = reader.page + 1
         /\ ~full => reader'.pc = "end"
    BY <2>2, <2>7
  <2>11. CASE full
    <3>1. ASSUME NEW r \in M, r.id \in reader.owed \ (reader.seen \cup Ids(page))
          PROVE  off + reader.size <= Rank(M, r)
      <4>1. off <= Rank(M, r) /\ r \notin page
        BY <2>6, <3>1 DEF Ids
      <4>. QED  BY <2>2, <2>3, <2>4, <2>5, <4>1 DEF Page
    <3>2. GetOffset(reader.page, reader.size)' = off + reader.size
      BY <2>5, <2>10, <2>11 DEF GetOffset
    <3>3. NothingBehind'
      BY <2>6, <2>10, <2>11, <2>m, <2>n, <2>i, <3>1, <3>2 DEF NothingBehind
    <3>. QED  BY <2>9, <2>10, <2>11, <3>3 DEF NoRowMissed
  <2>12. CASE ~full
    <3>1. ASSUME NEW id \in reader.owed  PROVE id \in reader.seen \cup Ids(page)
      <4>1. PICK r \in M : r.id = id
        BY <2>6 DEF Ids
      <4>2. CASE id \in reader.seen
        BY <4>2
      <4>3. CASE id \notin reader.seen
        <5>1. off <= Rank(M, r)
          BY <2>6, <3>1, <4>1, <4>3
        <5>2. CASE Rank(M, r) >= off + reader.size
          <6>1. Cardinality(Page(M, off, reader.size)) = reader.size
            BY <2>2, <2>3, <2>5, <5>2, PageIsFull
          <6>. QED  BY <2>4, <2>12, <6>1
        <5>3. CASE ~(Rank(M, r) >= off + reader.size)
          <6>1. r \in page
            BY <2>2, <2>3, <2>4, <2>5, <5>1, <5>3 DEF Page
          <6>. QED  BY <4>1, <6>1 DEF Ids
        <5>. QED  BY <5>2, <5>3
      <4>. QED  BY <4>2, <4>3
    <3>2. NoRowMissed'
      BY <2>10, <3>1 DEF NoRowMissed
    <3>. QED  BY <2>9, <2>10, <2>12, <3>2 DEF NothingBehind
  <2>. QED  BY <2>11, <2>12
<1>6. CASE EndReading
  BY <1>6 DEF EndReading, ReaderOK, NothingBehind, NoRowMissed, Idle
<1>. QED  BY <1>1, <1>2, <1>3, <1>4, <1>5, <1>6 DEF Next

LEMMA InvStep == AuditInv /\ [Next]_vars => AuditInv'
<1>1. AuditInv /\ [Next]_vars => IdsAreTakenOnce'
  BY IdsStep DEF AuditInv
<1>. QED  BY <1>1, ReaderStep DEF AuditInv

\* The inductive invariant: ids are taken once, and a client that reads on has
\* not passed a row it was not sent.
THEOREM Invariant == Spec => []AuditInv
BY InvInit, InvStep, PTL DEF Spec

\* For any number of events, attempts and rows, and any page size: a client that
\* reads until a page is not full has seen every row there was when it began.
THEOREM PagesMissNothing == Spec => []NoRowMissed
<1>1. AuditInv => NoRowMissed
  BY DEF AuditInv
<1>. QED  BY <1>1, InvInit, InvStep, PTL DEF Spec

-----------------------------------------------------------------------------
(* How many ids are taken: one for each attempt that came to its INSERT *)

LogJob ==
  {j \in [kind : {"Insert-Audit-Log"}, file : Events, ver : {NoVersion}, n : Nat,
          pc : {"ready", "insert", "done"}, attempt : 1 .. MaxAttempts] :
    j.pc # "insert" => j.n = 0}

\* A handler enqueues once for an event, and an attempt is scheduled again only
\* when the one before has ended.
OneJobPerEvent ==
  \A j \in JobSet(jobs) :
    /\ j.file \in logged /\ jobs[j] = 1
    /\ \A i \in JobSet(jobs) : i.file = j.file => i = j

\* Job j is not before attempt a, and if it is at that attempt, the INSERT has begun.
IsPast(j, a) == j.attempt > a \/ (j.attempt = a /\ j.pc # "ready")

\* The attempts that can have taken an id.
Spent ==
  {d \in Events \X (1 .. MaxAttempts) :
    d[1] \in logged /\ \A j \in JobSet(jobs) : j.file = d[1] => IsPast(j, d[2])}

IdsAreSpent ==
  /\ logged \subseteq Events /\ IsABag(jobs) /\ JobSet(jobs) \subseteq LogJob
  /\ OneJobPerEvent
  /\ nextId \in Nat \ {0} /\ nextId - 1 <= Cardinality(Spent)

LEMMA SpentIsFinite ==
  /\ MaxId \in Nat
  /\ IsFiniteSet(Spent) /\ Cardinality(Spent) \in Nat /\ Cardinality(Spent) <= MaxId
<1>1. IsFiniteSet(1 .. MaxAttempts) /\ Cardinality(1 .. MaxAttempts) = MaxAttempts
  <2>1. 1 \in Int /\ MaxAttempts \in Int /\ MaxAttempts >= 1
    BY MaxAttemptsAssumption
  <2>. QED  BY <2>1, FS_Interval
<1>2. IsFiniteSet(Events) /\ Cardinality(Events) \in Nat
  BY AuditLogAssumption, FS_CardinalityType
<1>3. IsFiniteSet(Events \X (1 .. MaxAttempts)) /\ Cardinality(Events \X (1 .. MaxAttempts)) = MaxId
  BY <1>1, <1>2, FS_Product DEF MaxId
<1>4. MaxId \in Nat
  BY <1>3, FS_CardinalityType
<1>5. Spent \in SUBSET (Events \X (1 .. MaxAttempts))
  BY DEF Spent
<1>. QED  BY <1>3, <1>4, <1>5, FS_Subset, FS_CardinalityType

\* A step that takes no id.
LEMMA NoneTaken ==
  ASSUME IdsAreSpent, nextId' = nextId, Spent \subseteq Spent', IsFiniteSet(Spent')
  PROVE  nextId' \in Nat \ {0} /\ nextId' - 1 <= Cardinality(Spent')
<1>1. Cardinality(Spent) <= Cardinality(Spent') /\ Cardinality(Spent') \in Nat
  BY FS_Subset, FS_CardinalityType
<1>. QED  BY <1>1, SpentIsFinite DEF IdsAreSpent

\* What a step makes of the job at work: it goes, or goes on to a later point.
LEMMA JobGoesOn ==
  ASSUME IdsAreSpent, NEW j \in JobSet(jobs), WorkStep(j) \/ JobFails(j)
  PROVE  \/ jobs' = Remove(jobs, j)
         \/ \E k \in LogJob :
              /\ jobs' = Advance(jobs, j, k) /\ k.file = j.file
              /\ \A a \in Nat : IsPast(j, a) => IsPast(k, a)
              /\ InsertBegins(j) => IsPast(k, j.attempt)
<1>0. /\ j \in LogJob /\ j.attempt \in 1 .. MaxAttempts /\ j.n \in Nat
      /\ nextId \in Nat \ {0} /\ MaxAttempts \in Nat
  BY MaxAttemptsAssumption DEF IdsAreSpent, LogJob
<1>1. CASE InsertBegins(j)
  <2> DEFINE k == [j EXCEPT !.pc = "insert", !.n = nextId]
  <2>1. /\ k \in LogJob /\ k.file = j.file /\ k.attempt = j.attempt /\ k.pc = "insert"
    BY <1>0 DEF LogJob
  <2>2. jobs' = Advance(jobs, j, k)
    BY <1>1 DEF InsertBegins
  <2> HIDE DEF k
  <2>3. \A a \in Nat : IsPast(j, a) => IsPast(k, a)
    BY <2>1 DEF IsPast
  <2>4. IsPast(k, j.attempt)
    BY <2>1 DEF IsPast
  <2>. QED  BY <2>1, <2>2, <2>3, <2>4
<1>2. CASE InsertCommits(j) \/ InsertFails(j)
  <2>1. /\ Finished(j) \in LogJob /\ Finished(j).file = j.file
        /\ Finished(j).attempt = j.attempt /\ Finished(j).pc = "done"
    BY <1>0 DEF LogJob, Finished
  <2>2. jobs' = Advance(jobs, j, Finished(j)) /\ ~InsertBegins(j)
    BY <1>2 DEF InsertCommits, InsertFails, InsertBegins
  <2>3. \A a \in Nat : IsPast(j, a) => IsPast(Finished(j), a)
    BY <2>1 DEF IsPast
  <2>. QED  BY <2>1, <2>2, <2>3
<1>3. CASE JobCompletes(j)
  BY <1>3 DEF JobCompletes
<1>4. CASE JobFails(j) /\ ~InsertBegins(j)
  <2>1. CASE LastAttempt(j)
    BY <1>4, <2>1 DEF JobFails, AttemptFails, AfterFailure
  <2>2. CASE ~LastAttempt(j)
    <3> DEFINE k == Rescheduled(j)
    <3>1. jobs' = Advance(jobs, j, k)
      BY <1>4, <2>2 DEF JobFails, AttemptFails, AfterFailure
    <3>2. j.kind = "Insert-Audit-Log" /\ j.file \in Events
      BY <1>0 DEF LogJob
    <3>3. k = [kind |-> "Insert-Audit-Log", file |-> j.file, ver |-> NoVersion,
               n |-> 0, pc |-> "ready", attempt |-> j.attempt + 1]
      BY <3>2, RescheduledFields
    <3>4. j.attempt + 1 \in 1 .. MaxAttempts
      BY <1>0, <2>2 DEF LastAttempt
    <3> HIDE DEF k
    <3>5. k \in LogJob /\ k.file = j.file /\ k.attempt = j.attempt + 1
      BY <3>2, <3>3, <3>4 DEF LogJob
    <3>6. \A a \in Nat : IsPast(j, a) => IsPast(k, a)
      BY <1>0, <3>5 DEF IsPast
    <3>. QED  BY <1>4, <3>1, <3>5, <3>6
  <2>. QED  BY <2>1, <2>2
<1>. QED  BY <1>1, <1>2, <1>3, <1>4 DEF WorkStep

LEMMA SpentStep == IdsAreSpent /\ [Next]_vars => IdsAreSpent'
<1> SUFFICES ASSUME IdsAreSpent, [Next]_vars  PROVE IdsAreSpent'
  OBVIOUS
<1>0. /\ logged \subseteq Events /\ IsABag(jobs) /\ JobSet(jobs) \subseteq LogJob
      /\ nextId \in Nat \ {0} /\ nextId - 1 <= Cardinality(Spent)
      /\ \A j \in JobSet(jobs) : /\ j.file \in logged /\ jobs[j] = 1
                                 /\ \A i \in JobSet(jobs) : i.file = j.file => i = j
  BY DEF IdsAreSpent, OneJobPerEvent
<1>s. IsFiniteSet(Spent) /\ Cardinality(Spent) \in Nat /\ IsFiniteSet(Spent')
  <2>1. Spent' \in SUBSET (Events \X (1 .. MaxAttempts))
    BY DEF Spent
  <2>2. IsFiniteSet(Events \X (1 .. MaxAttempts))
    <3>1. 1 \in Int /\ MaxAttempts \in Int
      BY MaxAttemptsAssumption
    <3>2. IsFiniteSet(1 .. MaxAttempts)
      BY <3>1, FS_Interval
    <3>. QED  BY <3>2, AuditLogAssumption, FS_Product
  <2>. QED  BY <2>1, <2>2, SpentIsFinite, FS_Subset
<1>u. ASSUME UNCHANGED <<jobs, logged, nextId>>  PROVE IdsAreSpent'
  BY <1>u DEF IdsAreSpent, OneJobPerEvent, Spent
<1>1. CASE UNCHANGED vars
  BY <1>1, <1>u DEF vars
<1>2. ASSUME NEW e \in Events, EnqueueAuditLog(e)  PROVE IdsAreSpent'
  <2> DEFINE k == Job("Insert-Audit-Log", e, NoVersion, 0)
  <2>1. k \in LogJob /\ k.file = e
    BY MaxAttemptsAssumption DEF Job, LogJob
  <2> HIDE DEF k
  <2>2. nextId' = nextId /\ logged' = logged \cup {e} /\ e \notin logged
    BY <1>2 DEF EnqueueAuditLog
  <2>3. \A j \in JobSet(jobs) : j.file # e
    BY <1>0, <2>2
  <2>4. IsABag(jobs') /\ JobSet(jobs') \subseteq LogJob /\ OneJobPerEvent'
        /\ \A j \in JobSet(jobs') : j \in JobSet(jobs) \/ j.file = e
    <3>1. CASE jobs' = Insert(jobs, k)
      <4>1. /\ IsABag(jobs') /\ JobSet(jobs') = JobSet(jobs) \cup {k}
            /\ \A i \in JobSet(jobs) \ {k} : jobs'[i] = jobs[i]
            /\ jobs'[k] = 1
        BY <1>0, <2>1, <2>3, <3>1, InsertJobs, InsertCopies
      <4>. QED  BY <1>0, <2>1, <2>2, <2>3, <4>1 DEF OneJobPerEvent
    <3>2. CASE jobs' = jobs
      BY <1>0, <2>2, <3>2 DEF OneJobPerEvent
    <3>. QED  BY <1>2, <3>1, <3>2 DEF EnqueueAuditLog, k
  <2>5. Spent \subseteq Spent'
    <3> SUFFICES ASSUME NEW d \in Spent  PROVE d \in Spent'
      OBVIOUS
    <3>1. d \in Events \X (1 .. MaxAttempts) /\ d[1] \in logged
          /\ \A j \in JobSet(jobs) : j.file = d[1] => IsPast(j, d[2])
      BY DEF Spent
    <3>2. \A j \in JobSet(jobs') : j.file = d[1] => IsPast(j, d[2])
      BY <2>2, <2>4, <3>1
    <3>. QED  BY <2>2, <3>1, <3>2 DEF Spent, IsPast
  <2>6. nextId' \in Nat \ {0} /\ nextId' - 1 <= Cardinality(Spent')
    BY <1>s, <2>2, <2>5, NoneTaken
  <2>. QED  BY <1>0, <2>2, <2>4, <2>6 DEF IdsAreSpent
<1>3. ASSUME NEW j \in JobSet(jobs), WorkStep(j) \/ JobFails(j)  PROVE IdsAreSpent'
  <2>0. j \in LogJob /\ j.file \in logged /\ j.file \in Events /\ j.attempt \in 1 .. MaxAttempts
    BY <1>0 DEF LogJob
  <2>1. logged' = logged /\ nextId' = IF InsertBegins(j) THEN nextId + 1 ELSE nextId
    BY <1>3 DEF WorkStep, InsertBegins, InsertCommits, InsertFails, JobCompletes, JobFails
  <2> DEFINE Replaced ==
        /\ IsABag(jobs') /\ JobSet(jobs') \subseteq LogJob /\ OneJobPerEvent'
        /\ \A i \in JobSet(jobs') :
             \/ i \in JobSet(jobs) \ {j}
             \/ /\ i.file = j.file /\ \A a \in Nat : IsPast(j, a) => IsPast(i, a)
                /\ InsertBegins(j) => IsPast(i, j.attempt)
  <2>2. Replaced
    <3>1. CASE jobs' = Remove(jobs, j)
      <4>1. /\ IsABag(jobs') /\ JobSet(jobs') = JobSet(jobs) \ {j}
            /\ \A i \in JobSet(jobs) \ {j} : jobs'[i] = jobs[i]
        BY <1>0, <3>1, RemoveJobs, RemoveCopies
      <4>. QED  BY <1>0, <2>1, <4>1 DEF OneJobPerEvent
    <3>2. ASSUME NEW k \in LogJob, jobs' = Advance(jobs, j, k), k.file = j.file,
                 \A a \in Nat : IsPast(j, a) => IsPast(k, a), InsertBegins(j) => IsPast(k, j.attempt)
          PROVE  Replaced
      <4>1. k \notin JobSet(jobs) \ {j}
        BY <1>0, <3>2
      <4>2. /\ IsABag(jobs') /\ JobSet(jobs') = (JobSet(jobs) \ {j}) \cup {k}
            /\ \A i \in JobSet(jobs) \ {j, k} : jobs'[i] = jobs[i]
            /\ jobs'[k] = 1
        BY <1>0, <3>2, <4>1, AdvanceJobs, AdvanceCopies
      <4>3. OneJobPerEvent'
        BY <1>0, <2>1, <3>2, <4>2 DEF OneJobPerEvent
      <4>. QED  BY <1>0, <3>2, <4>2, <4>3
    <3>. QED  BY <1>3, <3>1, <3>2, JobGoesOn
  <2>3. Spent \subseteq Spent'
    <3> SUFFICES ASSUME NEW d \in Spent  PROVE d \in Spent'
      OBVIOUS
    <3>1. d \in Events \X (1 .. MaxAttempts) /\ d[1] \in logged /\ d[2] \in Nat
          /\ \A i \in JobSet(jobs) : i.file = d[1] => IsPast(i, d[2])
      BY DEF Spent
    <3>2. \A i \in JobSet(jobs') : i.file = d[1] => IsPast(i, d[2])
      BY <2>2, <3>1
    <3>. QED  BY <2>1, <3>1, <3>2 DEF Spent, IsPast
  <2>4. CASE InsertBegins(j)
    <3> DEFINE d == <<j.file, j.attempt>>
    <3>1. d \in Events \X (1 .. MaxAttempts)
      BY <2>0
    <3>2. d \notin Spent
      <4>1. j.pc = "ready" /\ ~(j.attempt > j.attempt)
        BY <2>0, <2>4 DEF InsertBegins
      <4>. QED  BY <4>1 DEF Spent, IsPast
    <3>3. \A i \in JobSet(jobs') : i.file = j.file => IsPast(i, j.attempt)
      BY <1>0, <2>2, <2>4
    <3>4. d \in Spent'
      BY <2>0, <2>1, <3>1, <3>3 DEF Spent, IsPast
    <3> HIDE DEF d
    <3>5. Spent \cup {d} \in SUBSET Spent'
      BY <2>3, <3>4
    <3>6. Cardinality(Spent \cup {d}) = Cardinality(Spent) + 1
      BY <1>s, <3>2, FS_AddElement
    <3>7. Cardinality(Spent) + 1 <= Cardinality(Spent') /\ Cardinality(Spent') \in Nat
      BY <1>s, <3>5, <3>6, FS_Subset, FS_CardinalityType
    <3>8. nextId' \in Nat \ {0} /\ nextId' - 1 <= Cardinality(Spent')
      BY <1>0, <1>s, <2>1, <2>4, <3>7
    <3>. QED  BY <1>0, <2>1, <2>2, <3>8 DEF IdsAreSpent
  <2>5. CASE ~InsertBegins(j)
    <3>1. nextId' \in Nat \ {0} /\ nextId' - 1 <= Cardinality(Spent')
      BY <1>s, <2>1, <2>3, <2>5, NoneTaken
    <3>. QED  BY <1>0, <2>1, <2>2, <3>1 DEF IdsAreSpent
  <2>. QED  BY <2>4, <2>5
<1>4. ASSUME NEW from, NEW to, NEW size, BeginReading(from, to, size)  PROVE IdsAreSpent'
  BY <1>4, <1>u DEF BeginReading
<1>5. CASE ReadPage \/ EndReading
  BY <1>5, <1>u DEF ReadPage, EndReading
<1>. QED  BY <1>1, <1>2, <1>3, <1>4, <1>5 DEF Next

LEMMA SpentInit == Init => IdsAreSpent
<1> SUFFICES ASSUME Init  PROVE IdsAreSpent
  OBVIOUS
<1>1. IsABag(jobs) /\ JobSet(jobs) = {} /\ nextId = 1 /\ logged = {}
  BY EmptyJobs DEF Init
<1>2. Cardinality(Spent) >= 0
  BY SpentIsFinite
<1>. QED  BY <1>1, <1>2 DEF IdsAreSpent, OneJobPerEvent

\* No id is beyond the last one, so rows and readers stay within it.
LEMMA IdsAreBounded ==
  ASSUME IdsAreTakenOnce, IdsAreSpent
  PROVE  /\ MaxId \in Nat /\ nextId \in 1 .. MaxId + 1
         /\ rows \subseteq AuditRow
         /\ JobSet(jobs) \subseteq AuditJob
<1>1. MaxId \in Nat /\ nextId \in 1 .. MaxId + 1
  BY SpentIsFinite DEF IdsAreSpent
<1>2. ASSUME NEW r \in rows  PROVE r \in AuditRow
  <2>1. r \in [id : Nat \ {0}, event : Events] /\ r.id < nextId
    BY DEF IdsAreTakenOnce
  <2>2. r.id \in 1 .. MaxId
    BY <1>1, <2>1
  <2>. QED  BY <2>1, <2>2 DEF AuditRow
<1>3. ASSUME NEW j \in JobSet(jobs)  PROVE j \in AuditJob
  <2>1. j \in LogJob /\ (j.pc = "insert" => j.n \in 1 .. nextId - 1)
    BY DEF IdsAreSpent, IdsAreTakenOnce
  <2>2. j.n \in 0 .. MaxId
    BY <1>1, <2>1 DEF LogJob
  <2>. QED  BY <2>1, <2>2 DEF LogJob, AuditJob
<1>. QED  BY <1>1, <1>2, <1>3

\* The variables that hold no id of their own.
RestTyped ==
  discarded \subseteq Events /\ unreported \subseteq Events /\ reader \in Reader \cup {Idle}

LEMMA TypeStep ==
  ASSUME IdsAreTakenOnce, IdsAreSpent, RestTyped, [Next]_vars
  PROVE  RestTyped'
<1>0. /\ discarded \subseteq Events /\ unreported \subseteq Events /\ reader \in Reader \cup {Idle}
      /\ MaxId \in Nat /\ \A j \in JobSet(jobs) : j.file \in Events
  BY IdsAreBounded DEF RestTyped, IdsAreSpent, LogJob
<1>r. Reader' = Reader /\ Idle' = Idle
  BY DEF Reader, Filter, MaxId, Idle
<1>i. \A S \in SUBSET rows : Ids(S) \subseteq 1 .. MaxId
  BY IdsAreBounded DEF Ids, AuditRow
<1>1. CASE UNCHANGED vars
  BY <1>0, <1>1, <1>r DEF vars, RestTyped
<1>2. ASSUME NEW e \in Events, EnqueueAuditLog(e)  PROVE RestTyped'
  BY <1>0, <1>2, <1>r DEF EnqueueAuditLog, RestTyped
<1>3. ASSUME NEW j \in JobSet(jobs), WorkStep(j) \/ JobFails(j)  PROVE RestTyped'
  BY <1>0, <1>3, <1>r DEF WorkStep, InsertBegins, InsertCommits, InsertFails, JobCompletes, JobFails,
                          AttemptFails, RestTyped
<1>4. ASSUME NEW from \in Times \cup {Absent, Unreadable}, NEW to \in Times \cup {Absent, Unreadable},
             NEW size \in Sizes, BeginReading(from, to, size)
      PROVE  RestTyped'
  <2> DEFINE f == [from |-> ParseDate(from), to |-> ParseDate(to)]
             s == Normalize(ParsePagination(size))
  <2>1. f \in Filter
    BY DEF Filter, ParseDate
  <2>2. s \in 1 .. MaxSize
    BY AuditLogAssumption DEF Normalize
  <2>3. Ids(Matching(f)) \subseteq 1 .. MaxId
    BY <1>i DEF Matching
  <2>4. /\ reader' = [pc |-> "next", filter |-> f, size |-> s, page |-> 1,
                      owed |-> Ids(Matching(f)), seen |-> {}]
        /\ UNCHANGED <<discarded, unreported>>
    BY <1>4 DEF BeginReading
  <2> HIDE DEF f, s
  <2>5. reader' \in Reader
    BY <2>1, <2>2, <2>3, <2>4 DEF Reader
  <2>. QED  BY <1>0, <1>r, <2>4, <2>5 DEF RestTyped
<1>5. CASE ReadPage
  <2> DEFINE page == FindAll(reader.filter, reader.page, reader.size)
             full == Cardinality(page) = reader.size
  <2>1. reader \in Reader
    BY <1>0, <1>5 DEF ReadPage, Idle
  <2>2. Ids(page) \subseteq 1 .. MaxId
    BY <1>i DEF FindAll, Matching
  <2>3. /\ reader' = [reader EXCEPT !.seen = @ \cup Ids(page),
                                    !.page = IF full THEN @ + 1 ELSE @,
                                    !.pc = IF full THEN "next" ELSE "end"]
        /\ UNCHANGED <<discarded, unreported>>
    BY <1>5 DEF ReadPage
  <2> HIDE DEF page, full
  <2>4. (IF full THEN reader.page + 1 ELSE reader.page) \in Nat
    BY <2>1 DEF Reader
  <2>5. reader.seen \cup Ids(page) \in SUBSET (1 .. MaxId)
    BY <2>1, <2>2 DEF Reader
  <2>6. (IF full THEN "next" ELSE "end") \in {"next", "end"}
    OBVIOUS
  <2>7. reader' \in Reader
    BY <2>1, <2>3, <2>4, <2>5, <2>6 DEF Reader
  <2>. QED  BY <1>0, <1>r, <2>3, <2>7 DEF RestTyped
<1>6. CASE EndReading
  BY <1>0, <1>6, <1>r DEF EndReading, RestTyped
<1>. QED  BY <1>1, <1>2, <1>3, <1>4, <1>5, <1>6 DEF Next

\* Type correctness, whose bound on the ids says that an event takes no more ids
\* than River makes attempts, whatever fails and is run again.
THEOREM TypeCorrect == Spec => []TypeOK
<1> DEFINE Inv == AuditInv /\ IdsAreSpent /\ RestTyped
<1>1. Init => Inv
  BY InvInit, SpentInit DEF Init, RestTyped
<1>2. Inv /\ [Next]_vars => Inv'
  BY InvStep, SpentStep, TypeStep DEF AuditInv
<1>3. Inv => TypeOK
  BY IdsAreBounded DEF AuditInv, IdsAreTakenOnce, IdsAreSpent, RestTyped, TypeOK
<1> HIDE DEF Inv
<1>. QED  BY <1>1, <1>2, <1>3, PTL DEF Spec

-----------------------------------------------------------------------------
(* No event is forgotten: the safety half of EventsAreRecorded *)

Pending(e) == \E j \in JobSet(jobs) : j.file = e

Recorded(e) ==
  \/ \E r \in rows : r.event = e
  \/ e \in discarded \/ e \in unreported

\* A job that is done has left a row, or its insert failed without telling.
DoneIsRecorded ==
  \A j \in JobSet(jobs) :
    j.pc = "done" => (\E r \in rows : r.event = j.file) \/ j.file \in unreported

\* An event that reached the queue has a job until it has a row, or is given up.
NoEventForgotten ==
  [][\A e \in Events : Pending(e) \/ Recorded(e) => (Pending(e) \/ Recorded(e))']_vars

\* What a step on job j leaves of the jobs: all but j, and the next state of j
\* until its event is recorded.
LEMMA JobsLeft ==
  ASSUME IdsAreSpent, DoneIsRecorded, NEW j \in JobSet(jobs), WorkStep(j) \/ JobFails(j)
  PROVE  /\ JobSet(jobs) \ {j} \subseteq JobSet(jobs')
         /\ rows \subseteq rows' /\ discarded \subseteq discarded' /\ unreported \subseteq unreported'
         /\ Recorded(j.file)' \/ Pending(j.file)'
         /\ DoneIsRecorded'
<1>0. j \in LogJob /\ IsABag(jobs)
  BY DEF IdsAreSpent
<1>1. CASE InsertBegins(j)
  <2> DEFINE k == [j EXCEPT !.pc = "insert", !.n = nextId]
  <2>1. k.file = j.file /\ k.pc = "insert"
    BY <1>0 DEF LogJob
  <2>2. jobs' = Advance(jobs, j, k) /\ UNCHANGED <<rows, discarded, unreported>>
    BY <1>1 DEF InsertBegins
  <2> HIDE DEF k
  <2>. QED  BY <1>0, <2>1, <2>2, AdvanceJobs DEF Pending, DoneIsRecorded
<1>2. CASE InsertCommits(j) \/ InsertFails(j)
  <2>1. Finished(j).file = j.file
    BY <1>0 DEF LogJob, Finished
  <2>2. /\ jobs' = Advance(jobs, j, Finished(j)) /\ discarded' = discarded
        /\ rows \subseteq rows' /\ unreported \subseteq unreported'
        /\ (\E r \in rows' : r.event = j.file) \/ j.file \in unreported'
    <3> DEFINE r == [id |-> j.n, event |-> j.file]
    <3>1. CASE InsertCommits(j)
      <4>1. r \in rows' /\ r.event = j.file
        BY <3>1 DEF InsertCommits
      <4>. QED  BY <3>1, <4>1 DEF InsertCommits
    <3>2. CASE InsertFails(j)
      BY <3>2 DEF InsertFails
    <3>. QED  BY <1>2, <3>1, <3>2
  <2>. QED  BY <1>0, <2>1, <2>2, AdvanceJobs DEF Pending, DoneIsRecorded
<1>3. CASE JobCompletes(j)
  <2>1. jobs' = Remove(jobs, j) /\ UNCHANGED <<rows, discarded, unreported>>
    BY <1>3 DEF JobCompletes
  <2>2. Recorded(j.file)
    BY <1>3 DEF JobCompletes, DoneIsRecorded, Recorded
  <2>. QED  BY <1>0, <2>1, <2>2, RemoveJobs DEF Recorded, DoneIsRecorded
<1>4. CASE JobFails(j)
  <2>1. UNCHANGED <<rows, unreported>> /\ discarded \subseteq discarded'
    BY <1>4 DEF JobFails, AttemptFails
  <2>2. CASE LastAttempt(j)
    <3>1. jobs' = Remove(jobs, j) /\ j.file \in discarded'
      BY <1>4, <2>2 DEF JobFails, AttemptFails, AfterFailure
    <3>. QED  BY <1>0, <2>1, <3>1, RemoveJobs DEF Recorded, DoneIsRecorded
  <2>3. CASE ~LastAttempt(j)
    <3> DEFINE k == Rescheduled(j)
    <3>1. jobs' = Advance(jobs, j, k)
      BY <1>4, <2>3 DEF JobFails, AttemptFails, AfterFailure
    <3>2. k.file = j.file /\ k.pc = "ready"
      BY <1>0, RescheduledFields DEF LogJob
    <3> HIDE DEF k
    <3>. QED  BY <1>0, <2>1, <3>1, <3>2, AdvanceJobs DEF Pending, DoneIsRecorded
  <2>. QED  BY <2>2, <2>3
<1>. QED  BY <1>1, <1>2, <1>3, <1>4 DEF WorkStep

LEMMA ForgottenStep ==
  ASSUME IdsAreSpent, DoneIsRecorded, [Next]_vars
  PROVE  /\ DoneIsRecorded'
         /\ \A e \in Events : Pending(e) \/ Recorded(e) => (Pending(e) \/ Recorded(e))'
<1>u. ASSUME UNCHANGED <<jobs, rows, discarded, unreported>>
      PROVE  /\ DoneIsRecorded'
             /\ \A e \in Events : Pending(e) \/ Recorded(e) => (Pending(e) \/ Recorded(e))'
  BY <1>u DEF DoneIsRecorded, Pending, Recorded
<1>1. CASE UNCHANGED vars
  BY <1>1, <1>u DEF vars
<1>2. ASSUME NEW e \in Events, EnqueueAuditLog(e)
      PROVE  /\ DoneIsRecorded'
             /\ \A f \in Events : Pending(f) \/ Recorded(f) => (Pending(f) \/ Recorded(f))'
  <2> DEFINE k == Job("Insert-Audit-Log", e, NoVersion, 0)
  <2>1. k.pc = "ready" /\ IsABag(jobs)
    BY DEF Job, IdsAreSpent
  <2>2. /\ jobs' = Insert(jobs, k) \/ jobs' = jobs
        /\ UNCHANGED <<rows, discarded, unreported>>
    BY <1>2 DEF EnqueueAuditLog
  <2> HIDE DEF k
  <2>3. JobSet(jobs) \subseteq JobSet(jobs') /\ JobSet(jobs') \subseteq JobSet(jobs) \cup {k}
    BY <2>1, <2>2, InsertJobs
  <2>. QED  BY <2>1, <2>2, <2>3 DEF DoneIsRecorded, Pending, Recorded
<1>3. ASSUME NEW j \in JobSet(jobs), WorkStep(j) \/ JobFails(j)
      PROVE  /\ DoneIsRecorded'
             /\ \A e \in Events : Pending(e) \/ Recorded(e) => (Pending(e) \/ Recorded(e))'
  <2>1. /\ JobSet(jobs) \ {j} \subseteq JobSet(jobs')
        /\ rows \subseteq rows' /\ discarded \subseteq discarded' /\ unreported \subseteq unreported'
        /\ Recorded(j.file)' \/ Pending(j.file)'
        /\ DoneIsRecorded'
    BY <1>3, JobsLeft
  <2>. QED  BY <2>1 DEF Pending, Recorded
<1>4. ASSUME NEW from, NEW to, NEW size, BeginReading(from, to, size)
      PROVE  UNCHANGED <<jobs, rows, discarded, unreported>>
  BY <1>4 DEF BeginReading
<1>5. CASE ReadPage \/ EndReading
  BY <1>5, <1>u DEF ReadPage, EndReading
<1>. QED  BY <1>1, <1>2, <1>3, <1>4, <1>5, <1>u DEF Next

\* EventsAreRecorded says that an event in the queue is recorded some day; this
\* is what no schedule, failure or crash can take away meanwhile: it is recorded
\* or given up, or still has a job that will see to it.
THEOREM NoneForgotten == Spec => NoEventForgotten
<1>1. Init => DoneIsRecorded
  BY EmptyJobs DEF Init, DoneIsRecorded
<1>2. IdsAreSpent /\ DoneIsRecorded /\ [Next]_vars =>
        /\ DoneIsRecorded'
        /\ \A e \in Events : Pending(e) \/ Recorded(e) => (Pending(e) \/ Recorded(e))'
  BY ForgottenStep
<1>. QED  BY <1>1, <1>2, SpentInit, SpentStep, PTL DEF Spec, NoEventForgotten
=============================================================================
