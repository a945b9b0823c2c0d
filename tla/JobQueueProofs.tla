--------------------------- MODULE JobQueueProofs ----------------------------
(***************************************************************************)
(* What the operations on the job table do to the jobs in it.              *)
(***************************************************************************)
EXTENDS JobQueue, TLAPS

\* The table begins without jobs.
LEMMA EmptyJobs == IsABag(EmptyBag) /\ JobSet(EmptyBag) = {}
BY DEF EmptyBag, SetToBag, IsABag, JobSet, BagToSet

\* Inserting a job adds it to the jobs of the table and keeps the others.
LEMMA InsertJobs ==
  ASSUME NEW B, NEW j, IsABag(B)
  PROVE  /\ IsABag(Insert(B, j))
         /\ JobSet(Insert(B, j)) = JobSet(B) \cup {j}
BY DEF Insert, IsABag, JobSet, BagToSet, SetToBag, (+)

\* Removing a copy of a job invents no job and loses no other one.
LEMMA RemoveJobs ==
  ASSUME NEW B, NEW j, IsABag(B)
  PROVE  /\ IsABag(Remove(B, j))
         /\ JobSet(Remove(B, j)) \subseteq JobSet(B)
         /\ JobSet(B) \ {j} \subseteq JobSet(Remove(B, j))
BY DEF Remove, IsABag, JobSet, BagToSet, SetToBag, (-)

\* A job that takes a step is replaced by its next state.
LEMMA AdvanceJobs ==
  ASSUME NEW B, NEW j, NEW k, IsABag(B)
  PROVE  /\ IsABag(Advance(B, j, k))
         /\ k \in JobSet(Advance(B, j, k))
         /\ JobSet(Advance(B, j, k)) \subseteq JobSet(B) \cup {k}
         /\ JobSet(B) \ {j} \subseteq JobSet(Advance(B, j, k))
BY InsertJobs, RemoveJobs DEF Advance

\* A failed attempt leaves the other jobs alone, and its job is scheduled again
\* or gone for good.
LEMMA FailureJobs ==
  ASSUME NEW B, NEW j, IsABag(B)
  PROVE  /\ IsABag(AfterFailure(B, j))
         /\ JobSet(B) \ {j} \subseteq JobSet(AfterFailure(B, j))
         /\ LastAttempt(j) => JobSet(AfterFailure(B, j)) \subseteq JobSet(B)
         /\ ~LastAttempt(j) =>
              /\ Rescheduled(j) \in JobSet(AfterFailure(B, j))
              /\ JobSet(AfterFailure(B, j)) \subseteq JobSet(B) \cup {Rescheduled(j)}
BY RemoveJobs, AdvanceJobs DEF AfterFailure

\* Copies: inserting, removing and advancing change those of the jobs they name
\* and of no other.
LEMMA InsertCopies ==
  ASSUME NEW B, NEW j, IsABag(B)
  PROVE  /\ \A i \in JobSet(B) \ {j} : Insert(B, j)[i] = B[i]
         /\ j \notin JobSet(B) => Insert(B, j)[j] = 1
BY DEF Insert, IsABag, JobSet, BagToSet, SetToBag, (+)

LEMMA RemoveCopies ==
  ASSUME NEW B, NEW j \in JobSet(B), IsABag(B)
  PROVE  /\ \A i \in JobSet(B) \ {j} : i \in JobSet(Remove(B, j)) /\ Remove(B, j)[i] = B[i]
         /\ B[j] = 1 => JobSet(Remove(B, j)) = JobSet(B) \ {j}
BY DEF Remove, IsABag, JobSet, BagToSet, SetToBag, (-)

LEMMA AdvanceCopies ==
  ASSUME NEW B, NEW j \in JobSet(B), NEW k, IsABag(B)
  PROVE  /\ \A i \in JobSet(B) \ {j, k} : Advance(B, j, k)[i] = B[i]
         /\ B[j] = 1 => JobSet(Advance(B, j, k)) = (JobSet(B) \ {j}) \cup {k}
         /\ B[j] = 1 /\ k \notin JobSet(B) \ {j} => Advance(B, j, k)[k] = 1
<1>1. IsABag(Remove(B, j))
  BY RemoveJobs
<1>2. /\ \A i \in JobSet(B) \ {j} : i \in JobSet(Remove(B, j)) /\ Remove(B, j)[i] = B[i]
      /\ B[j] = 1 => JobSet(Remove(B, j)) = JobSet(B) \ {j}
  BY RemoveCopies
<1>. QED  BY <1>1, <1>2, InsertJobs, InsertCopies DEF Advance
=============================================================================
