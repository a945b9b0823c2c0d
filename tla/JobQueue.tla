------------------------------ MODULE JobQueue ------------------------------
(***************************************************************************)
(* The River job table as infra/queue/river.go and the workers use it.     *)
(*                                                                         *)
(* The table is a bag of job records: two calls of an Enqueue method with  *)
(* the same arguments insert two jobs, and River promises no order between *)
(* jobs.  Finished jobs leave the bag.  A job that is picked up counts an  *)
(* attempt; when the attempt does not finish (Work returned an error, the  *)
(* process crashed, the job was rescued) it is scheduled again from its    *)
(* beginning, until MaxAttempts attempts are spent and River discards it.  *)
(*                                                                         *)
(* Every job record has the same fields:                                   *)
(*   kind     the River kind                                               *)
(*   file     the files row (and object key) the arguments name            *)
(*   ver      the content the job carries or has read, or NoVersion        *)
(*   n        a number whose meaning depends on the kind                   *)
(*   pc       the next step of Work; "ready" before the first one          *)
(*   attempt  River's attempt number                                       *)
(***************************************************************************)
EXTENDS Naturals, Bags

CONSTANTS
  NoVersion,    \* no content: nothing read yet, or no object
  MaxAttempts   \* River's MaxAttempts, 25 by default

ASSUME MaxAttemptsAssumption == MaxAttempts \in Nat \ {0}

JobSet(B) == BagToSet(B)

\* The bag with one more copy of job j: client.Insert with no UniqueOpts.
Insert(B, j) == B (+) SetToBag({j})

\* The bag with one copy of job j less.
Remove(B, j) == B (-) SetToBag({j})

\* A running job that has taken a step of its Work method.
Advance(B, j, k) == Insert(Remove(B, j), k)

Job(kind, f, v, n) ==
  [kind |-> kind, file |-> f, ver |-> v, n |-> n, pc |-> "ready", attempt |-> 1]

\* Kinds that find out what they work on carry none of it when they are
\* scheduled again; the content of the other kinds is in their arguments.
Rescheduled(j) ==
  LET args == IF j.kind \in {"Process-RAG-File", "Index-FAQ", "Generate-Thumbnail",
                             "Insert-Audit-Log"}
              THEN Job(j.kind, j.file, NoVersion, 0)
              ELSE Job(j.kind, j.file, j.ver, j.n)
  IN  [args EXCEPT !.attempt = j.attempt + 1]

\* Faulty variant: one attempt too many.
LastAttempt_OffByOne(j) == j.attempt > MaxAttempts

LastAttempt(j) == j.attempt = MaxAttempts

\* The bag after an attempt at job j that did not finish.
AfterFailure(B, j) ==
  IF LastAttempt(j) THEN Remove(B, j) ELSE Advance(B, j, Rescheduled(j))
=============================================================================
