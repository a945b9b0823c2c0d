------------------------- MODULE IngestionContract --------------------------
(***************************************************************************)
(* What the ingestion pipeline promises to the readers of the files and    *)
(* chunks tables, with no jobs, attempts or requests in sight: chunks of   *)
(* the one uploaded content appear one by one, the flag may go back to     *)
(* processing at any time, and it becomes completed only in a state where  *)
(* every chunk of the content is there.                                    *)
(***************************************************************************)
EXTENDS Naturals

CONSTANTS Files, Versions, NoVersion, ChunkCount

VARIABLES embedding, object, chunks

state == <<embedding, object, chunks>>

Live(f) == embedding[f] \in {"pending", "processing", "completed"}

Wanted(f) == [index : 0 .. ChunkCount[object[f]] - 1, ver : {object[f]}]

Flag(f, s) == embedding' = [embedding EXCEPT ![f] = s]

Init ==
  /\ embedding = [f \in Files |-> "new"]
  /\ object = [f \in Files |-> NoVersion]
  /\ chunks = [f \in Files |-> {}]

Create(f) ==
  /\ embedding[f] = "new"
  /\ Flag(f, "pending")
  /\ UNCHANGED <<object, chunks>>

Upload(f) ==
  /\ embedding[f] # "new" /\ object[f] = NoVersion
  /\ \E v \in Versions : object' = [object EXCEPT ![f] = v]
  /\ UNCHANGED <<embedding, chunks>>

Arm(f) ==
  /\ Live(f)
  /\ Flag(f, "processing")
  /\ UNCHANGED <<object, chunks>>

Store(f) ==
  /\ Live(f) /\ object[f] \in Versions
  /\ \E c \in Wanted(f) \ chunks[f] :
       chunks' = [chunks EXCEPT ![f] = @ \cup {c}]
  /\ UNCHANGED <<embedding, object>>

Finish(f) ==
  /\ Live(f) /\ object[f] \in Versions
  /\ chunks[f] = Wanted(f)
  /\ Flag(f, "completed")
  /\ UNCHANGED <<object, chunks>>

Drop(f) ==
  /\ Live(f)
  /\ Flag(f, "deleted")
  /\ chunks' = [chunks EXCEPT ![f] = {}]
  /\ UNCHANGED object

Forget(f) ==
  /\ embedding[f] = "deleted"
  /\ object' = [object EXCEPT ![f] = NoVersion]
  /\ UNCHANGED <<embedding, chunks>>

Next ==
  \E f \in Files :
    \/ Create(f) \/ Upload(f) \/ Arm(f) \/ Store(f) \/ Finish(f)
    \/ Drop(f) \/ Forget(f)

Spec == Init /\ [][Next]_state
=============================================================================
