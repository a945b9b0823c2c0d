-------------------------------- MODULE Chat ---------------------------------
(***************************************************************************)
(* A chat: chat.Service embeds the prompt, searches the chunks, asks the   *)
(* model, and captures the question as a FAQ when there is no context or   *)
(* the model falls back.  The capture is a transaction of two inserts, the *)
(* second of which waits for any other transaction that has inserted the   *)
(* same question; FaqPipeline has it as the one step RecordUnanswered.     *)
(*                                                                         *)
(* Every chat would use ids of its own for its rows, so a chat also names  *)
(* its faqs row and its files row.                                         *)
(***************************************************************************)
EXTENDS Bags, FiniteSets

CONSTANTS
  Chats,
  Prompts,
  Prompt,   \* what each chat asks
  Lower,    \* lower(question)
  NoAnswer  \* the answer of a FAQ that is not answered

ASSUME ChatAssumption ==
  /\ Prompt \in [Chats -> Prompts]
  /\ Lower \in [Prompts -> Prompts]

VARIABLES
  faq,      \* status of the committed faqs row of a chat
  file,     \* the committed files row that goes with it
  pending,  \* rows inserted by transactions that are still open
  pc, reply,
  failed,   \* chats whose recorder returned an error, which is only logged
  wasOpen   \* history: chats during which their question was open

db == <<faq, file, pending>>
vars == <<faq, file, pending, pc, reply, failed, wasOpen>>

Status == {"unanswered", "answered", "dismissed"}

TypeOK ==
  /\ faq \in [Chats -> Status \cup {"new", "deleted"}]
  /\ file \in [Chats -> {"new", "pending", "deleted"}]
  /\ \A c \in Chats : faq[c] \in Status <=> file[c] = "pending"
  /\ pending \subseteq {"files", "faqs"} \X Chats
  /\ \A c \in Chats : <<"faqs", c>> \in pending => pc[c] = "commit"
  /\ \A c \in Chats : <<"files", c>> \in pending => pc[c] \in {"faqs", "commit"}
  /\ pc \in [Chats -> {"idle", "embed", "search", "ask", "begin", "files", "faqs", "commit", "end"}]
  /\ reply \in [Chats -> {"none", "answer", "no_context", "error"}]
  /\ failed \subseteq Chats /\ wasOpen \subseteq Chats

Init ==
  /\ faq = [c \in Chats |-> "new"]
  /\ file = [c \in Chats |-> "new"]
  /\ pending = {}
  /\ pc = [c \in Chats |-> "idle"]
  /\ reply = [c \in Chats |-> "none"]
  /\ failed = {} /\ wasOpen = {}

-----------------------------------------------------------------------------
(* uq_faqs_unanswered_question: a unique index on lower(question) of the   *)
(* rows that are unanswered.                                               *)

\* Faulty variant: the index is on the question as it was typed.
Same_AsTyped(c, d) == Prompt[c] = Prompt[d]

Same(c, d) == Lower[Prompt[c]] = Lower[Prompt[d]]

Open(c) == \E d \in Chats : Same(c, d) /\ faq[d] = "unanswered"

\* Faulty variant: only committed rows are looked at.
MustWait_Never(c) == FALSE

\* Another transaction has inserted the question and may still roll back.
MustWait(c) == \E d \in Chats \ {c} : Same(c, d) /\ <<"faqs", d>> \in pending

Running(c) == pc[c] \notin {"idle", "end"}

\* The history of the rows as they are after the step.
NoteOpen == wasOpen' = wasOpen \cup {c \in Chats : Running(c) /\ Open(c)'}

-----------------------------------------------------------------------------
(* Service.Chat *)

GoesTo(c, l) == pc' = [pc EXCEPT ![c] = l]

Replies(c, r) ==
  /\ GoesTo(c, "end")
  /\ reply' = [reply EXCEPT ![c] = r]

\* SendMessage: a prompt that is blank is refused before.
SendMessage(c) ==
  /\ pc[c] = "idle"
  /\ GoesTo(c, "embed")
  /\ wasOpen' = IF Open(c) THEN wasOpen \cup {c} ELSE wasOpen
  /\ UNCHANGED <<db, reply, failed>>

Embed(c) ==
  /\ pc[c] = "embed"
  /\ \/ GoesTo(c, "search") /\ UNCHANGED reply
     \/ Replies(c, "error")
  /\ UNCHANGED <<db, failed, wasOpen>>

\* Some chunks within the threshold, or none.
SearchSimilar(c) ==
  /\ pc[c] = "search"
  /\ \/ (\E l \in {"ask", "begin"} : GoesTo(c, l)) /\ UNCHANGED reply
     \/ Replies(c, "error")
  /\ UNCHANGED <<db, failed, wasOpen>>

\* The model answers with the chunks as citations, or with a fallback.
SendContextPrompt(c) ==
  /\ pc[c] = "ask"
  /\ \/ GoesTo(c, "begin") /\ UNCHANGED reply
     \/ \E r \in {"answer", "error"} : Replies(c, r)
  /\ UNCHANGED <<db, failed, wasOpen>>

-----------------------------------------------------------------------------
(* Service.RecordUnanswered, in a unit of work *)

Begin(c) ==
  /\ pc[c] = "begin"
  /\ GoesTo(c, "files")
  /\ UNCHANGED <<db, reply, failed, wasOpen>>

\* Faulty variant: the insert does not run in the transaction of the context.
CreateFile_Outside(c) ==
  /\ pc[c] = "files"
  /\ file' = [file EXCEPT ![c] = "pending"]
  /\ GoesTo(c, "faqs")
  /\ UNCHANGED <<faq, pending, reply, failed, wasOpen>>

CreateFile(c) ==
  /\ pc[c] = "files"
  /\ pending' = pending \cup {<<"files", c>>}
  /\ GoesTo(c, "faqs")
  /\ UNCHANGED <<faq, file, reply, failed, wasOpen>>

\* Faulty variant: the connection goes back to the pool with its transaction.
Rollback_Never(c) == UNCHANGED pending

Rollback(c) == pending' = pending \ ({"files", "faqs"} \X {c})

CreateUnanswered(c) ==
  /\ pc[c] = "faqs"
  /\ ~MustWait(c) /\ ~Open(c)
  /\ pending' = pending \cup {<<"faqs", c>>}
  /\ GoesTo(c, "commit")
  /\ UNCHANGED <<faq, file, reply, failed, wasOpen>>

\* Faulty variant: a duplicate is one before its transaction has committed.
AlreadyCaptured_Early(c) ==
  /\ pc[c] = "faqs"
  /\ MustWait(c) \/ Open(c)
  /\ Rollback(c)
  /\ Replies(c, "no_context")
  /\ UNCHANGED <<faq, file, failed, wasOpen>>

\* ErrAlreadyCaptured: rolled back, and not an error for the chat.
AlreadyCaptured(c) ==
  /\ pc[c] = "faqs"
  /\ ~MustWait(c) /\ Open(c)
  /\ Rollback(c)
  /\ Replies(c, "no_context")
  /\ UNCHANGED <<faq, file, failed, wasOpen>>

Commit(c) ==
  /\ pc[c] = "commit"
  /\ faq' = [faq EXCEPT ![c] = "unanswered"]
  /\ file' = [file EXCEPT ![c] = "pending"]
  /\ Rollback(c) \* of what is committed nothing is pending
  /\ NoteOpen
  /\ Replies(c, "no_context")
  /\ UNCHANGED failed

\* No connection, a failing statement, a client that goes away: the recorder
\* returns the error, the reply is the same.
RecordFails(c) ==
  /\ pc[c] \in {"begin", "files", "faqs", "commit"}
  /\ Rollback(c)
  /\ failed' = failed \cup {c}
  /\ Replies(c, "no_context")
  /\ UNCHANGED <<faq, file, wasOpen>>

ChatStep(c) ==
  \/ Embed(c) \/ SearchSimilar(c) \/ SendContextPrompt(c)
  \/ Begin(c) \/ CreateFile(c) \/ CreateUnanswered(c) \/ AlreadyCaptured(c) \/ Commit(c)

-----------------------------------------------------------------------------
(* The curators, as in FaqPipeline; a row that is reopened waits as well *)

\* Faulty variant: reopening a question past the unique index.
SetStatus_NotUnique(c, s) ==
  /\ faq[c] \in Status
  /\ faq' = [faq EXCEPT ![c] = s]
  /\ NoteOpen
  /\ UNCHANGED <<file, pending, pc, reply, failed>>

SetStatus(c, s) ==
  /\ faq[c] \in Status
  /\ s = "unanswered" => ~MustWait(c) /\ (Open(c) => faq[c] = "unanswered")
  /\ faq' = [faq EXCEPT ![c] = s]
  /\ NoteOpen
  /\ UNCHANGED <<file, pending, pc, reply, failed>>

DeleteRows(c) ==
  /\ faq[c] \in Status
  /\ faq' = [faq EXCEPT ![c] = "deleted"]
  /\ file' = [file EXCEPT ![c] = "deleted"]
  /\ UNCHANGED <<pending, pc, reply, failed, wasOpen>>

Next ==
  \E c \in Chats :
    \/ SendMessage(c) \/ ChatStep(c) \/ RecordFails(c)
    \/ (\E s \in Status : SetStatus(c, s)) \/ DeleteRows(c)

Spec == Init /\ [][Next]_vars

\* Every request has a goroutine of its own, and statements end.
Fairness == \A c \in Chats : WF_vars(ChatStep(c))

FairSpec == Spec /\ Fairness

-----------------------------------------------------------------------------
(* Properties *)

\* What the index is for: whatever captures, answers and reopenings overlap,
\* no question has two open rows, however it is capitalised.
OneOpenPerQuestion ==
  \A c, d \in Chats :
    faq[c] = "unanswered" /\ faq[d] = "unanswered" /\ Lower[Prompt[c]] = Lower[Prompt[d]]
    => c = d

\* "Duplicates are a silent no-op" loses no question: a chat that found no
\* context, and whose recorder reported no error, either captured the question
\* or ran while it was open.
NoContextIsCaptured ==
  \A c \in Chats : reply[c] = "no_context" => c \in failed \/ c \in wasOpen

\* A capture that waits for another one does not wait for ever: every chat
\* gets its reply.
EveryChatEnds == \A c \in Chats : Running(c) ~> reply[c] # "none"

Pipeline == INSTANCE FaqPipeline WITH
  Faqs <- Chats, Questions <- Prompts, Question <- [c \in Chats |-> Lower[Prompt[c]]],
  Answers <- {}, NoVersion <- NoAnswer, ChunkCount <- [a \in {} |-> 0],
  MaxRequests <- 0, MaxAttempts <- 1, Faults <- {},
  faq <- [c \in Chats |-> [status |-> faq[c], answer |-> NoAnswer, indexed |-> NoAnswer]],
  embedding <- file,
  calls <- EmptyBag, object <- [c \in Chats |-> NoAnswer], chunks <- [c \in Chats |-> {}],
  jobs <- EmptyBag, discarded <- {}, requests <- 0

\* The transaction, with its waiting, rollbacks and errors, shows as the one
\* step of FaqPipeline: both rows at once, and only when the question is not
\* open.
CaptureIsOneStep ==
  [][\A c \in Chats :
       faq[c] = "new" /\ <<faq[c], file[c]>>' # <<faq[c], file[c]>>
       => Pipeline!RecordUnanswered(c)]_vars
=============================================================================
