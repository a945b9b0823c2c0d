---------------------------- MODULE ServerProofs -----------------------------
(***************************************************************************)
(* The two concurrent parts of the server process that are neither jobs    *)
(* nor transactions of the user table:                                     *)
(*                                                                         *)
(* Captures of questions, for any number of chats: the waiting on the      *)
(* unique index keeps a question from being open twice, loses no question, *)
(* makes the transaction one step of FaqPipeline, and holds no chat up     *)
(* behind another that waits.                                              *)
(*                                                                         *)
(* The order of the shutdown, for any number of connections, workers and   *)
(* handlers, and that nothing takes it back or traps it.                   *)
(***************************************************************************)
EXTENDS Chat, Shutdown, TLAPS

-----------------------------------------------------------------------------
(* The captures of Chat *)


Inserted(c) == <<"faqs", c>> \in pending

\* The index: an inserted row is alone with its question, and it is the row of
\* a transaction that waits for nothing but its commit.
IndexInv ==
  /\ \A c \in Chats : pc[c] = "commit" <=> Inserted(c)
  /\ \A c \in Chats : pc[c] # "end" => faq[c] = "new"
  /\ \A c \in Chats : Inserted(c) => ~Open(c)
  /\ \A c, d \in Chats : Inserted(c) /\ Inserted(d) /\ Same(c, d) => c = d

\* The history has every chat whose question is open.
HistoryInv == \A c \in Chats : Running(c) /\ Open(c) => c \in wasOpen

ChatInv ==
  /\ TypeOK /\ IndexInv /\ OneOpenPerQuestion
  /\ HistoryInv /\ NoContextIsCaptured

\* Questions agree on a key of the index.
LEMMA SameIsEquivalence ==
  \A c, d, e \in Chats : Same(c, c) /\ (Same(c, d) => Same(d, c))
                         /\ (Same(c, d) /\ Same(d, e) => Same(c, e))
BY DEF Same

\* In the beginning no row is inserted or open.
LEMMA InvInit == Init => ChatInv
BY DEF Init, ChatInv, TypeOK, Status, IndexInv, Inserted, OneOpenPerQuestion,
       HistoryInv, Running, NoContextIsCaptured

\* Types.
LEMMA TypeStep == ChatInv /\ [Next]_vars => TypeOK'
<1> SUFFICES ASSUME ChatInv, [Next]_vars PROVE TypeOK'
  OBVIOUS
<1>. USE DEF ChatInv, TypeOK, Status, db
<1>1. ASSUME NEW c \in Chats, SendMessage(c) PROVE TypeOK'
  BY <1>1 DEF SendMessage, GoesTo
<1>2. ASSUME NEW c \in Chats, Embed(c) \/ SearchSimilar(c) \/ SendContextPrompt(c)
      PROVE  TypeOK'
  <2>1. ASSUME NEW l \in {"search", "ask", "begin", "end"},
               NEW r \in {"none", "answer", "no_context", "error"},
               pc' = [pc EXCEPT ![c] = l], pc[c] \in {"embed", "search", "ask"},
               reply' = reply \/ reply' = [reply EXCEPT ![c] = r],
               UNCHANGED <<faq, file, pending, failed, wasOpen>>
        PROVE  TypeOK'
    <3>1. pc' \in [Chats -> {"idle", "embed", "search", "ask", "begin", "files", "faqs", "commit", "end"}]
      BY <2>1
    <3>2. reply' \in [Chats -> {"none", "answer", "no_context", "error"}]
      BY <2>1
    <3>3. \A d \in Chats : <<"faqs", d>> \in pending => pc'[d] = "commit"
      BY <2>1
    <3>4. \A d \in Chats : <<"files", d>> \in pending => pc'[d] \in {"faqs", "commit"}
      BY <2>1
    <3>. QED  BY <2>1, <3>1, <3>2, <3>3, <3>4
  <2>2. CASE Embed(c)
    BY <2>1, <2>2 DEF Embed, GoesTo, Replies
  <2>3. CASE SearchSimilar(c)
    <3>1. ASSUME NEW l \in {"ask", "begin"}, GoesTo(c, l), UNCHANGED reply PROVE TypeOK'
      BY <2>1, <2>3, <3>1 DEF SearchSimilar, GoesTo
    <3>2. CASE Replies(c, "error")
      BY <2>1, <2>3, <3>2 DEF SearchSimilar, GoesTo, Replies
    <3>. QED  BY <2>3, <3>1, <3>2 DEF SearchSimilar
  <2>4. CASE SendContextPrompt(c)
    <3>1. CASE GoesTo(c, "begin") /\ UNCHANGED reply
      BY <2>1, <2>4, <3>1 DEF SendContextPrompt, GoesTo
    <3>2. ASSUME NEW r \in {"answer", "error"}, Replies(c, r) PROVE TypeOK'
      BY <2>1, <2>4, <3>2 DEF SendContextPrompt, GoesTo, Replies
    <3>. QED  BY <2>4, <3>1, <3>2 DEF SendContextPrompt
  <2>. QED  BY <1>2, <2>2, <2>3, <2>4
<1>3. ASSUME NEW c \in Chats, Begin(c) \/ CreateFile(c) \/ CreateUnanswered(c)
      PROVE  TypeOK'
  <2>1. CASE Begin(c)
    BY <2>1 DEF Begin, GoesTo
  <2>2. CASE CreateFile(c)
    <3>1. /\ pending' = pending \cup {<<"files", c>>} /\ pc' = [pc EXCEPT ![c] = "faqs"]
          /\ pc[c] = "files"
      BY <2>2 DEF CreateFile, GoesTo
    <3>2. pending' \subseteq {"files", "faqs"} \X Chats
      <4>1. <<"files", c>> \in {"files", "faqs"} \X Chats
        OBVIOUS
      <4>. QED  BY <3>1, <4>1
    <3>3. \A d \in Chats : <<"faqs", d>> \in pending' => pc'[d] = "commit"
      BY <3>1
    <3>4. \A d \in Chats : <<"files", d>> \in pending' => pc'[d] \in {"faqs", "commit"}
      BY <3>1
    <3>. QED  BY <2>2, <3>1, <3>2, <3>3, <3>4 DEF CreateFile
  <2>3. CASE CreateUnanswered(c)
    <3>1. /\ pending' = pending \cup {<<"faqs", c>>} /\ pc' = [pc EXCEPT ![c] = "commit"]
      BY <2>3 DEF CreateUnanswered, GoesTo
    <3>2. pending' \subseteq {"files", "faqs"} \X Chats
      <4>1. <<"faqs", c>> \in {"files", "faqs"} \X Chats
        OBVIOUS
      <4>. QED  BY <3>1, <4>1
    <3>3. \A d \in Chats : <<"faqs", d>> \in pending' => pc'[d] = "commit"
      BY <3>1
    <3>4. \A d \in Chats : <<"files", d>> \in pending' => pc'[d] \in {"faqs", "commit"}
      BY <3>1
    <3>. QED  BY <2>3, <3>1, <3>2, <3>3, <3>4 DEF CreateUnanswered
  <2>. QED  BY <1>3, <2>1, <2>2, <2>3
<1>4. ASSUME NEW c \in Chats, AlreadyCaptured(c) \/ RecordFails(c)
      PROVE  TypeOK'
  <2>1. /\ pc' = [pc EXCEPT ![c] = "end"] /\ reply' = [reply EXCEPT ![c] = "no_context"]
        /\ pending' = pending \ ({"files", "faqs"} \X {c})
        /\ faq' = faq /\ file' = file /\ wasOpen' = wasOpen
        /\ failed' = failed \/ failed' = failed \cup {c}
    BY <1>4 DEF AlreadyCaptured, RecordFails, Rollback, GoesTo, Replies
  <2>2. \A d \in Chats : <<"faqs", d>> \in pending' => pc'[d] = "commit"
    BY <2>1
  <2>3. \A d \in Chats : <<"files", d>> \in pending' => pc'[d] \in {"faqs", "commit"}
    BY <2>1
  <2>. QED  BY <2>1, <2>2, <2>3
<1>5. ASSUME NEW c \in Chats, Commit(c) PROVE TypeOK'
  BY <1>5 DEF Commit, Rollback, GoesTo, Replies, NoteOpen
<1>6. ASSUME NEW c \in Chats, NEW s \in Status, SetStatus(c, s) PROVE TypeOK'
  BY <1>6 DEF SetStatus, NoteOpen
<1>7. ASSUME NEW c \in Chats, DeleteRows(c) PROVE TypeOK'
  BY <1>7 DEF DeleteRows
<1>8. CASE UNCHANGED vars
  BY <1>8 DEF vars
<1>. QED  BY <1>1, <1>2, <1>3, <1>4, <1>5, <1>6, <1>7, <1>8 DEF Next, ChatStep

\* A step that leaves the committed rows alone opens no question.
LEMMA OpenFrame ==
  ASSUME faq' = faq, NEW c \in Chats
  PROVE  Open(c)' <=> Open(c)
BY DEF Open, Same

\* A chat that moves without touching the rows.
LEMMA ReadingStep ==
  ASSUME ChatInv, NEW c \in Chats,
         SendMessage(c) \/ Embed(c) \/ SearchSimilar(c) \/ SendContextPrompt(c)
           \/ Begin(c) \/ CreateFile(c)
  PROVE  IndexInv' /\ OneOpenPerQuestion' /\ HistoryInv' /\ NoContextIsCaptured'
<1>1. /\ faq' = faq /\ failed' = failed
      /\ pending' = pending \/ pending' = pending \cup {<<"files", c>>}
      /\ \E l \in {"embed", "search", "ask", "begin", "files", "faqs", "end"} :
           pc' = [pc EXCEPT ![c] = l]
      /\ pc[c] \in {"idle", "embed", "search", "ask", "begin", "files"}
      /\ \/ reply' = reply
         \/ \E r \in {"answer", "error"} : reply' = [reply EXCEPT ![c] = r]
  BY DEF SendMessage, Embed, SearchSimilar, SendContextPrompt, Begin, CreateFile,
         GoesTo, Replies, db
<1>2. \A d \in Chats : Inserted(d)' <=> Inserted(d)
  BY <1>1 DEF Inserted
<1>3. \A d \in Chats : Open(d)' <=> Open(d)
  BY <1>1, OpenFrame
<1>4. IndexInv'
  <2>1. \A d \in Chats : pc'[d] = "commit" <=> pc[d] = "commit"
    BY <1>1 DEF ChatInv, TypeOK
  <2>2. \A d \in Chats : pc'[d] # "end" => faq'[d] = "new"
    BY <1>1 DEF ChatInv, IndexInv, TypeOK
  <2>. QED  BY <1>2, <1>3, <2>1, <2>2 DEF ChatInv, IndexInv, Same
<1>5. OneOpenPerQuestion'
  BY <1>1 DEF ChatInv, OneOpenPerQuestion
<1>6. wasOpen' = wasOpen \/ (pc[c] = "idle" /\ wasOpen' = IF Open(c) THEN wasOpen \cup {c} ELSE wasOpen)
  BY DEF SendMessage, Embed, SearchSimilar, SendContextPrompt, Begin, CreateFile
<1>7. HistoryInv'
  <2> SUFFICES ASSUME NEW d \in Chats, Running(d)', Open(d)
               PROVE  d \in wasOpen'
    BY <1>3 DEF HistoryInv
  <2>1. CASE d # c
    BY <1>1, <1>6, <2>1 DEF ChatInv, HistoryInv, Running, TypeOK
  <2>2. CASE d = c /\ pc[c] # "idle"
    BY <1>1, <1>6, <2>2 DEF ChatInv, HistoryInv, Running, TypeOK
  <2>3. CASE d = c /\ pc[c] = "idle"
    <3>1. SendMessage(c)
      BY <2>3 DEF SendMessage, Embed, SearchSimilar, SendContextPrompt, Begin, CreateFile
    <3>. QED  BY <2>3, <3>1 DEF SendMessage
  <2>. QED  BY <2>1, <2>2, <2>3
<1>8. NoContextIsCaptured'
  BY <1>1, <1>6 DEF ChatInv, NoContextIsCaptured, TypeOK
<1>. QED  BY <1>4, <1>5, <1>7, <1>8

\* The insert of the faqs row: alone with its question, after its wait.
LEMMA InsertStep ==
  ASSUME ChatInv, NEW c \in Chats, CreateUnanswered(c)
  PROVE  IndexInv' /\ OneOpenPerQuestion' /\ HistoryInv' /\ NoContextIsCaptured'
<1>1. /\ faq' = faq /\ reply' = reply /\ failed' = failed /\ wasOpen' = wasOpen
      /\ pc' = [pc EXCEPT ![c] = "commit"] /\ pc[c] = "faqs"
      /\ pending' = pending \cup {<<"faqs", c>>}
      /\ ~MustWait(c) /\ ~Open(c)
  BY DEF CreateUnanswered, GoesTo
<1>2. \A d \in Chats : Inserted(d)' <=> d = c \/ Inserted(d)
  BY <1>1 DEF Inserted
<1>3. \A d \in Chats : Open(d)' <=> Open(d)
  BY <1>1, OpenFrame
<1>4. \A d \in Chats \ {c} : Inserted(d) => ~Same(c, d) /\ ~Same(d, c)
  BY <1>1, SameIsEquivalence DEF MustWait, Inserted
<1>5. IndexInv'
  <2>1. \A d \in Chats : pc'[d] = "commit" <=> Inserted(d)'
    BY <1>1, <1>2 DEF ChatInv, IndexInv, TypeOK
  <2>2. \A d \in Chats : pc'[d] # "end" => faq'[d] = "new"
    BY <1>1 DEF ChatInv, IndexInv, TypeOK
  <2>3. \A d \in Chats : Inserted(d)' => ~Open(d)'
    BY <1>1, <1>2, <1>3 DEF ChatInv, IndexInv
  <2>4. \A d, e \in Chats : Inserted(d)' /\ Inserted(e)' /\ Same(d, e) => d = e
    BY <1>2, <1>4 DEF ChatInv, IndexInv
  <2>. QED  BY <2>1, <2>2, <2>3, <2>4 DEF IndexInv, Same
<1>6. HistoryInv'
  BY <1>1, <1>3 DEF ChatInv, HistoryInv, Running, TypeOK
<1>. QED  BY <1>1, <1>5, <1>6 DEF ChatInv, OneOpenPerQuestion, NoContextIsCaptured

\* A transaction that is rolled back: the question was open, or it failed.
LEMMA RollbackStep ==
  ASSUME ChatInv, NEW c \in Chats, AlreadyCaptured(c) \/ RecordFails(c)
  PROVE  IndexInv' /\ OneOpenPerQuestion' /\ HistoryInv' /\ NoContextIsCaptured'
<1>1. /\ faq' = faq /\ wasOpen' = wasOpen /\ failed \subseteq failed'
      /\ pc' = [pc EXCEPT ![c] = "end"] /\ Running(c)
      /\ reply' = [reply EXCEPT ![c] = "no_context"]
      /\ pending' = pending \ ({"files", "faqs"} \X {c})
      /\ c \in failed' \/ Open(c)
  BY DEF AlreadyCaptured, RecordFails, Rollback, GoesTo, Replies, Running
<1>2. \A d \in Chats : Inserted(d)' <=> d # c /\ Inserted(d)
  BY <1>1 DEF Inserted
<1>3. \A d \in Chats : Open(d)' <=> Open(d)
  BY <1>1, OpenFrame
<1>4. IndexInv'
  BY <1>1, <1>2, <1>3 DEF ChatInv, IndexInv, TypeOK, Same, Running
<1>5. HistoryInv'
  BY <1>1, <1>3 DEF ChatInv, HistoryInv, Running, TypeOK
<1>6. NoContextIsCaptured'
  BY <1>1 DEF ChatInv, HistoryInv, NoContextIsCaptured, TypeOK
<1>. QED  BY <1>1, <1>4, <1>5, <1>6 DEF ChatInv, OneOpenPerQuestion

\* The commit opens the question of a row that was alone with it.
LEMMA CommitStep ==
  ASSUME ChatInv, NEW c \in Chats, Commit(c)
  PROVE  IndexInv' /\ OneOpenPerQuestion' /\ HistoryInv' /\ NoContextIsCaptured'
<1>1. /\ faq' = [faq EXCEPT ![c] = "unanswered"] /\ failed' = failed
      /\ pc' = [pc EXCEPT ![c] = "end"] /\ pc[c] = "commit"
      /\ reply' = [reply EXCEPT ![c] = "no_context"]
      /\ pending' = pending \ ({"files", "faqs"} \X {c})
      /\ wasOpen' = wasOpen \cup {d \in Chats : Running(d) /\ Open(d)'}
  BY DEF Commit, Rollback, GoesTo, Replies, NoteOpen
<1>2. Inserted(c) /\ ~Open(c)
  BY <1>1 DEF ChatInv, IndexInv
<1>3. \A d \in Chats : Inserted(d)' <=> d # c /\ Inserted(d)
  BY <1>1 DEF Inserted
<1>4. \A d \in Chats : Open(d)' <=> Open(d) \/ Same(d, c)
  BY <1>1, <1>2 DEF Open, ChatInv, TypeOK, Same
<1>5. \A d \in Chats \ {c} : Inserted(d) => ~Same(d, c)
  BY <1>2 DEF ChatInv, IndexInv
<1>6. IndexInv'
  <2>1. \A d \in Chats : pc'[d] = "commit" <=> Inserted(d)'
    BY <1>1, <1>3 DEF ChatInv, IndexInv, TypeOK
  <2>2. \A d \in Chats : pc'[d] # "end" => faq'[d] = "new"
    BY <1>1 DEF ChatInv, IndexInv, TypeOK
  <2>3. \A d \in Chats : Inserted(d)' => ~Open(d)'
    BY <1>3, <1>4, <1>5 DEF ChatInv, IndexInv
  <2>4. \A d, e \in Chats : Inserted(d)' /\ Inserted(e)' /\ Same(d, e) => d = e
    BY <1>3 DEF ChatInv, IndexInv
  <2>. QED  BY <2>1, <2>2, <2>3, <2>4 DEF IndexInv, Same
<1>7. OneOpenPerQuestion'
  <2>1. \A d \in Chats \ {c} : faq[d] = "unanswered" => ~Same(c, d) /\ ~Same(d, c)
    BY <1>2, SameIsEquivalence DEF Open
  <2>. QED  BY <1>1, <2>1 DEF ChatInv, TypeOK, OneOpenPerQuestion, Same
<1>8. HistoryInv'
  BY <1>1 DEF HistoryInv, Running, ChatInv, TypeOK
<1>9. c \in wasOpen'
  BY <1>1, <1>4, SameIsEquivalence DEF Running
<1>10. NoContextIsCaptured'
  BY <1>1, <1>9 DEF ChatInv, NoContextIsCaptured, TypeOK
<1>. QED  BY <1>6, <1>7, <1>8, <1>10

\* A curator reopens a question only when nobody has it open or inserted.
LEMMA StatusStep ==
  ASSUME ChatInv, NEW c \in Chats, NEW s \in Status, SetStatus(c, s)
  PROVE  IndexInv' /\ OneOpenPerQuestion' /\ HistoryInv' /\ NoContextIsCaptured'
<1>1. /\ faq[c] \in Status /\ faq' = [faq EXCEPT ![c] = s]
      /\ pending' = pending /\ pc' = pc /\ reply' = reply /\ failed' = failed
      /\ wasOpen' = wasOpen \cup {d \in Chats : Running(d) /\ Open(d)'}
      /\ s = "unanswered" => ~MustWait(c) /\ (Open(c) => faq[c] = "unanswered")
  BY DEF SetStatus, NoteOpen
<1>2. \A d \in Chats : Inserted(d)' <=> Inserted(d)
  BY <1>1 DEF Inserted
<1>3. \A d \in Chats : Open(d)' => Open(d) \/ (s = "unanswered" /\ Same(d, c))
  BY <1>1 DEF Open, ChatInv, TypeOK, Same
<1>4. faq[c] # "new" /\ ~Inserted(c)
  BY <1>1 DEF Status, ChatInv, IndexInv
<1>5. s = "unanswered" => \A d \in Chats : Inserted(d) => ~Same(d, c)
  BY <1>1, <1>4, SameIsEquivalence DEF MustWait, Inserted
<1>6. IndexInv'
  <2>1. \A d \in Chats : pc'[d] = "commit" <=> Inserted(d)'
    BY <1>1, <1>2 DEF ChatInv, IndexInv
  <2>2. \A d \in Chats : pc'[d] # "end" => faq'[d] = "new"
    BY <1>1, <1>4 DEF ChatInv, IndexInv, TypeOK
  <2>3. \A d \in Chats : Inserted(d)' => ~Open(d)'
    BY <1>2, <1>3, <1>5 DEF ChatInv, IndexInv
  <2>4. \A d, e \in Chats : Inserted(d)' /\ Inserted(e)' /\ Same(d, e) => d = e
    BY <1>2 DEF ChatInv, IndexInv
  <2>. QED  BY <2>1, <2>2, <2>3, <2>4 DEF IndexInv, Same
<1>7. OneOpenPerQuestion'
  <2>1. CASE s = "unanswered" /\ faq[c] # "unanswered"
    <3>1. \A d \in Chats : faq[d] = "unanswered" => ~Same(c, d) /\ ~Same(d, c)
      BY <1>1, <2>1, SameIsEquivalence DEF Open
    <3>. QED  BY <1>1, <3>1 DEF ChatInv, TypeOK, OneOpenPerQuestion, Same
  <2>2. CASE s # "unanswered" \/ faq[c] = "unanswered"
    <3>1. \A d \in Chats : faq'[d] = "unanswered" => faq[d] = "unanswered"
      BY <1>1, <2>2 DEF ChatInv, TypeOK
    <3>. QED  BY <3>1 DEF ChatInv, OneOpenPerQuestion
  <2>. QED  BY <2>1, <2>2
<1>8. HistoryInv'
  BY <1>1 DEF HistoryInv, Running
<1>9. NoContextIsCaptured'
  BY <1>1 DEF ChatInv, NoContextIsCaptured
<1>. QED  BY <1>6, <1>7, <1>8, <1>9

\* A deletion opens nothing.
LEMMA DeleteStep ==
  ASSUME ChatInv, NEW c \in Chats, DeleteRows(c)
  PROVE  IndexInv' /\ OneOpenPerQuestion' /\ HistoryInv' /\ NoContextIsCaptured'
<1>1. /\ faq[c] \in Status /\ faq' = [faq EXCEPT ![c] = "deleted"]
      /\ pending' = pending /\ pc' = pc /\ reply' = reply /\ failed' = failed
      /\ wasOpen' = wasOpen
  BY DEF DeleteRows
<1>2. \A d \in Chats : (Inserted(d)' <=> Inserted(d)) /\ (Open(d)' => Open(d))
  BY <1>1 DEF Inserted, Open, ChatInv, TypeOK, Same
<1>3. IndexInv'
  <2>1. faq[c] # "new"
    BY <1>1 DEF Status
  <2>2. \A d \in Chats : pc'[d] # "end" => faq'[d] = "new"
    BY <1>1, <2>1 DEF ChatInv, IndexInv, TypeOK
  <2>. QED  BY <1>1, <1>2, <2>2 DEF ChatInv, IndexInv, Same
<1>4. HistoryInv'
  BY <1>1, <1>2 DEF ChatInv, HistoryInv, Running
<1>. QED  BY <1>1, <1>3, <1>4 DEF ChatInv, OneOpenPerQuestion, NoContextIsCaptured, TypeOK

LEMMA InvStep == ChatInv /\ [Next]_vars => ChatInv'
<1> SUFFICES ASSUME ChatInv, [Next]_vars PROVE ChatInv'
  OBVIOUS
<1>1. TypeOK'
  BY TypeStep
<1>2. CASE UNCHANGED vars
  BY <1>1, <1>2 DEF vars, db, ChatInv, IndexInv, OneOpenPerQuestion, HistoryInv,
                    NoContextIsCaptured, Inserted, Open, Same, Running
<1>3. CASE Next
  BY <1>1, <1>3, ReadingStep, InsertStep, RollbackStep, CommitStep, StatusStep, DeleteStep
     DEF Next, ChatStep, ChatInv
<1>. QED  BY <1>2, <1>3

\* The index, the waiting captures and the history agree in every state.
THEOREM Invariant == Spec => []ChatInv
BY InvInit, InvStep, PTL DEF Spec

\* The chats and the rows they insert keep their types.
THEOREM TypeCorrect == Spec => []TypeOK
<1>1. ChatInv => TypeOK
  BY DEF ChatInv
<1>. QED  BY <1>1, Invariant, PTL

\* No question is open twice, for any number of chats and curators.
THEOREM NeverOpenTwice == Spec => []OneOpenPerQuestion
<1>1. ChatInv => OneOpenPerQuestion
  BY DEF ChatInv
<1>. QED  BY <1>1, Invariant, PTL

\* No question without context is lost silently.
THEOREM NothingLostSilently == Spec => []NoContextIsCaptured
<1>1. ChatInv => NoContextIsCaptured
  BY DEF ChatInv
<1>. QED  BY <1>1, Invariant, PTL

\* The only step that shows a new row is the commit, and it is the capture of
\* FaqPipeline.
LEMMA CaptureStep ==
  ASSUME ChatInv, [Next]_vars, NEW c \in Chats,
         faq[c] = "new", <<faq[c], file[c]>>' # <<faq[c], file[c]>>
  PROVE  Pipeline!RecordUnanswered(c)
<1>1. Commit(c)
  <2>1. faq[c] \notin Status
    BY DEF Status
  <2>2. ASSUME NEW d \in Chats, NEW s \in Status, SetStatus(d, s) PROVE FALSE
    BY <2>1, <2>2 DEF SetStatus, ChatInv, TypeOK
  <2>3. ASSUME NEW d \in Chats, DeleteRows(d) PROVE FALSE
    BY <2>1, <2>3 DEF DeleteRows, ChatInv, TypeOK
  <2>4. ASSUME NEW d \in Chats, Commit(d) PROVE d = c
    BY <2>4 DEF Commit, ChatInv, TypeOK
  <2>5. PICK d \in Chats : Commit(d)
    BY <2>2, <2>3 DEF Next, ChatStep, SendMessage, Embed, SearchSimilar, SendContextPrompt,
         Begin, CreateFile, CreateUnanswered, AlreadyCaptured, RecordFails, vars, db
  <2>. QED  BY <2>4, <2>5
<1>2. /\ faq' = [faq EXCEPT ![c] = "unanswered"]
      /\ file' = [file EXCEPT ![c] = "pending"] /\ ~Open(c)
  BY <1>1 DEF Commit, ChatInv, IndexInv
<1>3. ~Pipeline!QuestionTaken(c)
  BY <1>2 DEF Pipeline!QuestionTaken, Open, Same
<1>. QED  BY <1>2, <1>3 DEF Pipeline!RecordUnanswered, ChatInv, TypeOK

\* A capture with its waits, rollbacks and errors is one step of FaqPipeline.
THEOREM CaptureRefines == Spec => CaptureIsOneStep
<1>1. ChatInv /\ [Next]_vars =>
        \A c \in Chats : faq[c] = "new" /\ <<faq[c], file[c]>>' # <<faq[c], file[c]>>
          => Pipeline!RecordUnanswered(c)
  BY CaptureStep
<1>. QED  BY <1>1, Invariant, PTL DEF Spec, CaptureIsOneStep

\* What EveryChatEnds rests on: a chat has its reply exactly at its end, and an
\* insert that waits for another transaction waits for one that only has to
\* commit.  So waits form no chain and no circle, whatever is reopened meanwhile.
WaitsAreShort ==
  \A c \in Chats :
    /\ pc[c] = "end" <=> reply[c] # "none"
    /\ MustWait(c) => \E d \in Chats \ {c} : Same(c, d) /\ pc[d] = "commit"

\* How far a chat has come.
Progress == [l \in {"idle", "embed", "search", "ask", "begin", "files", "faqs", "commit", "end"} |->
  CASE l = "idle" -> 0 [] l = "embed" -> 1 [] l = "search" -> 2 [] l = "ask" -> 3
    [] l = "begin" -> 4 [] l = "files" -> 5 [] l = "faqs" -> 6 [] l = "commit" -> 7 [] l = "end" -> 8]

\* No chat starts again, and none loses its reply.
NoChatTurnsBack ==
  [][\A c \in Chats : /\ Progress[pc'[c]] >= Progress[pc[c]]
                      /\ reply[c] # "none" => reply'[c] = reply[c]]_vars

\* The reply comes with the end.
LEMMA ReplyStep ==
  ASSUME ChatInv, [Next]_vars, NEW c \in Chats, pc[c] = "end" <=> reply[c] # "none"
  PROVE  (pc[c] = "end" <=> reply[c] # "none")'
<1>. USE DEF ChatInv, TypeOK
<1>1. ASSUME NEW d \in Chats, SendMessage(d) PROVE (pc[c] = "end" <=> reply[c] # "none")'
  BY <1>1 DEF SendMessage, GoesTo
<1>2. ASSUME NEW d \in Chats, ChatStep(d) \/ RecordFails(d) PROVE (pc[c] = "end" <=> reply[c] # "none")'
  <2>1. CASE Embed(d) \/ SearchSimilar(d) \/ SendContextPrompt(d)
    BY <2>1 DEF Embed, SearchSimilar, SendContextPrompt, GoesTo, Replies
  <2>2. CASE Begin(d) \/ CreateFile(d) \/ CreateUnanswered(d)
    BY <2>2 DEF Begin, CreateFile, CreateUnanswered, GoesTo
  <2>3. CASE AlreadyCaptured(d) \/ Commit(d) \/ RecordFails(d)
    BY <2>3 DEF AlreadyCaptured, Commit, RecordFails, GoesTo, Replies
  <2>. QED  BY <1>2, <2>1, <2>2, <2>3 DEF ChatStep
<1>3. ASSUME NEW d \in Chats, (\E s \in Status : SetStatus(d, s)) \/ DeleteRows(d)
      PROVE  (pc[c] = "end" <=> reply[c] # "none")'
  BY <1>3 DEF SetStatus, DeleteRows
<1>4. CASE UNCHANGED vars
  BY <1>4 DEF vars
<1>. QED  BY <1>1, <1>2, <1>3, <1>4 DEF Next

\* A chat goes from step to step.
LEMMA ProgressStep ==
  ASSUME ChatInv, [Next]_vars, NEW c \in Chats, pc[c] = "end" <=> reply[c] # "none"
  PROVE  /\ Progress[pc'[c]] >= Progress[pc[c]]
         /\ reply[c] # "none" => reply'[c] = reply[c]
<1>. USE DEF ChatInv, TypeOK, Progress
<1>1. ASSUME NEW d \in Chats, SendMessage(d)
      PROVE  Progress[pc'[c]] >= Progress[pc[c]] /\ (reply[c] # "none" => reply'[c] = reply[c])
  BY <1>1 DEF SendMessage, GoesTo
<1>2. ASSUME NEW d \in Chats, ChatStep(d) \/ RecordFails(d)
      PROVE  Progress[pc'[c]] >= Progress[pc[c]] /\ (reply[c] # "none" => reply'[c] = reply[c])
  <2>1. CASE Embed(d) \/ SearchSimilar(d) \/ SendContextPrompt(d)
    BY <2>1 DEF Embed, SearchSimilar, SendContextPrompt, GoesTo, Replies
  <2>2. CASE Begin(d) \/ CreateFile(d) \/ CreateUnanswered(d)
    BY <2>2 DEF Begin, CreateFile, CreateUnanswered, GoesTo
  <2>3. CASE AlreadyCaptured(d) \/ Commit(d) \/ RecordFails(d)
    BY <2>3 DEF AlreadyCaptured, Commit, RecordFails, GoesTo, Replies
  <2>. QED  BY <1>2, <2>1, <2>2, <2>3 DEF ChatStep
<1>3. ASSUME NEW d \in Chats, (\E s \in Status : SetStatus(d, s)) \/ DeleteRows(d)
      PROVE  Progress[pc'[c]] >= Progress[pc[c]] /\ (reply[c] # "none" => reply'[c] = reply[c])
  BY <1>3 DEF SetStatus, DeleteRows
<1>4. CASE UNCHANGED vars
  BY <1>4 DEF vars
<1>. QED  BY <1>1, <1>2, <1>3, <1>4 DEF Next

\* Service.Chat: the safety half of EveryChatEnds, with any failures.
THEOREM ChatsGoOn == Spec => []WaitsAreShort /\ NoChatTurnsBack
<1>. DEFINE Told == \A c \in Chats : pc[c] = "end" <=> reply[c] # "none"
<1>1. Init => Told
  BY DEF Init
<1>2. ChatInv /\ Told /\ [Next]_vars => Told'
  BY ReplyStep
<1>3. ChatInv /\ Told => WaitsAreShort
  BY DEF ChatInv, IndexInv, Inserted, MustWait, WaitsAreShort
<1>4. ChatInv /\ Told /\ [Next]_vars =>
        \A c \in Chats : /\ Progress[pc'[c]] >= Progress[pc[c]]
                         /\ reply[c] # "none" => reply'[c] = reply[c]
  BY ProgressStep
<1>. HIDE DEF Told
<1>. QED  BY <1>1, <1>2, <1>3, <1>4, Invariant, PTL DEF Spec, NoChatTurnsBack

-----------------------------------------------------------------------------
(* The order of Shutdown *)

\* The steps of the shutdown from its k-th on, in their order.
AfterWorker == {"hooks", "hub", "server", "db", "join", "exited"}

AfterHub == {"server", "db", "join", "exited"}

AfterServer == {"db", "join", "exited"}

\* Shutdown runs under a cancelled context, and nothing is fetched any more.
NothingFetched == main # "serving" => cancelled /\ ~fetching

\* What each finished step of the shutdown has waited for, unless the deadline
\* passed, and what it closed for good.
StepsDone ==
  /\ main \in AfterWorker /\ ~deadline => jobs = 0
  /\ main \in AfterHub => listening = "closed"
  /\ main \in AfterServer /\ ~deadline => handlers = 0
  /\ pool # "open" => main \in AfterServer

\* The inductive invariant of the shutdown.
OrderInv == NothingFetched /\ StepsDone

\* The process starts in a well-typed state.
LEMMA ShutdownTypeInit == ShutdownInit => ShutdownTypeOK
<1> SUFFICES ASSUME ShutdownInit PROVE ShutdownTypeOK
  OBVIOUS
<1>1. cancelled \in BOOLEAN /\ deadline \in BOOLEAN /\ fetching \in BOOLEAN
  BY DEF ShutdownInit
<1>2. jobs \in 0 .. MaxWorkers /\ handlers \in 0 .. MaxHandlers
  BY ShutdownAssumption DEF ShutdownInit
<1>3. /\ run \in [Services -> {"starting", "running", "returned", "failed"}]
      /\ conn \in [Conns -> {"none", "upgraded", "registered", "closed"}]
  BY DEF ShutdownInit
<1>. QED  BY <1>1, <1>2, <1>3 DEF ShutdownInit, ShutdownTypeOK, ShutdownSteps

\* Every step keeps the types.
LEMMA ShutdownTypeStep == ShutdownTypeOK /\ [ShutdownNext]_shutdownVars => ShutdownTypeOK'
<1> SUFFICES ASSUME ShutdownTypeOK, [ShutdownNext]_shutdownVars PROVE ShutdownTypeOK'
  OBVIOUS
<1>. USE ShutdownAssumption DEF ShutdownTypeOK, Services, ShutdownSteps, work, sockets
<1>1. CASE Signal \/ DeadlinePasses \/ PoolCloses
  BY <1>1 DEF Signal, DeadlinePasses, PoolCloses
<1>2. CASE RunStep
  <2>1. CASE Ping
    BY <2>1 DEF Ping, RunEnds
  <2>2. CASE DBReturns \/ WebReturns
    BY <2>2 DEF DBReturns, WebReturns, RunEnds
  <2>3. CASE Listen
    BY <2>3 DEF Listen, RunEnds
  <2>4. CASE StartWorker
    BY <2>4 DEF StartWorker, RunEnds
  <2>. QED  BY <1>2, <2>1, <2>2, <2>3, <2>4 DEF RunStep
<1>3. CASE Work
  <2>1. CASE JobBegins
    <3>1. jobs' \in 0 .. MaxWorkers
      BY <2>1 DEF JobBegins
    <3>. QED  BY <2>1, <3>1 DEF JobBegins
  <2>2. CASE JobEnds
    <3>1. jobs' \in 0 .. MaxWorkers
      BY <2>2 DEF JobEnds
    <3>. QED  BY <2>2, <3>1 DEF JobEnds
  <2>3. CASE FetchStops
    BY <2>3 DEF FetchStops
  <2>4. CASE HandlerBegins \/ HandlerEnds
    BY <2>4 DEF HandlerBegins, HandlerEnds
  <2>5. ASSUME NEW c \in Conns, Upgrade(c) PROVE ShutdownTypeOK'
    <3>1. handlers' \in 0 .. MaxHandlers
      BY <2>5 DEF Upgrade
    <3>. QED  BY <2>5, <3>1 DEF Upgrade
  <2>6. CASE \E c \in Conns : Register(c) \/ Leave(c)
    BY <2>6 DEF Register, Leave
  <2>. QED  BY <1>3, <2>1, <2>2, <2>3, <2>4, <2>5, <2>6 DEF Work
<1>4. CASE MainStep
  BY <1>4 DEF MainStep, BeginShutdown, WorkerStopped, CopyConns, HubClosed,
              ServerDrained, DBStopped, Exit
<1>5. CASE \E c \in Conns : CloseConn(c)
  BY <1>5 DEF CloseConn
<1>6. CASE UNCHANGED shutdownVars
  BY <1>6 DEF shutdownVars
<1>. QED  BY <1>1, <1>2, <1>3, <1>4, <1>5, <1>6 DEF ShutdownNext

\* Main, the services, the work and the pool stay in their phases and limits.
THEOREM ShutdownTypeCorrect == ShutdownSpec => []ShutdownTypeOK
BY ShutdownTypeInit, ShutdownTypeStep, PTL DEF ShutdownSpec

\* Before the shutdown there is nothing to have waited for.
LEMMA OrderInit == ShutdownInit => OrderInv
BY DEF ShutdownInit, OrderInv, NothingFetched, StepsDone,
       AfterWorker, AfterHub, AfterServer

\* Every step keeps the order of the shutdown: work that ended does not begin
\* again, and each step is left only after its wait.
LEMMA OrderStep == ShutdownTypeOK /\ OrderInv /\ [ShutdownNext]_shutdownVars => OrderInv'
<1> SUFFICES ASSUME ShutdownTypeOK, OrderInv, [ShutdownNext]_shutdownVars PROVE OrderInv'
  OBVIOUS
<1>. USE DEF OrderInv, NothingFetched, StepsDone,
             AfterWorker, AfterHub, AfterServer, work, sockets
<1>1. CASE Signal \/ DeadlinePasses \/ PoolCloses
  BY <1>1 DEF Signal, DeadlinePasses, PoolCloses, ShutdownSteps
<1>2. CASE RunStep
  <2>1. CASE Ping
    BY <2>1 DEF Ping, RunEnds, ShutdownTypeOK
  <2>2. CASE DBReturns \/ WebReturns
    BY <2>2 DEF DBReturns, WebReturns, RunEnds, ShutdownTypeOK
  <2>3. CASE Listen
    BY <2>3 DEF Listen, RunEnds, ShutdownTypeOK
  <2>4. CASE StartWorker
    BY <2>4 DEF StartWorker, RunEnds, ShutdownTypeOK
  <2>. QED  BY <1>2, <2>1, <2>2, <2>3, <2>4 DEF RunStep
<1>3. CASE Work
  <2>1. CASE JobBegins \/ FetchStops
    BY <2>1 DEF JobBegins, FetchStops, ShutdownTypeOK
  <2>2. CASE JobEnds
    BY <2>2 DEF JobEnds, ShutdownTypeOK
  <2>3. CASE HandlerBegins \/ HandlerEnds
    BY <2>3 DEF HandlerBegins, HandlerEnds, ShutdownTypeOK
  <2>4. ASSUME NEW c \in Conns, Upgrade(c) PROVE OrderInv'
    BY <2>4 DEF Upgrade, ShutdownTypeOK
  <2>5. CASE \E c \in Conns : Register(c) \/ Leave(c)
    BY <2>5 DEF Register, Leave, ShutdownTypeOK
  <2>. QED  BY <1>3, <2>1, <2>2, <2>3, <2>4, <2>5 DEF Work
<1>4. CASE MainStep
  <2>1. CASE BeginShutdown
    BY <2>1 DEF BeginShutdown
  <2>2. CASE WorkerStopped
    BY <2>2 DEF WorkerStopped
  <2>3. CASE CopyConns
    BY <2>3 DEF CopyConns
  <2>4. CASE HubClosed
    BY <2>4 DEF HubClosed
  <2>5. CASE ServerDrained
    BY <2>5 DEF ServerDrained
  <2>6. CASE DBStopped
    BY <2>6 DEF DBStopped
  <2>7. CASE Exit
    BY <2>7 DEF Exit
  <2>. QED  BY <1>4, <2>1, <2>2, <2>3, <2>4, <2>5, <2>6, <2>7 DEF MainStep
<1>5. CASE \E c \in Conns : CloseConn(c)
  BY <1>5 DEF CloseConn, ShutdownTypeOK
<1>6. CASE UNCHANGED shutdownVars
  BY <1>6 DEF shutdownVars
<1>. QED  BY <1>1, <1>2, <1>3, <1>4, <1>5, <1>6 DEF ShutdownNext

\* The invariant behind the order of the shutdown.
LEMMA Order == ShutdownSpec => []OrderInv
BY OrderInit, OrderStep, ShutdownTypeCorrect, PTL DEF ShutdownSpec

\* ServiceManager.Start: before the deadline the pool is closed only after the
\* last job and the last handler.
THEOREM PoolIsLast == ShutdownSpec => []PoolClosesLast
<1>1. OrderInv => PoolClosesLast
  BY DEF OrderInv, NothingFetched, StepsDone, PoolClosesLast,
         AfterWorker, AfterHub, AfterServer
<1>. QED  BY <1>1, Order, PTL

-----------------------------------------------------------------------------
(* What ShutdownEnds rests on *)

\* The Run of a service is over.
Ended(s) == run[s] \in {"returned", "failed"}

\* What a goroutine of g.Wait waits for has come by then: the web server
\* listens only while ListenAndServe runs, the worker's Start does not block,
\* and a listener that is closed makes ListenAndServe return from wherever it
\* is.  (The database's Run waits for stopCh, closed from "db" on.)
ReturnInv ==
  /\ listening = "open" => run["web"] = "running"
  /\ run["worker"] # "running"

\* A service that g.Wait still waits for can return: nothing keeps the process.
JoinIsNoTrap ==
  main = "join" =>
    /\ ~Ended("db") => run["db"] \in {"starting", "running"}
    /\ ~Ended("web") => run["web"] \in {"starting", "running"} /\ listening = "closed"
    /\ ~Ended("worker") => run["worker"] = "starting"

\* How far ServiceManager.Start has come.
Position == [m \in {"serving", "join", "exited"} \cup ShutdownSteps |->
  CASE m = "serving" -> 0 [] m = "worker" -> 1 [] m = "hooks" -> 2 [] m = "hub" -> 3
    [] m = "server" -> 4 [] m = "db" -> 5 [] m = "join" -> 6 [] m = "exited" -> 7]

\* What has come about on the way out stays.
NothingTurnsBack ==
  [][/\ Position[main'] >= Position[main]
     /\ cancelled => cancelled'
     /\ deadline => deadline'
     /\ \A s \in Services : Ended(s) => Ended(s)'
     /\ main = "hub" => \A c \in closing : conn[c] = "closed" => conn'[c] = "closed"]_shutdownVars

\* Every step keeps what the services of g.Wait wait for.
LEMMA ReturnStep == ShutdownTypeOK /\ OrderInv /\ ReturnInv /\ [ShutdownNext]_shutdownVars => ReturnInv'
<1> SUFFICES ASSUME ShutdownTypeOK, OrderInv, ReturnInv, [ShutdownNext]_shutdownVars PROVE ReturnInv'
  OBVIOUS
<1>. USE DEF ReturnInv, ShutdownTypeOK, Services, work, sockets
<1>1. CASE Signal \/ DeadlinePasses \/ PoolCloses
  BY <1>1 DEF Signal, DeadlinePasses, PoolCloses
<1>2. CASE RunStep
  <2>1. CASE Ping
    BY <2>1 DEF Ping, RunEnds
  <2>2. CASE DBReturns \/ WebReturns
    BY <2>2 DEF DBReturns, WebReturns, RunEnds
  <2>3. CASE Listen
    BY <2>3 DEF Listen, RunEnds
  <2>4. CASE StartWorker
    BY <2>4 DEF StartWorker, RunEnds
  <2>. QED  BY <1>2, <2>1, <2>2, <2>3, <2>4 DEF RunStep
<1>3. CASE Work
  BY <1>3 DEF Work, JobBegins, JobEnds, FetchStops, HandlerBegins, HandlerEnds,
              Upgrade, Register, Leave
<1>4. CASE MainStep
  BY <1>4 DEF MainStep, BeginShutdown, WorkerStopped, CopyConns, HubClosed,
              ServerDrained, DBStopped, Exit
<1>5. CASE \E c \in Conns : CloseConn(c)
  BY <1>5 DEF CloseConn
<1>6. CASE UNCHANGED shutdownVars
  BY <1>6 DEF shutdownVars
<1>. QED  BY <1>1, <1>2, <1>3, <1>4, <1>5, <1>6 DEF ShutdownNext

\* ServiceManager.Start: g.Wait waits for no service that cannot return.
THEOREM JoinGoesOn == ShutdownSpec => []JoinIsNoTrap
<1>1. ShutdownInit => ReturnInv
  BY DEF ShutdownInit, ReturnInv, Services
<1>2. ShutdownTypeOK /\ OrderInv /\ ReturnInv => JoinIsNoTrap
  BY DEF ShutdownTypeOK, OrderInv, StepsDone, AfterHub, ReturnInv, JoinIsNoTrap, Ended, Services
<1>. QED  BY <1>1, <1>2, ReturnStep, ShutdownTypeCorrect, Order, PTL DEF ShutdownSpec

\* Where a step of the manager leads.
LEMMA MainGoesOn ==
  ShutdownTypeOK /\ [ShutdownNext]_shutdownVars => Position[main'] >= Position[main]
<1> SUFFICES ASSUME ShutdownTypeOK, [ShutdownNext]_shutdownVars
             PROVE  Position[main'] >= Position[main]
  OBVIOUS
<1>1. CASE MainStep
  BY <1>1 DEF MainStep, BeginShutdown, WorkerStopped, CopyConns, HubClosed,
              ServerDrained, DBStopped, Exit, Position, ShutdownSteps
<1>2. CASE UNCHANGED main
  BY <1>2 DEF Position, ShutdownSteps, ShutdownTypeOK
<1>3. MainStep \/ UNCHANGED main
  BY DEF ShutdownNext, Signal, RunStep, Ping, DBReturns, Listen, WebReturns, StartWorker,
         Work, JobBegins, JobEnds, FetchStops, HandlerBegins, HandlerEnds, Upgrade, Register,
         Leave, DeadlinePasses, PoolCloses, CloseConn, shutdownVars
<1>. QED  BY <1>1, <1>2, <1>3

\* A service that returned is not started again.
LEMMA EndedStays ==
  ASSUME ShutdownTypeOK, [ShutdownNext]_shutdownVars, NEW s \in Services, Ended(s)
  PROVE  Ended(s)'
<1>. USE DEF ShutdownTypeOK, Ended, Services
<1>1. CASE RunStep
  <2>1. CASE Ping
    BY <2>1 DEF Ping, RunEnds
  <2>2. CASE DBReturns \/ WebReturns
    BY <2>2 DEF DBReturns, WebReturns, RunEnds
  <2>3. CASE Listen
    BY <2>3 DEF Listen, RunEnds
  <2>4. CASE StartWorker
    BY <2>4 DEF StartWorker, RunEnds
  <2>. QED  BY <1>1, <2>1, <2>2, <2>3, <2>4 DEF RunStep
<1>2. CASE UNCHANGED run
  BY <1>2
<1>3. RunStep \/ UNCHANGED run
  BY DEF ShutdownNext, Signal, MainStep, BeginShutdown, WorkerStopped, CopyConns, HubClosed,
         ServerDrained, DBStopped, Exit,
         Work, JobBegins, JobEnds, FetchStops, HandlerBegins, HandlerEnds, Upgrade, Register,
         Leave, DeadlinePasses, PoolCloses, CloseConn, shutdownVars
<1>. QED  BY <1>1, <1>2, <1>3

\* The context, the deadline and the connections that are closed stay so.
LEMMA OnceAndForAll ==
  ASSUME ShutdownTypeOK, [ShutdownNext]_shutdownVars
  PROVE  /\ cancelled => cancelled'
         /\ deadline => deadline'
         /\ main = "hub" => \A c \in closing : conn[c] = "closed" => conn'[c] = "closed"
<1>. USE DEF ShutdownTypeOK, work, sockets
<1>1. CASE Signal \/ DeadlinePasses \/ PoolCloses
  BY <1>1 DEF Signal, DeadlinePasses, PoolCloses
<1>2. CASE RunStep
  BY <1>2 DEF RunStep, Ping, DBReturns, Listen, WebReturns, StartWorker, RunEnds
<1>3. CASE Work
  BY <1>3 DEF Work, JobBegins, JobEnds, FetchStops, HandlerBegins, HandlerEnds,
              Upgrade, Register, Leave
<1>4. CASE MainStep
  BY <1>4 DEF MainStep, BeginShutdown, WorkerStopped, CopyConns, HubClosed,
              ServerDrained, DBStopped, Exit
<1>5. CASE \E c \in Conns : CloseConn(c)
  BY <1>5 DEF CloseConn
<1>6. CASE UNCHANGED shutdownVars
  BY <1>6 DEF shutdownVars
<1>. QED  BY <1>1, <1>2, <1>3, <1>4, <1>5, <1>6 DEF ShutdownNext

\* ServiceManager.Start: no interleaving of signals, services and work takes
\* the shutdown back.  Before g.Wait it waits for work or the deadline, and in
\* "hub" for CloseConn steps that nothing else holds up; with JoinGoesOn, this
\* is the safety half of ShutdownEnds.
THEOREM ShutdownGoesOn == ShutdownSpec => NothingTurnsBack
<1>1. ShutdownTypeOK /\ [ShutdownNext]_shutdownVars =>
        /\ Position[main'] >= Position[main]
        /\ cancelled => cancelled'
        /\ deadline => deadline'
        /\ \A s \in Services : Ended(s) => Ended(s)'
        /\ main = "hub" => \A c \in closing : conn[c] = "closed" => conn'[c] = "closed"
  BY MainGoesOn, EndedStays, OnceAndForAll
<1>. QED  BY <1>1, ShutdownTypeCorrect, PTL DEF ShutdownSpec, NothingTurnsBack
=============================================================================
