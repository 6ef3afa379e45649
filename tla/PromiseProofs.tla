----------------------------- MODULE PromiseProofs -----------------------------
(***************************************************************************)
(* The service implements ReplyOnce: the initial states map to an initial  *)
(* state, and every step to taking a question in, to deciding it, to       *)
(* replying to it, or to nothing.                                          *)
(***************************************************************************)
EXTENDS RowProofs

\* The state of the promise, as Promise sees it.
Taken == {store[c].provider_message_id : c \in DOMAIN store}
Verdicts == [m \in Questions |-> Verdict(m)]
LettersOut == [m \in Questions |-> LettersFor(m)]

-----------------------------------------------------------------------------
(* What the promise does not see. *)

\* The promise sees of a row its message and whether it is completed or failed.
LEMMA ViewOfRows ==
    ASSUME DOMAIN store' = DOMAIN store,
           \A c \in DOMAIN store :
               /\ store'[c].provider_message_id = store[c].provider_message_id
               /\ \/ store'[c].status = store[c].status
                  \/ {store'[c].status, store[c].status} \cap {"completed", "failed"} = {}
    PROVE  UNCHANGED <<Taken, Verdicts>>
<1>1. UNCHANGED Taken
    BY DEF Taken
<1>2. ASSUME NEW m PROVE ByProviderMessageId(store', m) = ByProviderMessageId(store, m)
    BY DEF ByProviderMessageId
<1>3. ASSUME NEW m \in Questions, NEW status \in {"completed", "failed"}
      PROVE  (\E c \in ByProviderMessageId(store', m) : store'[c].status = status)
                 <=> \E c \in ByProviderMessageId(store, m) : store[c].status = status
    BY <1>2 DEF ByProviderMessageId
<1>4. ASSUME NEW m \in Questions PROVE Verdict(m)' = Verdict(m)
    BY <1>3 DEF Verdict
<1> QED
    BY <1>1, <1>4 DEF Verdicts, Questions

\* It sees the outboxes of the questions only.
LEMMA ViewOfOutboxes ==
    ASSUME \A q \in Requests : ~IsRating(q) => outbox'[q] = outbox[q]
    PROVE  UNCHANGED LettersOut
<1>1. ASSUME NEW m PROVE LettersFor(m)' = LettersFor(m)
    BY DEF LettersFor
<1> QED
    BY <1>1 DEF LettersOut, Questions

-----------------------------------------------------------------------------
(* The steps it sees. *)

\* A new row takes its question in.
LEMMA CreateTakes ==
    ASSUME IInv, RowInv, NEW r \in Requests, Create(r)
    PROVE  Promise!Take(MessageId(r)) /\ MessageId(r) \in Questions
<1>1. r \notin DOMAIN store /\ ~IsRating(r) /\ MessageId(r) \in Questions
    BY DEF Create, Goto, IInv, Stage, AcceptSteps, Questions
<1>2. /\ DOMAIN store' = DOMAIN store \cup {r}
      /\ store'[r].provider_message_id = MessageId(r) /\ store'[r].status = "received"
      /\ \A c \in DOMAIN store : store'[c] = store[c]
    BY <1>1 DEF Create, Inserted, NewConversation
<1>3. MessageId(r) \notin Taken
    BY DEF Create, ByProviderMessageId, Taken
<1>4. Taken' = Taken \cup {MessageId(r)}
    BY <1>2 DEF Taken
<1>5. ASSUME NEW m \in Questions, NEW status \in {"completed", "failed"}
      PROVE  (\E c \in ByProviderMessageId(store', m) : store'[c].status = status)
                 <=> \E c \in ByProviderMessageId(store, m) : store[c].status = status
    BY <1>1, <1>2 DEF ByProviderMessageId
<1>6. ASSUME NEW m \in Questions PROVE Verdict(m)' = Verdict(m)
    BY <1>5 DEF Verdict
<1>7. UNCHANGED Verdicts
    BY <1>6 DEF Verdicts, Questions
<1>8. UNCHANGED LettersOut
    BY ViewOfOutboxes DEF Create
<1> QED
    BY <1>1, <1>3, <1>4, <1>7, <1>8 DEF Promise!Take, Taken, Verdicts, LettersOut

\* The one row of a question is what decides its verdict.
LEMMA VerdictOfRow ==
    ASSUME IInv, NEW r \in DOMAIN store
    PROVE  /\ ~IsRating(r) /\ MessageId(r) \in Questions
           /\ ByProviderMessageId(store, MessageId(r)) = {r}
           /\ Verdict(MessageId(r)) =
                  CASE store[r].status = "completed" -> "answered"
                    [] store[r].status = "failed" -> "apologised"
                    [] OTHER -> "open"
<1>1. /\ r \in Requests /\ ~IsRating(r)
      /\ store[r].provider_message_id = MessageId(r)
    BY DEF IInv, TypeOK, RowOfRequest
<1>2. ByProviderMessageId(store, MessageId(r)) = {r}
    BY <1>1 DEF IInv, UniqueMessages, ByProviderMessageId
<1> QED
    BY <1>1, <1>2 DEF Verdict, Questions

\* Storing the outcome of a question decides it.
LEMMA StoreDecides ==
    ASSUME IInv, RowInv, NEW r \in Requests, StoreAnswer(r) \/ StoreFailure(r)
    PROVE  /\ MessageId(r) \in Questions
           /\ Promise!Decide(MessageId(r), "answered") \/ Promise!Decide(MessageId(r), "apologised")
<1> DEFINE mine == MessageId(r)
<1>1. OwnWrite(r) /\ store[r].status = "processing"
    BY StoreAnswerWrites, StoreFailureWrites
    DEF StoreAnswer, StoreFailure, Goto, RowInv, RowStage, Generating
<1>2. r \in DOMAIN store /\ store[r] \in Conversation
    BY <1>1 DEF OwnWrite, IInv, TypeOK
<1>3. store'[r].status = IF StoreAnswer(r) THEN "completed" ELSE "failed"
    BY <1>2, ZenonT(40) DEF StoreAnswer, StoreFailure, WriteOwn, Conversation, Goto
<1>4. IInv'
    BY StoreAnswerStep, StoreFailureStep
<1>5. /\ mine \in Questions /\ Verdict(mine) = "open"
      /\ Verdict(mine)' = IF StoreAnswer(r) THEN "answered" ELSE "apologised"
  <2>1. r \in DOMAIN store'
    BY <1>1 DEF OwnWrite
  <2>2. Verdict(mine) = "open" /\ mine \in Questions
    BY <1>1, <1>2, VerdictOfRow
  <2>3. \A c \in ByProviderMessageId(store', mine) : c = r
    BY <1>4, <2>1 DEF IInv, UniqueMessages, RowOfRequest, ByProviderMessageId
  <2>4. r \in ByProviderMessageId(store', mine)
    BY <1>4, <2>1 DEF IInv, RowOfRequest, ByProviderMessageId
  <2> QED
    BY <1>3, <2>2, <2>3, <2>4 DEF Verdict
<1>6. ASSUME NEW m \in Questions \ {mine} PROVE Verdict(m)' = Verdict(m)
  <2>1. r \notin ByProviderMessageId(store, m) /\ r \notin ByProviderMessageId(store', m)
    BY <1>1, <1>2 DEF OwnWrite, RowStep, ByProviderMessageId, IInv, RowOfRequest
  <2>2. /\ ByProviderMessageId(store', m) = ByProviderMessageId(store, m)
        /\ \A c \in ByProviderMessageId(store, m) : store'[c] = store[c]
    BY <1>1, <2>1 DEF OwnWrite, ByProviderMessageId
  <2> QED
    BY <2>2 DEF Verdict
<1>7. mine \in Taken /\ UNCHANGED Taken
  <2>1. store[r].provider_message_id = mine
    BY <1>2 DEF IInv, RowOfRequest
  <2>2. \A c \in DOMAIN store : store'[c].provider_message_id = store[c].provider_message_id
    BY <1>1 DEF OwnWrite, RowStep
  <2> QED
    BY <1>1, <1>2, <2>1, <2>2 DEF Taken, OwnWrite
<1>8. UNCHANGED LettersOut
    BY ViewOfOutboxes DEF StoreAnswer, StoreFailure
<1>9. UNCHANGED Questions
    BY DEF Questions
<1>10. Verdicts' = [Verdicts EXCEPT ![mine] = IF StoreAnswer(r) THEN "answered" ELSE "apologised"]
    BY <1>5, <1>6, <1>9 DEF Verdicts
<1> QED
    BY <1>5, <1>7, <1>8, <1>10 DEF Promise!Decide, Taken, Verdicts, LettersOut

\* Handing the reply over is the one letter of a question that has been decided.
LEMMA SendReplies ==
    ASSUME IInv, RowInv, NEW r \in Requests, pc[r] = "send", HandOver(r), UNCHANGED store
    PROVE  MessageId(r) \in Questions /\ Promise!Reply(MessageId(r))
<1> DEFINE mine == MessageId(r)
<1>1. r \in DOMAIN store /\ Agrees(r, reply[r]) /\ outbox[r] = <<>>
    BY DEF IInv, Stage, Progress, Mail, ProcessSteps, Running
<1>2. mine \in Questions /\ ~IsRating(r) /\ Verdict(mine) # "open"
    BY <1>1, VerdictOfRow DEF Agrees
<1>3. /\ Len(outbox'[r]) = 1
      /\ \A q \in Requests \ {r} : outbox'[q] = outbox[q]
    BY <1>1 DEF HandOver, IInv, TypeOK
<1>4. ASSUME NEW q \in Requests, q # r, ~IsRating(q), MessageId(q) = mine PROVE outbox[q] = <<>>
    BY <1>1, <1>4 DEF IInv, Mail, UniqueMessages, RowOfRequest
<1>5. LettersFor(mine) = {}
  <2> SUFFICES ASSUME NEW q \in Requests, NEW i \in 1 .. 2, ~IsRating(q), MessageId(q) = mine,
                      i <= Len(outbox[q])
               PROVE  FALSE
    BY DEF LettersFor
  <2>1. outbox[q] = <<>>
    BY <1>1, <1>4
  <2> QED
    BY <2>1
<1>6. LettersFor(mine)' = {<<r, 1>>}
  <2>1. <<r, 1>> \in LettersFor(mine)'
    BY <1>2, <1>3, SMTT(30) DEF LettersFor
  <2>2. ASSUME NEW q \in Requests, NEW i \in 1 .. 2, ~IsRating(q), MessageId(q) = mine,
               i <= Len(outbox'[q])
        PROVE  q = r /\ i = 1
    <3>1. CASE q # r
      <4>1. outbox'[q] = <<>>
        BY <1>3, <1>4, <2>2, <3>1
      <4> QED
        BY <2>2, <4>1
    <3>2. CASE q = r
      <4>1. Len(outbox'[q]) = 1
        BY <1>3, <3>2
      <4>2. i <= 1
        BY <2>2, <4>1
      <4> QED
        BY <3>2, <4>2
    <3> QED
      BY <3>1, <3>2
  <2> QED
    BY <2>1, <2>2 DEF LettersFor
<1>7. ASSUME NEW m \in Questions \ {mine} PROVE LettersFor(m)' = LettersFor(m)
    BY <1>3 DEF LettersFor
<1>8. UNCHANGED <<Taken, Verdicts>>
    BY ViewOfRows
<1>9. UNCHANGED Questions
    BY DEF Questions
<1>10. LettersOut' = [LettersOut EXCEPT ![mine] = {<<r, 1>>}]
    BY <1>6, <1>7, <1>9 DEF LettersOut
<1>11. <<r, 1>> \in Requests \X {1}
    OBVIOUS
<1> QED
    BY <1>2, <1>5, <1>8, <1>10, <1>11 DEF Promise!Reply, Taken, Verdicts, LettersOut

-----------------------------------------------------------------------------
(* The steps it does not see. *)

\* The writes of process() that decide nothing leave the promise where it is.
LEMMA RowsBetween ==
    ASSUME IInv, RowInv, NEW r \in Requests,
           Begin(r) \/ RecordSent(r) \/ RecordFailed(r) \/ Queue(r)
    PROVE  UNCHANGED <<Taken, Verdicts, LettersOut>>
<1>1. OwnWrite(r) /\ UNCHANGED outbox
    BY BeginWrites, RecordSentWrites, RecordFailedWrites, QueueWrites
    DEF Begin, RecordSent, RecordFailed, Queue
<1>2. r \in DOMAIN store /\ store[r] \in Conversation
    BY <1>1 DEF OwnWrite, IInv, TypeOK
<1>3. Begin(r) => store[r].status = "received"
    BY DEF Begin, Goto, RowInv, RowStage
<1>4. \/ store'[r].status = store[r].status
      \/ store'[r].status = "processing" /\ store[r].status = "received"
    BY <1>2, <1>3 DEF Begin, RecordSent, RecordFailed, Queue, WriteOwn, Conversation
<1>5. \A c \in DOMAIN store :
          /\ store'[c].provider_message_id = store[c].provider_message_id
          /\ \/ store'[c].status = store[c].status
             \/ {store'[c].status, store[c].status} \cap {"completed", "failed"} = {}
    BY <1>1, <1>4 DEF OwnWrite, RowStep
<1>6. UNCHANGED <<Taken, Verdicts>>
    BY <1>1, <1>5, ViewOfRows DEF OwnWrite
<1> QED
    BY <1>1, <1>6, ViewOfOutboxes

\* A rating keeps what the promise sees of the row.
LEMMA RatedKeeps ==
    ASSUME NEW old \in Conversation, NEW new, Rated(old, new)
    PROVE  new.provider_message_id = old.provider_message_id /\ new.status = old.status
    BY DEF Rated, Conversation

\* Nor does a rating or its acknowledgement move it.
LEMMA RatingsBetween ==
    ASSUME IInv, RowInv, NEW r \in Requests, CommitRating(r) \/ SendAck(r)
    PROVE  UNCHANGED <<Taken, Verdicts, LettersOut>>
<1>1. CASE CommitRating(r)
  <2>1. /\ store[target[r]] \in Conversation
        /\ Rated(store[target[r]], store'[target[r]])
    BY <1>1, CommitRatingWrites DEF IInv, TypeOK
  <2>2. /\ store'[target[r]].provider_message_id = store[target[r]].provider_message_id
        /\ store'[target[r]].status = store[target[r]].status
    BY <2>1, RatedKeeps
  <2>3. UNCHANGED <<Taken, Verdicts>>
    BY <1>1, <2>2, CommitRatingWrites, ViewOfRows
  <2> QED
    BY <1>1, <2>3, ViewOfOutboxes DEF CommitRating
<1>2. CASE SendAck(r)
  <2>1. IsRating(r) /\ UNCHANGED store
    BY <1>2 DEF SendAck, Goto, IInv, Stage, RatingSteps
  <2>2. \A q \in Requests \ {r} : outbox'[q] = outbox[q]
    BY <1>2 DEF SendAck, HandOver, IInv, TypeOK
  <2> QED
    BY <2>1, <2>2, ViewOfRows, ViewOfOutboxes
<1> QED
    BY <1>1, <1>2

\* Every other step leaves the rows and the outboxes alone.
LEMMA OthersKeepMail ==
    ASSUME NEW r \in Requests, StepOf(r), ~Writes(r),
           ~SendSucceeds(r), ~SendLeaks(r), ~SendAck(r)
    PROVE  UNCHANGED <<Taken, Verdicts, LettersOut>>
<1>1. UNCHANGED store
    BY OthersRead
<1>2. UNCHANGED outbox
  <2> USE DEF Writes
  <2>1. CASE Post(r) \/ AcceptStep(r)
    BY <2>1 DEF Post, AcceptStep, LookupDuplicate, LookupRating, LookupQuestion,
           CreateConflict, Refetch, FeedbackDuplicate, FeedbackFresh, NothingToRate,
           PickLatest, LoadRating, CommitConflict
  <2>2. CASE ProcessStep(r) \/ LlmAnswers(r) \/ LlmFails(r)
    BY <2>2 DEF ProcessStep, ReadHistory, LlmDeadline, LlmAnswers, LlmFails
  <2>3. CASE CarrierStep(r) \/ FaultStep(r)
    BY <2>3 DEF CarrierStep, SendRejected, FaultStep, AcceptFails, HistoryFails, ProcessFails
  <2> QED
    BY <2>1, <2>2, <2>3 DEF StepOf
<1> QED
    BY <1>1, <1>2, ViewOfRows, ViewOfOutboxes

-----------------------------------------------------------------------------
(* The refinement. *)

\* The initial states map to an initial state of the promise.
LEMMA PromiseInit == Init => Promise!Init
<1> SUFFICES ASSUME Init PROVE Promise!Init
    OBVIOUS
<1>1. DOMAIN store = {}
    BY DEF Init
<1>2. ASSUME NEW m PROVE Verdict(m) = "open" /\ LettersFor(m) = {}
    BY <1>1 DEF Init, Verdict, ByProviderMessageId, LettersFor
<1> QED
    BY <1>1, <1>2 DEF Promise!Init

\* Every step of a request is a step of the promise, or leaves it alone.
LEMMA PromiseStep ==
    ASSUME IInv, RowInv, NEW r \in Requests, StepOf(r)
    PROVE  Promise!Next \/ UNCHANGED <<Taken, Verdicts, LettersOut>>
<1>1. CASE Create(r)
    BY <1>1, CreateTakes DEF Promise!Next
<1>2. CASE StoreAnswer(r) \/ StoreFailure(r)
    BY <1>2, StoreDecides DEF Promise!Next
<1>3. CASE SendSucceeds(r)
    BY <1>3, SendReplies DEF SendSucceeds, Goto, Promise!Next
<1>4. CASE SendLeaks(r)
  <2>1. CASE HandOver(r)
    BY <1>4, <2>1, SendReplies DEF SendLeaks, Goto, Promise!Next
  <2>2. CASE UNCHANGED outbox
    BY <1>4, <2>2, ViewOfRows, ViewOfOutboxes DEF SendLeaks
  <2> QED
    BY <1>4, <2>1, <2>2 DEF SendLeaks
<1>5. CASE Begin(r) \/ RecordSent(r) \/ RecordFailed(r) \/ Queue(r)
    BY <1>5, RowsBetween
<1>6. CASE CommitRating(r) \/ SendAck(r)
    BY <1>6, RatingsBetween
<1> QED
    BY <1>1, <1>2, <1>3, <1>4, <1>5, <1>6, OthersKeepMail DEF Writes

\* So is every step of the service: a crash or a stutter changes nothing of it.
LEMMA PromiseNext ==
    IInv /\ RowInv /\ [Next]_vars => [Promise!Next]_(Promise!vars)
<1> SUFFICES ASSUME IInv, RowInv, [Next]_vars PROVE [Promise!Next]_(Promise!vars)
    OBVIOUS
<1>1. Promise!Next \/ UNCHANGED <<Taken, Verdicts, LettersOut>>
  <2>1. CASE \E r \in Requests : StepOf(r)
    BY <2>1, PromiseStep
  <2>2. CASE Crash \/ Quiet \/ UNCHANGED vars
    BY <2>2, ViewOfRows, ViewOfOutboxes DEF Crash, Quiet, vars
  <2> QED
    BY <2>1, <2>2 DEF Next, StepOf
<1> QED
    BY <1>1 DEF Promise!vars, Taken, Verdicts, LettersOut

\* The service implements ReplyOnce: whatever the carrier retries and whatever
\* fails, a question is taken in once, decided once, and then replied to by one
\* SMS at most.
THEOREM PromiseKept == Spec => KeepsPromise
<1>1. IInv /\ RowInv /\ [Next]_vars => [Promise!Next]_(Promise!vars)
    BY PromiseNext
<1> QED
    BY PromiseInit, <1>1, Invariance, RowInvariance, PTL DEF Spec, KeepsPromise, Promise!Spec
===============================================================================
