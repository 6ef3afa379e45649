------------------------------- MODULE RowProofs -------------------------------
(***************************************************************************)
(* The life of a row, for every set of requests, both modes, and any       *)
(* number of faults and crashes: RowInv is inductive relative to IInv.     *)
(*                                                                         *)
(* A step belongs to one request.  First what it leaves alone of the       *)
(* others, then how it moves the rows, then what it does to its own        *)
(* request, and last the theorems.                                         *)
(***************************************************************************)
EXTENDS ConversationRows, ConversationProofs, StoreTheorems

\* A step of request r.
StepOf(r) ==
    \/ Post(r)
    \/ AcceptStep(r)
    \/ ProcessStep(r)
    \/ LlmAnswers(r) \/ LlmFails(r)
    \/ CarrierStep(r)
    \/ FaultStep(r)

\* What request q has of its own.
Own(q) ==
    <<pc[q], target[q], loaded[q], prompt[q], reply[q], receipt[q],
      outbox[q], response[q]>>

-----------------------------------------------------------------------------
(* What a step leaves alone. *)

\* A step of one request changes nothing of another's own.
LEMMA OthersWait ==
    ASSUME IInv, NEW r \in Requests, NEW q \in Requests, q # r, StepOf(r)
    PROVE  UNCHANGED Own(q)
<1> USE DEF IInv, TypeOK, Own, Goto, Respond, RespondDuplicate, RespondFeedback,
            HandOver, locals
<1>1. CASE Post(r)
    BY <1>1 DEF Post
<1>2. CASE AcceptStep(r)
  <2>1. CASE LookupDuplicate(r) \/ LookupRating(r) \/ LookupQuestion(r)
    BY <2>1 DEF LookupDuplicate, LookupRating, LookupQuestion
  <2>2. CASE Create(r) \/ CreateConflict(r) \/ Refetch(r)
    BY <2>2 DEF Create, CreateConflict, Refetch
  <2>3. CASE FeedbackDuplicate(r) \/ FeedbackFresh(r) \/ NothingToRate(r)
    BY <2>3 DEF FeedbackDuplicate, FeedbackFresh, NothingToRate
  <2>4. CASE PickLatest(r) \/ LoadRating(r)
    BY <2>4 DEF PickLatest, LoadRating
  <2>5. CASE CommitRating(r) \/ CommitConflict(r)
    BY <2>5 DEF CommitRating, CommitConflict
  <2> QED
    BY <1>2, <2>1, <2>2, <2>3, <2>4, <2>5 DEF AcceptStep
<1>3. CASE ProcessStep(r) \/ LlmAnswers(r) \/ LlmFails(r)
  <2>1. CASE Begin(r) \/ ReadHistory(r) \/ LlmAnswers(r) \/ LlmFails(r)
    BY <2>1 DEF Begin, ReadHistory, LlmAnswers, LlmFails
  <2>2. CASE StoreAnswer(r) \/ StoreFailure(r)
    BY <2>2 DEF StoreAnswer, StoreFailure
  <2>3. CASE RecordSent(r) \/ RecordFailed(r) \/ Queue(r)
    BY <2>3 DEF RecordSent, RecordFailed, Queue
  <2> QED
    BY <1>3, <2>1, <2>2, <2>3 DEF ProcessStep, LlmDeadline
<1>4. CASE CarrierStep(r)
    BY <1>4 DEF CarrierStep, SendSucceeds, SendRejected, SendLeaks, SendAck
<1>5. CASE FaultStep(r)
    BY <1>5 DEF FaultStep, AcceptFails, HistoryFails, ProcessFails
<1> QED
    BY <1>1, <1>2, <1>3, <1>4, <1>5 DEF StepOf

\* Only these steps write to the table.
Writes(r) ==
    \/ Create(r) \/ CommitRating(r)
    \/ Begin(r) \/ StoreAnswer(r) \/ StoreFailure(r)
    \/ RecordSent(r) \/ RecordFailed(r) \/ Queue(r)

\* Every other step leaves the table as it is.
LEMMA OthersRead ==
    ASSUME NEW r \in Requests, StepOf(r), ~Writes(r)
    PROVE  UNCHANGED store
<1> USE DEF Writes
<1>1. CASE Post(r) \/ AcceptStep(r)
    BY <1>1 DEF Post, AcceptStep, LookupDuplicate, LookupRating, LookupQuestion,
           CreateConflict, Refetch, FeedbackDuplicate, FeedbackFresh, NothingToRate,
           PickLatest, LoadRating, CommitConflict
<1>2. CASE ProcessStep(r) \/ LlmAnswers(r) \/ LlmFails(r)
    BY <1>2 DEF ProcessStep, ReadHistory, LlmDeadline, LlmAnswers, LlmFails
<1>3. CASE CarrierStep(r)
    BY <1>3 DEF CarrierStep, SendSucceeds, SendRejected, SendLeaks, SendAck
<1>4. CASE FaultStep(r)
    BY <1>4 DEF FaultStep, AcceptFails, HistoryFails, ProcessFails
<1> QED
    BY <1>1, <1>2, <1>3, <1>4 DEF StepOf

-----------------------------------------------------------------------------
(* How a step moves the rows. *)

\* A row that is not written makes a stuttering step of its life.
LEMMA RowStays == ASSUME NEW row PROVE RowStep(row, row)
    BY DEF RowStep

\* Each write of process() is a step of the life of the row it finds.
LEMMA OwnRowSteps ==
    ASSUME NEW row \in Conversation, row.delivery_status = None,
           NEW c \in Requests, NEW delivery \in DeliveryStatus \cup {None}
    PROVE  /\ row.status = "received" => RowStep(row, [row EXCEPT !.status = "processing"])
           /\ row.status = "processing" /\ row.llm_response = None =>
                  /\ RowStep(row, [row EXCEPT !.status = "completed",
                                              !.llm_response = c, !.error_message = None])
                  /\ RowStep(row, [row EXCEPT !.status = "failed", !.error_message = "llm"])
           /\ row.status \in {"completed", "failed"} =>
                  /\ RowStep(row, [row EXCEPT !.provider_response_id = c,
                                              !.delivery_status = delivery])
                  /\ RowStep(row, [row EXCEPT !.delivery_status = delivery,
                                              !.error_message = "sms"])
                  /\ RowStep(row, [row EXCEPT !.delivery_status = delivery])
    BY DEF Conversation, RowStep, FeedbackColumns

\* A step of process() writes one row, and moves it on in its life.
OwnWrite(r) ==
    /\ r \in DOMAIN store
    /\ DOMAIN store' = DOMAIN store
    /\ \A c \in DOMAIN store \ {r} : store'[c] = store[c]
    /\ RowStep(store[r], store'[r])
    /\ FeedbackColumns(store'[r]) = FeedbackColumns(store[r])

\* Begin writes as OwnWrite says.
LEMMA BeginWrites == ASSUME IInv, RowInv, NEW r \in Requests, Begin(r) PROVE OwnWrite(r)
<1> DEFINE row == [store[r] EXCEPT !.status = "processing"]
<1>1. r \in DOMAIN store /\ store[r] \in Conversation
    BY DEF IInv, TypeOK, Stage, Begin, Goto, ProcessSteps
<1>2. store[r].status = "received" /\ store[r].delivery_status = None
    BY DEF RowInv, RowStage, Begin, Goto, ProcessSteps
<1>3. RowStep(store[r], row)
    BY <1>1, <1>2, OwnRowSteps, None \in DeliveryStatus \cup {None}
<1>4. FeedbackColumns(row) = FeedbackColumns(store[r])
    BY <1>1 DEF FeedbackColumns, Conversation
<1>5. store' = [store EXCEPT ![r] = row]
    BY DEF Begin, WriteOwn
<1> HIDE DEF row
<1> QED
    BY <1>1, <1>3, <1>4, <1>5 DEF OwnWrite

\* StoreAnswer writes as OwnWrite says.
LEMMA StoreAnswerWrites == ASSUME IInv, RowInv, NEW r \in Requests, StoreAnswer(r) PROVE OwnWrite(r)
<1> DEFINE row == [store[r] EXCEPT !.status = "completed",
                                   !.llm_response = reply[r].about,
                                   !.error_message = None]
<1>1. r \in DOMAIN store /\ store[r] \in Conversation
    BY DEF IInv, TypeOK, Stage, StoreAnswer, Goto, ProcessSteps
<1>2. /\ store[r].status = "processing" /\ store[r].llm_response = None
      /\ store[r].delivery_status = None /\ reply[r].about \in Requests
    BY DEF IInv, Progress, Agrees, RowInv, RowStage, Generating, StoreAnswer, Goto, ProcessSteps
<1>3. RowStep(store[r], row)
    BY <1>1, <1>2, OwnRowSteps
<1>4. FeedbackColumns(row) = FeedbackColumns(store[r])
    BY <1>1 DEF FeedbackColumns, Conversation
<1>5. store' = [store EXCEPT ![r] = row]
    BY DEF StoreAnswer, WriteOwn
<1> HIDE DEF row
<1> QED
    BY <1>1, <1>3, <1>4, <1>5 DEF OwnWrite

\* StoreFailure writes as OwnWrite says.
LEMMA StoreFailureWrites == ASSUME IInv, RowInv, NEW r \in Requests, StoreFailure(r) PROVE OwnWrite(r)
<1> DEFINE row == [store[r] EXCEPT !.status = "failed", !.error_message = "llm"]
<1>1. r \in DOMAIN store /\ store[r] \in Conversation
    BY DEF IInv, TypeOK, Stage, StoreFailure, Goto, ProcessSteps
<1>2. /\ store[r].status = "processing" /\ store[r].llm_response = None
      /\ store[r].delivery_status = None
    BY DEF IInv, Progress, Agrees, RowInv, RowStage, Generating, StoreFailure, Goto, ProcessSteps
<1>3. RowStep(store[r], row)
    BY <1>1, <1>2, OwnRowSteps
<1>4. FeedbackColumns(row) = FeedbackColumns(store[r])
    BY <1>1 DEF FeedbackColumns, Conversation
<1>5. store' = [store EXCEPT ![r] = row]
    BY DEF StoreFailure, WriteOwn
<1> HIDE DEF row
<1> QED
    BY <1>1, <1>3, <1>4, <1>5 DEF OwnWrite

\* RecordSent writes as OwnWrite says.
LEMMA RecordSentWrites == ASSUME IInv, RowInv, NEW r \in Requests, RecordSent(r) PROVE OwnWrite(r)
<1> DEFINE row == [store[r] EXCEPT !.provider_response_id = r,
                                   !.delivery_status = receipt[r]]
<1>1. r \in DOMAIN store /\ store[r] \in Conversation
    BY DEF IInv, TypeOK, Stage, RecordSent, Goto, ProcessSteps
<1>2. /\ store[r].status \in {"completed", "failed"}
      /\ store[r].delivery_status = None
    BY DEF IInv, Progress, Agrees, RowInv, RowStage, Generating, RecordSent, Goto, ProcessSteps
<1>3. RowStep(store[r], row)
    BY <1>1, <1>2, OwnRowSteps DEF IInv, TypeOK
<1>4. FeedbackColumns(row) = FeedbackColumns(store[r])
    BY <1>1 DEF FeedbackColumns, Conversation
<1>5. store' = [store EXCEPT ![r] = row]
    BY DEF RecordSent, WriteOwn
<1> HIDE DEF row
<1> QED
    BY <1>1, <1>3, <1>4, <1>5 DEF OwnWrite

\* RecordFailed writes as OwnWrite says.
LEMMA RecordFailedWrites == ASSUME IInv, RowInv, NEW r \in Requests, RecordFailed(r) PROVE OwnWrite(r)
<1> DEFINE row == [store[r] EXCEPT !.delivery_status = "failed",
                                   !.error_message = "sms"]
<1>1. r \in DOMAIN store /\ store[r] \in Conversation
    BY DEF IInv, TypeOK, Stage, RecordFailed, Goto, ProcessSteps
<1>2. /\ store[r].status \in {"completed", "failed"}
      /\ store[r].delivery_status = None
    BY DEF IInv, Progress, Agrees, RowInv, RowStage, Generating, RecordFailed, Goto, ProcessSteps
<1>3. RowStep(store[r], row)
    BY <1>1, <1>2, OwnRowSteps, "failed" \in DeliveryStatus DEF DeliveryStatus
<1>4. FeedbackColumns(row) = FeedbackColumns(store[r])
    BY <1>1 DEF FeedbackColumns, Conversation
<1>5. store' = [store EXCEPT ![r] = row]
    BY DEF RecordFailed, WriteOwn
<1> HIDE DEF row
<1> QED
    BY <1>1, <1>3, <1>4, <1>5 DEF OwnWrite

\* Queue writes as OwnWrite says.
LEMMA QueueWrites == ASSUME IInv, RowInv, NEW r \in Requests, Queue(r) PROVE OwnWrite(r)
<1> DEFINE row == [store[r] EXCEPT !.delivery_status = "queued"]
<1>1. r \in DOMAIN store /\ store[r] \in Conversation
    BY DEF IInv, TypeOK, Stage, Queue, Goto, ProcessSteps
<1>2. /\ store[r].status \in {"completed", "failed"}
      /\ store[r].delivery_status = None
    BY DEF IInv, Progress, Agrees, RowInv, RowStage, Generating, Queue, Goto, ProcessSteps
<1>3. RowStep(store[r], row)
    BY <1>1, <1>2, OwnRowSteps, "queued" \in DeliveryStatus DEF DeliveryStatus
<1>4. FeedbackColumns(row) = FeedbackColumns(store[r])
    BY <1>1 DEF FeedbackColumns, Conversation
<1>5. store' = [store EXCEPT ![r] = row]
    BY DEF Queue, WriteOwn
<1> HIDE DEF row
<1> QED
    BY <1>1, <1>3, <1>4, <1>5 DEF OwnWrite

\* What a rating does to the row it rates.
Rated(old, new) ==
    /\ new = [old EXCEPT !.feedback = new.feedback,
                         !.feedback_message_id = new.feedback_message_id]
    /\ old.feedback # "none" => new.feedback # "none"
    /\ old.feedback_message_id # None => new.feedback_message_id # None

\* A rating writes one row, in which it changes the rating alone.
LEMMA CommitRatingWrites ==
    ASSUME IInv, NEW r \in Requests, CommitRating(r)
    PROVE  /\ target[r] \in DOMAIN store
           /\ DOMAIN store' = DOMAIN store
           /\ \A c \in DOMAIN store \ {target[r]} : store'[c] = store[c]
           /\ Rated(store[target[r]], store'[target[r]])
           /\ store'[target[r]].feedback =
                  IF MessageOf[r].body = loaded[r].feedback
                  THEN store[target[r]].feedback ELSE MessageOf[r].body
           /\ store'[target[r]].feedback_message_id =
                  IF MessageId(r) = loaded[r].feedback_message_id
                  THEN store[target[r]].feedback_message_id ELSE MessageId(r)
<1> DEFINE c == target[r]
           f == IF MessageOf[r].body = loaded[r].feedback
                THEN store[c].feedback ELSE MessageOf[r].body
           i == IF MessageId(r) = loaded[r].feedback_message_id
                THEN store[c].feedback_message_id ELSE MessageId(r)
           row == [store[c] EXCEPT !.feedback = f, !.feedback_message_id = i]
<1>1. IsRating(r) /\ c \in DOMAIN store
    BY DEF IInv, Stage, RatingSteps, CommitRating, RespondFeedback, Goto
<1>2. store[c] \in Conversation
    BY <1>1 DEF IInv, TypeOK
<1>3. MessageOf[r].body # "none" /\ MessageId(r) # None
    BY ServiceAssumption, StoreAssumption DEF InboundMessage, Body, MessageId
<1>4. store' = [store EXCEPT ![c] = row]
    BY <1>1, <1>2 DEF CommitRating, WithFeedback, Conversation
<1>5. /\ store[c].feedback # "none" => f # "none"
      /\ store[c].feedback_message_id # None => i # None
    BY <1>3
<1> HIDE DEF f, i
<1>6. row.feedback = f /\ row.feedback_message_id = i
    BY <1>2 DEF Conversation
<1>7. Rated(store[c], row)
    BY <1>2, <1>5, <1>6 DEF Rated
<1> HIDE DEF row
<1>8. /\ DOMAIN store' = DOMAIN store
      /\ store'[c] = row
      /\ \A d \in DOMAIN store \ {c} : store'[d] = store[d]
    BY <1>1, <1>4
<1> QED
    BY <1>1, <1>6, <1>7, <1>8 DEF f, i

\* Rating a row is a step of its life.
LEMMA RatedSteps == ASSUME NEW old \in Conversation, NEW new, Rated(old, new) PROVE RowStep(old, new)
    BY DEF Conversation, Rated, RowStep

\* Every step moves every row on in its life, or not at all.
LEMMA RowsMove ==
    ASSUME IInv, RowInv, [Next]_vars
    PROVE  /\ DOMAIN store \subseteq DOMAIN store'
           /\ \A c \in DOMAIN store :
                  /\ RowStep(store[c], store'[c])
                  /\ store[c].feedback_message_id # None => store'[c].feedback_message_id # None
<1> DEFINE Goal == /\ DOMAIN store \subseteq DOMAIN store'
                   /\ \A c \in DOMAIN store :
                        /\ RowStep(store[c], store'[c])
                        /\ store[c].feedback_message_id # None =>
                               store'[c].feedback_message_id # None
<1>1. CASE UNCHANGED store
    BY <1>1, RowStays
<1>2. ASSUME NEW r \in Requests, OwnWrite(r) PROVE Goal
    BY <1>2, RowStays DEF OwnWrite, FeedbackColumns
<1>3. ASSUME NEW r \in Requests, Create(r) PROVE Goal
  <2>1. \A c \in DOMAIN store : store'[c] = store[c]
    BY <1>3 DEF Create, Goto, Inserted, IInv, Stage, AcceptSteps
  <2> QED
    BY <1>3, <2>1, RowStays DEF Create, Inserted
<1>4. ASSUME NEW r \in Requests, CommitRating(r) PROVE Goal
  <2>1. store[target[r]] \in Conversation
    BY <1>4, CommitRatingWrites DEF IInv, TypeOK
  <2> QED
    BY <1>4, <2>1, CommitRatingWrites, RatedSteps, RowStays DEF Rated
<1>5. ASSUME NEW r \in Requests, StepOf(r) PROVE Goal
    BY <1>1, <1>2, <1>3, <1>4, <1>5, OthersRead, BeginWrites, StoreAnswerWrites,
       StoreFailureWrites, RecordSentWrites, RecordFailedWrites, QueueWrites
    DEF Writes
<1>6. CASE Crash \/ Quiet \/ UNCHANGED vars
    BY <1>1, <1>6 DEF Crash, Quiet, vars
<1> QED
    BY <1>5, <1>6 DEF Next, StepOf

-----------------------------------------------------------------------------
(* What the rows say of themselves. *)

\* A row tells how it was answered before and after every write.
LEMMA StatusesTell ==
    ASSUME IInv, RowInv, NEW r \in Requests, StepOf(r)
    PROVE  \A c \in DOMAIN store' : StatusTells(c)'
<1> DEFINE Goal == \A c \in DOMAIN store' : StatusTells(c)'
<1> USE DEF StatusTells
<1>1. CASE UNCHANGED store
    BY <1>1 DEF RowInv
<1>2. CASE Create(r)
  <2>1. /\ \A c \in DOMAIN store : store'[c] = store[c]
        /\ DOMAIN store' = DOMAIN store \cup {r}
        /\ store'[r] = NewConversation(Phone(r), MessageId(r), stamp[r])
    BY <1>2 DEF Create, Goto, Inserted, IInv, Stage, AcceptSteps
  <2> QED
    BY <2>1 DEF RowInv, NewConversation
<1>3. CASE CommitRating(r)
  <2>1. store[target[r]] \in Conversation
    BY <1>3, CommitRatingWrites DEF IInv, TypeOK
  <2>2. /\ store'[target[r]].status = store[target[r]].status
        /\ store'[target[r]].llm_response = store[target[r]].llm_response
        /\ store'[target[r]].error_message = store[target[r]].error_message
    BY <1>3, <2>1, CommitRatingWrites DEF Rated, Conversation
  <2> QED
    BY <1>3, <2>2, CommitRatingWrites DEF RowInv
<1>4. ASSUME OwnWrite(r), StatusTells(r)' PROVE Goal
    BY <1>4 DEF OwnWrite, RowInv
<1>5. CASE Begin(r)
  <2>1. /\ store[r] \in Conversation /\ store[r].status = "received" /\ StatusTells(r)
        /\ store'[r] = [store[r] EXCEPT !.status = "processing"]
    BY <1>5, BeginWrites
    DEF OwnWrite, Begin, WriteOwn, Goto, IInv, TypeOK, RowInv, RowStage
  <2> QED
    BY <1>4, <1>5, <2>1, BeginWrites DEF Conversation
<1>6. CASE StoreAnswer(r)
  <2>1. r \in DOMAIN store /\ store[r] \in Conversation
    BY <1>6, StoreAnswerWrites DEF OwnWrite, IInv, TypeOK
  <2>2. reply[r].about # None
    BY <1>6, StoreAssumption DEF StoreAnswer, Goto, RowInv, RowStage
  <2>3. store'[r] = [store[r] EXCEPT !.status = "completed",
                                     !.llm_response = reply[r].about,
                                     !.error_message = None]
    BY <1>6, <2>1 DEF StoreAnswer, WriteOwn
  <2> QED
    BY <1>4, <1>6, <2>1, <2>2, <2>3, StoreAnswerWrites DEF Conversation
<1>7. CASE StoreFailure(r)
  <2>1. /\ store[r] \in Conversation /\ store[r].llm_response = None
        /\ store'[r] = [store[r] EXCEPT !.status = "failed", !.error_message = "llm"]
    BY <1>7, StoreFailureWrites
    DEF OwnWrite, StoreFailure, WriteOwn, Goto, IInv, TypeOK, Progress
  <2> QED
    BY <1>4, <1>7, <2>1, StoreFailureWrites, StoreAssumption DEF Conversation
<1>8. CASE RecordSent(r) \/ RecordFailed(r) \/ Queue(r)
  <2>1. OwnWrite(r)
    BY <1>8, RecordSentWrites, RecordFailedWrites, QueueWrites
  <2>2. store[r] \in Conversation /\ StatusTells(r)
    BY <2>1 DEF OwnWrite, IInv, TypeOK, RowInv
  <2>3. \/ store'[r] = [store[r] EXCEPT !.provider_response_id = r,
                                        !.delivery_status = receipt[r]]
        \/ store'[r] = [store[r] EXCEPT !.delivery_status = "failed",
                                        !.error_message = "sms"]
        \/ store'[r] = [store[r] EXCEPT !.delivery_status = "queued"]
    BY <1>8, <2>1 DEF OwnWrite, RecordSent, RecordFailed, Queue, WriteOwn, IInv, TypeOK
  <2> QED
    BY <1>4, <2>1, <2>2, <2>3, StoreAssumption, ZenonT(40) DEF Conversation
<1> QED
    BY <1>1, <1>2, <1>3, <1>5, <1>6, <1>7, <1>8, OthersRead DEF Writes

\* A rating is the only rating of its row, and its row the only one it rates.
LEMMA RatingsStayPlaced ==
    ASSUME IInv, RowInv, NEW r \in Requests, StepOf(r)
    PROVE  \A c \in DOMAIN store' : WellRated(c)'
<1> DEFINE Goal == \A c \in DOMAIN store' : WellRated(c)'
<1>1. ASSUME DOMAIN store' = DOMAIN store,
             \A c \in DOMAIN store :
                 /\ FeedbackColumns(store'[c]) = FeedbackColumns(store[c])
                 /\ store'[c].phone_number = store[c].phone_number
      PROVE  Goal
  <2>1. \A c \in DOMAIN store :
            /\ store'[c].feedback = store[c].feedback
            /\ store'[c].feedback_message_id = store[c].feedback_message_id
    BY <1>1 DEF FeedbackColumns
  <2>2. ASSUME NEW c \in DOMAIN store PROVE WellRated(c)'
    <3>1. WellRated(c)
      BY DEF RowInv
    <3>2. ByFeedbackMessageId(store, store[c].feedback_message_id)'
              = ByFeedbackMessageId(store, store[c].feedback_message_id)
      BY <1>1, <2>1 DEF ByFeedbackMessageId
    <3> QED
      BY <1>1, <2>1, <3>1, <3>2 DEF WellRated
  <2> QED
    BY <1>1, <2>2
<1>2. CASE UNCHANGED store
    BY <1>1, <1>2
<1>3. CASE OwnWrite(r)
    BY <1>1, <1>3 DEF OwnWrite, RowStep
<1>4. CASE Create(r)
  <2>1. /\ \A c \in DOMAIN store : store'[c] = store[c]
        /\ DOMAIN store' = DOMAIN store \cup {r}
        /\ store'[r].feedback = "none" /\ store'[r].feedback_message_id = None
    BY <1>4 DEF Create, Goto, Inserted, IInv, Stage, AcceptSteps, NewConversation
  <2>2. ASSUME NEW c \in DOMAIN store PROVE WellRated(c)'
    <3>1. WellRated(c)
      BY DEF RowInv
    <3>2. store[c].feedback_message_id # None =>
              ByFeedbackMessageId(store, store[c].feedback_message_id)'
                  = ByFeedbackMessageId(store, store[c].feedback_message_id)
      BY <2>1 DEF ByFeedbackMessageId
    <3> QED
      BY <2>1, <3>1, <3>2 DEF WellRated
  <2> QED
    BY <2>1, <2>2 DEF WellRated
<1>5. CASE CommitRating(r)
  <2> DEFINE m == MessageId(r)
  <2>0. PICK c \in DOMAIN store : c = target[r]
    BY <1>5, CommitRatingWrites
  <2>1. /\ IsRating(r)
        /\ store[c].phone_number = Phone(r)
        /\ loaded[r].feedback # "none" => store[c].feedback # "none"
        /\ loaded[r].feedback_message_id # None => store[c].feedback_message_id # None
    BY <1>5, <2>0 DEF CommitRating, RespondFeedback, Goto, IInv, Stage, RatingSteps, RowInv, RatingStage
  <2>2. MessageOf[r].body # "none" /\ m # None
    BY ServiceAssumption, StoreAssumption DEF InboundMessage, Body, MessageId
  <2>3. /\ DOMAIN store' = DOMAIN store
        /\ \A d \in DOMAIN store \ {c} : store'[d] = store[d]
        /\ store[c].feedback # "none" => store'[c].feedback # "none"
        /\ store'[c].feedback =
               IF MessageOf[r].body = loaded[r].feedback
               THEN store[c].feedback ELSE MessageOf[r].body
        /\ store'[c].feedback_message_id =
               IF m = loaded[r].feedback_message_id THEN store[c].feedback_message_id ELSE m
    BY <1>5, <2>0, CommitRatingWrites DEF Rated
  <2>4. store'[c].phone_number = store[c].phone_number
    BY <1>5, <2>0, CommitRatingWrites, ZenonT(40) DEF Rated, IInv, TypeOK, Conversation
  <2>5. m # loaded[r].feedback_message_id =>
            \A d \in DOMAIN store \ {c} : store[d].feedback_message_id # m
    BY <1>5, <2>0 DEF CommitRating, FeedbackConflicts, ByFeedbackMessageId
  <2>6. store'[c].feedback # "none" /\ store'[c].feedback_message_id # None
    BY <2>1, <2>2, <2>3, WellRated(c) DEF RowInv, WellRated
  <2>7. ASSUME NEW d \in DOMAIN store, d # c PROVE WellRated(d)'
    <3>1. WellRated(d) /\ WellRated(c) /\ store'[d] = store[d]
      BY <2>1, <2>3, <2>7 DEF RowInv
    <3>2. store[d].feedback_message_id # None =>
              ByFeedbackMessageId(store', store[d].feedback_message_id) = {d}
      BY <2>1, <2>3, <2>5, <3>1 DEF ByFeedbackMessageId, WellRated
    <3> QED
      BY <2>3, <2>7, <3>1, <3>2 DEF WellRated
  <2>8. CASE m = loaded[r].feedback_message_id
    <3>1. WellRated(c) /\ store'[c].feedback_message_id = store[c].feedback_message_id
      BY <2>1, <2>3, <2>8 DEF RowInv
    <3>2. ByFeedbackMessageId(store', store[c].feedback_message_id)
              = ByFeedbackMessageId(store, store[c].feedback_message_id)
      BY <2>1, <2>3, <3>1 DEF ByFeedbackMessageId
    <3>3. WellRated(c)'
      BY <2>1, <2>3, <2>4, <2>6, <3>1, <3>2 DEF WellRated
    <3> QED
      BY <2>3, <2>7, <3>3
  <2>9. CASE m # loaded[r].feedback_message_id
    <3>1. store'[c].feedback_message_id = m
      BY <2>3, <2>9
    <3>2. ByFeedbackMessageId(store', m) = {c}
      BY <2>1, <2>3, <2>5, <2>9, <3>1 DEF ByFeedbackMessageId
    <3>3. WellRated(c)'
      BY <2>1, <2>4, <2>6, <3>1, <3>2 DEF WellRated
    <3> QED
      BY <2>3, <2>7, <3>3
  <2> QED
    BY <2>8, <2>9
<1> QED
    BY <1>2, <1>3, <1>4, <1>5, OthersRead, BeginWrites, StoreAnswerWrites,
       StoreFailureWrites, RecordSentWrites, RecordFailedWrites, QueueWrites
    DEF Writes

-----------------------------------------------------------------------------
(* What a step does to its own request, and to the others. *)

\* Rows that differ at most in the rating.
AlikeButRating(new, old) ==
    /\ new.phone_number = old.phone_number
    /\ new.provider_message_id = old.provider_message_id
    /\ new.status = old.status
    /\ new.llm_response = old.llm_response
    /\ new.error_message = old.error_message
    /\ new.delivery_status = old.delivery_status
    /\ new.provider_response_id = old.provider_response_id

\* Nobody but request q writes to its row, ratings excepted.
LEMMA OthersRate ==
    ASSUME IInv, RowInv, NEW r \in Requests, NEW q \in Requests, q # r, StepOf(r)
    PROVE  /\ q \in DOMAIN store' <=> q \in DOMAIN store
           /\ q \in DOMAIN store => AlikeButRating(store'[q], store[q])
<1>1. CASE UNCHANGED store
    BY <1>1 DEF AlikeButRating
<1>2. CASE OwnWrite(r)
    BY <1>2 DEF OwnWrite, AlikeButRating
<1>3. CASE Create(r)
    BY <1>3 DEF Create, Inserted, AlikeButRating
<1>4. CASE CommitRating(r)
  <2>1. store[target[r]] \in Conversation
    BY <1>4, CommitRatingWrites DEF IInv, TypeOK
  <2>2. AlikeButRating(store'[target[r]], store[target[r]])
    BY <1>4, <2>1, CommitRatingWrites, ZenonT(40) DEF Rated, AlikeButRating, Conversation
  <2> QED
    BY <1>4, <2>2, CommitRatingWrites DEF AlikeButRating
<1> QED
    BY <1>1, <1>2, <1>3, <1>4, OthersRead, BeginWrites, StoreAnswerWrites,
       StoreFailureWrites, RecordSentWrites, RecordFailedWrites, QueueWrites
    DEF Writes

\* What holds of a request and its row is not touched by the steps of others.
LEMMA OthersStay ==
    ASSUME IInv, RowInv, NEW r \in Requests, NEW q \in Requests, q # r, StepOf(r)
    PROVE  (RowStage(q) /\ Channel(q))'
<1>1. UNCHANGED Own(q)
    BY OthersWait
<1>2. /\ q \in DOMAIN store' <=> q \in DOMAIN store
      /\ q \in DOMAIN store => AlikeButRating(store'[q], store[q])
    BY OthersRate
<1>3. pc[q] \in ProcessSteps => q \in DOMAIN store
    BY DEF IInv, Stage
<1>4. RowStage(q) /\ Channel(q)
    BY DEF RowInv
<1>5. RowStage(q)'
    BY <1>1, <1>2, <1>3, <1>4
    DEF RowStage, Own, AlikeButRating, Generating, ProcessSteps, Recorded, Settled
<1>6. Channel(q)'
    BY <1>1, <1>2, <1>4 DEF Channel, Own, AlikeButRating, Completes, StoredReply
<1> QED
    BY <1>5, <1>6

\* Taking a message in: its row, if it gets one, is new.
LEMMA AcceptStays ==
    ASSUME IInv, RowInv, NEW r \in Requests, Post(r) \/ AcceptStep(r) \/ AcceptFails(r)
    PROVE  (RowStage(r) /\ Channel(r))'
<1> USE DEF Goto, AcceptSteps, ProcessSteps, Generating, locals, env
<1>1. r \notin DOMAIN store /\ outbox[r] = <<>>
    BY DEF Post, AcceptStep, LookupDuplicate, LookupRating, LookupQuestion, Create,
           CreateConflict, Refetch, FeedbackDuplicate, FeedbackFresh, NothingToRate,
           PickLatest, LoadRating, CommitRating, CommitConflict, RespondFeedback,
           AcceptFails, IInv, Stage, Mail, Running
<1>2. CASE Create(r)
  <2>1. /\ pc'[r] = "begin" /\ outbox'[r] = <<>> /\ r \in DOMAIN store'
        /\ store'[r] = NewConversation(Phone(r), MessageId(r), stamp[r])
        /\ ~Completes(r)'
    BY <1>1, <1>2 DEF Create, Inserted, Respond, Completes, RowInv, Channel, IInv, TypeOK
  <2> QED
    BY <2>1 DEF RowStage, Channel, NewConversation
<1>3. CASE ~Create(r)
  <2>1. DOMAIN store' = DOMAIN store /\ UNCHANGED outbox
    BY <1>3, CommitRatingWrites
    DEF Post, AcceptStep, LookupDuplicate, LookupRating, LookupQuestion,
           CreateConflict, Refetch, FeedbackDuplicate, FeedbackFresh, NothingToRate,
           PickLatest, LoadRating, CommitRating, CommitConflict, AcceptFails
  <2>2. /\ pc'[r] \in AcceptSteps \cup {"done", "send_ack"}
        /\ pc'[r] = "send_ack" => ReplyMode = "api"
        /\ ~Completes(r)'
    BY <1>3
    DEF Post, AcceptStep, LookupDuplicate, LookupRating, LookupQuestion,
           CreateConflict, Refetch, FeedbackDuplicate, FeedbackFresh, NothingToRate,
           PickLatest, LoadRating, CommitRating, CommitConflict, AcceptFails,
           RespondFeedback, RespondDuplicate, Respond, Completes, RowInv, Channel, IInv, TypeOK
  <2> QED
    BY <1>1, <2>1, <2>2 DEF RowStage, Channel
<1> QED
    BY <1>2, <1>3

\* Processing: the row is where process() left it at its last await.
LEMMA ProcessStays ==
    ASSUME IInv, RowInv, NEW r \in Requests,
           Begin(r) \/ ReadHistory(r) \/ LlmAnswers(r) \/ LlmFails(r) \/ HistoryFails(r)
    PROVE  (RowStage(r) /\ Channel(r))'
<1> USE DEF Goto, ProcessSteps, Generating, locals, env
<1>1. /\ store[r].delivery_status = None /\ store[r].provider_response_id = None
      /\ outbox[r] = <<>> /\ ~Completes(r)
      /\ r \in DOMAIN store /\ store[r] \in Conversation
    BY DEF Begin, ReadHistory, LlmAnswers, LlmFails, HistoryFails, RowInv, RowStage, Channel,
           IInv, Stage, Mail, Running, TypeOK
<1>2. CASE Begin(r)
  <2>1. store'[r] = [store[r] EXCEPT !.status = "processing"]
    BY <1>1, <1>2 DEF Begin, WriteOwn
  <2>2. pc'[r] = "history" /\ outbox'[r] = <<>> /\ UNCHANGED response
    BY <1>1, <1>2 DEF Begin, IInv, TypeOK
  <2> QED
    BY <1>1, <2>1, <2>2 DEF RowStage, Channel, Completes, Conversation
<1>3. CASE ReadHistory(r) \/ LlmFails(r) \/ HistoryFails(r)
    BY <1>1, <1>3, SMTT(30)
    DEF ReadHistory, LlmFails, HistoryFails, RowInv, RowStage, Channel, Completes, IInv, TypeOK
<1>4. CASE LlmAnswers(r)
  <2>1. PICK last \in prompt[r] : reply' = [reply EXCEPT ![r] = Answer(last.user)]
    BY <1>4 DEF LlmAnswers
  <2>2. last.user \in Requests
    BY DEF IInv, TypeOK, Turn
  <2>3. reply'[r].about \in Requests
    BY <2>1, <2>2 DEF Answer, IInv, TypeOK
  <2> QED
    BY <1>1, <1>4, <2>3 DEF LlmAnswers, RowInv, RowStage, Channel, Completes, IInv, TypeOK
<1> QED
    BY <1>2, <1>3, <1>4

\* Storing the outcome: api mode goes on to send, twiml mode to respond.
LEMMA StoreStays ==
    ASSUME IInv, RowInv, NEW r \in Requests, StoreAnswer(r) \/ StoreFailure(r)
    PROVE  (RowStage(r) /\ Channel(r))'
<1> USE DEF Goto, ProcessSteps, Generating
<1>1. /\ store[r].delivery_status = None /\ store[r].provider_response_id = None
      /\ outbox[r] = <<>> /\ ~Completes(r)
      /\ r \in DOMAIN store /\ store[r] \in Conversation
    BY DEF StoreAnswer, StoreFailure, RowInv, RowStage, Channel, IInv, Stage, Mail, Running, TypeOK
<1>2. store'[r].delivery_status = None /\ store'[r].provider_response_id = None
    BY <1>1, ZenonT(40) DEF StoreAnswer, StoreFailure, WriteOwn, Conversation
<1>3. /\ pc'[r] = IF ReplyMode = "api" THEN "send" ELSE "queue"
      /\ outbox'[r] = <<>> /\ UNCHANGED response
    BY <1>1 DEF StoreAnswer, StoreFailure, AfterStoring, IInv, TypeOK
<1> QED
    BY <1>1, <1>2, <1>3, ServiceAssumption DEF RowStage, Channel, Completes

\* Sending: only what reports a status goes on to record one.
LEMMA SendStays ==
    ASSUME IInv, RowInv, NEW r \in Requests, CarrierStep(r)
    PROVE  (RowStage(r) /\ Channel(r))'
<1> USE DEF Goto, ProcessSteps, Generating, locals, env
<1>1. outbox[r] = <<>> /\ ~Completes(r) /\ ReplyMode = "api"
    BY DEF CarrierStep, SendSucceeds, SendRejected, SendLeaks, SendAck,
           RowInv, Channel, IInv, Mail, Running
<1>2. HandOver(r) => outbox'[r] # <<>>
    BY <1>1 DEF HandOver, IInv, TypeOK
<1>3. CASE SendSucceeds(r)
  <2>1. PICK status \in SendStatuses : receipt' = [receipt EXCEPT ![r] = status]
    BY <1>3 DEF SendSucceeds
  <2>2. receipt'[r] # None
    BY <2>1, ServiceAssumption, StoreAssumption DEF IInv, TypeOK
  <2> QED
    BY <1>1, <1>2, <1>3, <2>2 DEF SendSucceeds, RowInv, RowStage, Channel, Completes, IInv, TypeOK
<1>4. CASE SendRejected(r) \/ SendLeaks(r)
    BY <1>1, <1>4
    DEF SendRejected, SendLeaks, RowInv, RowStage, Channel, Completes, IInv, TypeOK
<1>5. CASE SendAck(r)
  <2>1. r \notin DOMAIN store
    BY <1>5 DEF SendAck, IInv, Stage, RatingSteps, RowOfRequest
  <2> QED
    BY <1>1, <1>5, <2>1 DEF SendAck, RowStage, Channel, Completes, IInv, TypeOK
<1> QED
    BY <1>3, <1>4, <1>5 DEF CarrierStep

\* Recording the delivery completes the record.
LEMMA RecordStays ==
    ASSUME IInv, RowInv, NEW r \in Requests, RecordSent(r) \/ RecordFailed(r) \/ Queue(r)
    PROVE  (RowStage(r) /\ Channel(r))'
<1> USE DEF Goto, ProcessSteps, Generating, locals, env
<1>1. /\ store[r].provider_response_id = None /\ ~Completes(r)
      /\ r \in DOMAIN store /\ store[r] \in Conversation
      /\ Agrees(r, reply[r]) /\ StatusTells(r)
    BY DEF RecordSent, RecordFailed, Queue, RowInv, RowStage, Channel, IInv, Stage, Progress, TypeOK
<1>2. pc'[r] = "done" /\ UNCHANGED outbox /\ DOMAIN store' = DOMAIN store
    BY <1>1 DEF RecordSent, RecordFailed, Queue, WriteOwn, IInv, TypeOK
<1>3. outbox[r] # <<>> => ReplyMode = "api"
    BY DEF RowInv, Channel
<1>4. CASE RecordSent(r)
  <2>1. receipt[r] # None /\ outbox[r] # <<>> /\ r # None
    BY <1>4, StoreAssumption DEF RecordSent, RowInv, RowStage
  <2>2. store'[r] = [store[r] EXCEPT !.provider_response_id = r,
                                     !.delivery_status = receipt[r]]
    BY <1>1, <1>4 DEF RecordSent, WriteOwn
  <2>3. Recorded(r)'
    BY <1>1, <1>2, <2>1, <2>2 DEF Recorded, Settled, Agrees, StatusTells, Conversation
  <2> QED
    BY <1>1, <1>2, <1>3, <1>4, <2>3 DEF RecordSent, RowStage, Channel, Completes
<1>5. CASE RecordFailed(r)
  <2>1. outbox[r] = <<>> /\ "failed" # None /\ "sms" # None
    BY <1>5, StoreAssumption DEF RecordFailed, IInv, Mail, Running, DeliveryStatus
  <2>2. store'[r] = [store[r] EXCEPT !.delivery_status = "failed", !.error_message = "sms"]
    BY <1>1, <1>5 DEF RecordFailed, WriteOwn
  <2>3. Recorded(r)'
    BY <1>1, <1>2, <2>1, <2>2 DEF Recorded, Settled, Agrees, StatusTells, Conversation
  <2> QED
    BY <1>1, <1>2, <1>3, <1>5, <2>3 DEF RecordFailed, RowStage, Channel, Completes
<1>6. CASE Queue(r)
  <2>1. outbox[r] = <<>> /\ "queued" # None /\ ReplyMode = "twiml"
    BY <1>6, StoreAssumption DEF Queue, IInv, Mail, Running, DeliveryStatus, RowInv, Channel
  <2>2. store'[r] = [store[r] EXCEPT !.delivery_status = "queued"]
    BY <1>1, <1>6 DEF Queue, WriteOwn
  <2>3. Recorded(r)'
    BY <1>1, <1>2, <2>1, <2>2 DEF Recorded, Settled, Agrees, StatusTells, Conversation
  <2>4. StoredReply(r)' = reply[r]
    BY <1>1, <2>2 DEF StoredReply, Agrees, StatusTells, Conversation
  <2>5. response'[r].reply = reply[r] /\ store'[r].delivery_status = "queued"
    BY <1>1, <1>6, <2>2 DEF Queue, Respond, IInv, TypeOK, Conversation
  <2> QED
    BY <1>1, <1>2, <2>1, <2>3, <2>4, <2>5 DEF RowStage, Channel, Completes
<1> QED
    BY <1>4, <1>5, <1>6

\* A processing that fails ends outside RowStage, and responds with no reply.
LEMMA ProcessFailsStays ==
    ASSUME IInv, RowInv, NEW r \in Requests, ProcessFails(r)
    PROVE  (RowStage(r) /\ Channel(r))'
<1>1. pc'[r] = "aborted" /\ UNCHANGED outbox
    BY DEF ProcessFails, Goto, IInv, TypeOK
<1>2. ~Completes(r)'
    BY DEF ProcessFails, Goto, Respond, Completes, IInv, TypeOK, RowInv, Channel
<1> QED
    BY <1>1, <1>2 DEF RowStage, Channel, RowInv, ProcessSteps, Generating

-----------------------------------------------------------------------------
(* Ratings and prompts: what was read stays true of rows that move on. *)

\* A rating finds its row where it picked it, and what it loaded not undone.
LEMMA RatingStays ==
    ASSUME IInv, RowInv, NEW r \in Requests, NEW q \in Requests, StepOf(r)
    PROVE  RatingStage(q)'
<1>1. /\ \A c \in DOMAIN store :
             /\ store'[c].phone_number = store[c].phone_number
             /\ store[c].feedback # "none" => store'[c].feedback # "none"
             /\ store[c].feedback_message_id # None => store'[c].feedback_message_id # None
    BY RowsMove DEF Next, StepOf, RowStep
<1>2. CASE q # r
  <2>1. UNCHANGED Own(q)
    BY <1>2, OthersWait
  <2>2. pc[q] \in {"load", "commit"} => target[q] \in DOMAIN store
    BY DEF IInv, Stage
  <2> QED
    BY <1>1, <2>1, <2>2 DEF RowInv, RatingStage, Own
<1>3. CASE q = r
  <2> USE DEF Goto
  <2>1. CASE PickLatest(r)
    <3>1. PICK c \in LatestForPhone(store, Phone(r)) : target' = [target EXCEPT ![r] = c]
      BY <2>1 DEF PickLatest
    <3>2. store[c].phone_number = Phone(r)
      BY <3>1 DEF LatestForPhone, ListByPhone, OfPhone
    <3> QED
      BY <1>3, <2>1, <3>1, <3>2 DEF PickLatest, RatingStage, IInv, TypeOK
  <2>2. CASE LoadRating(r)
    <3>1. loaded'[r] = FeedbackColumns(store[target[r]]) /\ pc'[r] = "commit"
      BY <2>2 DEF LoadRating, IInv, TypeOK
    <3> QED
      BY <1>3, <2>2, <3>1 DEF LoadRating, FeedbackColumns, RowInv, RatingStage
  <2>3. CASE ~PickLatest(r) /\ ~LoadRating(r)
    <3>1. pc'[r] \notin {"load", "commit"}
      <4>1. CASE Post(r) \/ AcceptStep(r)
        BY <2>3, <4>1
        DEF Post, AcceptStep, LookupDuplicate, LookupRating, LookupQuestion, Create,
            CreateConflict, Refetch, FeedbackDuplicate, FeedbackFresh, NothingToRate,
            CommitRating, CommitConflict, RespondFeedback, IInv, TypeOK
      <4>2. CASE ProcessStep(r) \/ LlmAnswers(r) \/ LlmFails(r)
        BY <4>2
        DEF ProcessStep, Begin, ReadHistory, LlmDeadline, LlmAnswers, LlmFails, StoreAnswer,
            StoreFailure, AfterStoring, RecordSent, RecordFailed, Queue, IInv, TypeOK
      <4>3. CASE CarrierStep(r) \/ FaultStep(r)
        BY <4>3
        DEF CarrierStep, SendSucceeds, SendRejected, SendLeaks, SendAck,
            FaultStep, AcceptFails, HistoryFails, ProcessFails, IInv, TypeOK
      <4> QED
        BY <4>1, <4>2, <4>3 DEF StepOf
    <3> QED
      BY <1>3, <3>1 DEF RatingStage
  <2> QED
    BY <2>1, <2>2, <2>3
<1> QED
    BY <1>2, <1>3

\* A prompt that is not rewritten stays in scope while the rows move on.
LEMMA PromptKept ==
    ASSUME IInv, RowInv, NEW q \in Requests, [Next]_vars, prompt'[q] = prompt[q]
    PROVE  InScope(q)'
<1>1. InScope(q)
    BY DEF RowInv
<1>2. ASSUME NEW turn \in prompt[q] PROVE TrueTurn(q, turn)'
  <2>1. TrueTurn(q, turn)
    BY <1>1 DEF InScope
  <2>2. RowStep(store[turn.user], store'[turn.user]) /\ turn.user \in DOMAIN store'
    BY <2>1, RowsMove DEF TrueTurn
  <2> QED
    BY <2>1, <2>2 DEF TrueTurn, RowStep
<1> QED
    BY <1>1, <1>2 DEF InScope

\* The tables of this specification are listable.
LEMMA StoreListable == ASSUME IInv, RowInv PROVE Listable(store)
    BY StoreAssumption DEF IInv, TypeOK, RowInv, Listable, Conversation

\* The history is a page of the number's conversations, or the question itself.
LEMMA ReadHistoryScope == ASSUME IInv, RowInv, NEW r \in Requests, ReadHistory(r) PROVE InScope(r)'
<1> DEFINE turns == [c \in History(r) |-> [user |-> c, assistant |-> store[c].llm_response]]
           most == IF HistoryLimit = 0 THEN 1 ELSE HistoryLimit
<1>1. r \in DOMAIN store /\ store[r].phone_number = Phone(r)
    BY DEF ReadHistory, Goto, IInv, Stage, ProcessSteps, RowOfRequest
<1>2. \A c \in History(r) : c \in DOMAIN store /\ store[c].phone_number = Phone(r)
    BY <1>1 DEF History, RecentForPhone, ListByPhone, OfPhone
<1>3. IsFiniteSet(History(r)) /\ Cardinality(History(r)) <= most
  <2>1. HistoryLimit \in Nat
    BY ServiceAssumption
  <2>2. /\ IsFiniteSet(RecentForPhone(store, Phone(r), HistoryLimit))
        /\ Cardinality(RecentForPhone(store, Phone(r), HistoryLimit)) <= HistoryLimit
    BY <2>1, StoreListable, PageSize DEF RecentForPhone
  <2>3. IsFiniteSet({r}) /\ Cardinality({r}) = 1
    BY FS_Singleton
  <2>4. HistoryLimit <= most /\ 1 <= most
    BY <2>1
  <2>5. CASE RecentForPhone(store, Phone(r), HistoryLimit) = {}
    BY <2>3, <2>4, <2>5 DEF History
  <2>6. CASE RecentForPhone(store, Phone(r), HistoryLimit) # {}
    <3>1. Cardinality(RecentForPhone(store, Phone(r), HistoryLimit)) \in Nat
      BY <2>2, FS_CardinalityType
    <3> QED
      BY <2>1, <2>2, <2>4, <2>6, <3>1 DEF History
  <2> QED
    BY <2>5, <2>6
<1>4. prompt'[r] = {turns[c] : c \in History(r)} /\ UNCHANGED store
    BY DEF ReadHistory, IInv, TypeOK
<1>5. turns \in Surjection(History(r), prompt'[r])
    BY <1>4 DEF Surjection
<1> HIDE DEF turns
<1>6. Cardinality(prompt'[r]) <= Cardinality(History(r)) /\ IsFiniteSet(prompt'[r])
    BY <1>3, <1>5, FS_Surjection
<1>7. Cardinality(prompt'[r]) <= most
  <2>1. /\ Cardinality(prompt'[r]) \in Nat /\ Cardinality(History(r)) \in Nat
        /\ most \in Nat
    BY <1>3, <1>6, FS_CardinalityType, ServiceAssumption
  <2> HIDE DEF most
  <2> QED
    BY <1>3, <1>6, <2>1
<1>8. \A turn \in prompt'[r] : TrueTurn(r, turn)'
    BY <1>2, <1>4 DEF TrueTurn, turns
<1> QED
    BY <1>7, <1>8 DEF InScope

\* The call to the LLM lets go of the prompt.
LEMMA LlmScope ==
    ASSUME IInv, RowInv, NEW r \in Requests, LlmAnswers(r) \/ LlmFails(r)
    PROVE  InScope(r)'
<1>1. prompt'[r] = {}
    BY DEF LlmAnswers, LlmFails, IInv, TypeOK
<1>2. Cardinality(prompt'[r]) = 0
    BY <1>1, FS_EmptySet
<1>3. HistoryLimit \in Nat
    BY ServiceAssumption
<1> HIDE DEF InScope
<1>4. 0 <= (IF HistoryLimit = 0 THEN 1 ELSE HistoryLimit)
    BY <1>3
<1> QED
    BY <1>1, <1>2, <1>4 DEF InScope

\* No step puts anything into a prompt that does not belong there.
LEMMA PromptStays ==
    ASSUME IInv, RowInv, NEW r \in Requests, NEW q \in Requests, StepOf(r)
    PROVE  InScope(q)'
<1>1. [Next]_vars
    BY DEF Next, StepOf
<1>2. CASE q # r
    BY <1>1, <1>2, OthersWait, PromptKept DEF Own
<1>3. CASE q = r /\ (LlmAnswers(r) \/ LlmFails(r) \/ ReadHistory(r))
    BY <1>3, LlmScope, ReadHistoryScope
<1>4. CASE q = r /\ ~(LlmAnswers(r) \/ LlmFails(r) \/ ReadHistory(r))
  <2>1. UNCHANGED prompt
    <3>1. CASE Post(r) \/ AcceptStep(r)
      BY <3>1
      DEF Post, AcceptStep, LookupDuplicate, LookupRating, LookupQuestion, Create,
          CreateConflict, Refetch, FeedbackDuplicate, FeedbackFresh, NothingToRate,
          PickLatest, LoadRating, CommitRating, CommitConflict, locals
    <3>2. CASE ProcessStep(r) \/ CarrierStep(r) \/ FaultStep(r)
      BY <1>4, <3>2
      DEF ProcessStep, Begin, LlmDeadline, StoreAnswer, StoreFailure, RecordSent,
          RecordFailed, Queue, CarrierStep, SendSucceeds, SendRejected, SendLeaks, SendAck,
          FaultStep, AcceptFails, HistoryFails, ProcessFails, locals
    <3> QED
      BY <1>4, <3>1, <3>2 DEF StepOf
  <2> QED
    BY <1>1, <1>4, <2>1, PromptKept
<1> QED
    BY <1>2, <1>3, <1>4

-----------------------------------------------------------------------------
(* The theorems. *)

\* At first there is no row.
LEMMA InitRowInv == Init => RowInv
<1> SUFFICES ASSUME Init PROVE RowInv
    OBVIOUS
<1>1. IsFiniteSet(DOMAIN store) /\ DOMAIN store = {}
    BY FS_EmptySet DEF Init
<1>2. ASSUME NEW r \in Requests PROVE RowStage(r) /\ Channel(r) /\ RatingStage(r)
    BY <1>1 DEF Init, RowStage, Channel, RatingStage, Completes, Generating, ProcessSteps
<1>3. ASSUME NEW r \in Requests PROVE InScope(r)
  <2>1. prompt[r] = {} /\ Cardinality({}) = 0
    BY FS_EmptySet DEF Init
  <2>2. HistoryLimit \in Nat
    BY ServiceAssumption
  <2>3. 0 <= (IF HistoryLimit = 0 THEN 1 ELSE HistoryLimit)
    BY <2>2
  <2> QED
    BY <2>1, <2>3 DEF InScope
<1> QED
    BY <1>1, <1>2, <1>3 DEF RowInv

\* A step of a request keeps the invariant.
LEMMA StepRowInv == ASSUME IInv, RowInv, NEW r \in Requests, StepOf(r) PROVE RowInv'
<1>1. IsFiniteSet(DOMAIN store)'
  <2>1. DOMAIN store' = DOMAIN store \/ DOMAIN store' = DOMAIN store \cup {r}
    BY OthersRead, BeginWrites, StoreAnswerWrites, StoreFailureWrites, RecordSentWrites,
       RecordFailedWrites, QueueWrites, CommitRatingWrites
    DEF Writes, OwnWrite, Create, Inserted
  <2>2. IsFiniteSet(DOMAIN store) /\ IsFiniteSet(DOMAIN store \cup {r})
    BY FS_AddElement DEF RowInv
  <2> QED
    BY <2>1, <2>2
<1>2. (\A c \in DOMAIN store : StatusTells(c) /\ WellRated(c))'
    BY StatusesTell, RatingsStayPlaced
<1>3. (RowStage(r) /\ Channel(r))'
    BY AcceptStays, ProcessStays, StoreStays, SendStays, RecordStays, ProcessFailsStays
    DEF StepOf, ProcessStep, LlmDeadline, FaultStep
<1>4. ASSUME NEW q \in Requests
      PROVE  (RowStage(q) /\ Channel(q) /\ RatingStage(q) /\ InScope(q))'
    BY <1>3, OthersStay, RatingStays, PromptStays
<1> QED
    BY <1>1, <1>2, <1>4 DEF RowInv

\* A crash, or nothing: the rows and what was read of them stay.
LEMMA CrashRowInv == ASSUME IInv, RowInv, Crash \/ UNCHANGED vars PROVE RowInv'
<1>1. UNCHANGED <<store, outbox, response, target, loaded, prompt, reply, receipt>>
    BY DEF Crash, vars, locals
<1>2. ASSUME NEW q \in Requests PROVE pc'[q] = pc[q] \/ (pc'[q] = "lost" /\ pc[q] \in Running)
    BY DEF Crash, vars
<1>3. (\A c \in DOMAIN store : StatusTells(c) /\ WellRated(c))'
    BY <1>1 DEF RowInv, StatusTells, WellRated, ByFeedbackMessageId
<1>4. ASSUME NEW q \in Requests PROVE (RowStage(q) /\ Channel(q) /\ RatingStage(q))'
    BY <1>1, <1>2
    DEF RowInv, RowStage, Channel, RatingStage, Completes, StoredReply, Recorded, Settled,
        Generating, Running, AcceptSteps, ProcessSteps
<1>5. ASSUME NEW q \in Requests PROVE InScope(q)'
    BY <1>1 DEF RowInv, InScope, TrueTurn
<1> QED
    BY <1>1, <1>3, <1>4, <1>5 DEF RowInv

\* Every step keeps the invariant.
LEMMA NextRowInv == ASSUME IInv, RowInv, [Next]_vars PROVE RowInv'
    BY StepRowInv, CrashRowInv DEF Next, StepOf, Quiet

\* RowInv holds in every reachable state.
THEOREM RowInvariance == Spec => []RowInv
<1>1. IInv /\ RowInv /\ [Next]_vars => RowInv'
    BY NextRowInv
<1> QED
    BY InitRowInv, Invariance, <1>1, PTL DEF Spec

\* Whoever writes to a row, and whatever fails: it is never removed, its status
\* only moves on, its answer is written once, its delivery recorded once and
\* after the answer, and a rating and an answer never undo each other.
THEOREM RowsLive == Spec => Lifecycle
<1>1. IInv /\ RowInv /\ [Next]_vars =>
          [ /\ DOMAIN store \subseteq DOMAIN store'
            /\ \A c \in DOMAIN store : RowStep(store[c], store'[c]) ]_store
    BY RowsMove
<1> QED
    BY Invariance, RowInvariance, <1>1, PTL DEF Spec, Lifecycle

\* When process() has returned, the row tells the whole story.
THEOREM RecordsSettle == Spec => []SettledRecord
<1>1. IInv /\ RowInv => SettledRecord
    BY DEF IInv, TypeOK, RowInv, RowStage, SettledRecord
<1> QED
    BY Invariance, RowInvariance, <1>1, PTL

\* Ratings that overlap with one another and with new conversations end up on a
\* conversation of the number that texted them, each on one only.
THEOREM RatingsArePlaced == Spec => []RatingsWellPlaced
<1>1. RowInv => RatingsWellPlaced
    BY DEF RowInv, RatingsWellPlaced
<1> QED
    BY RowInvariance, <1>1, PTL

\* The LLM sees no other number's conversations, no more than the limit, and no
\* answer that its conversation does not have.
THEOREM PromptsStayInScope == Spec => []PromptScope
<1>1. RowInv => PromptScope
    BY DEF RowInv, PromptScope
<1> QED
    BY RowInvariance, <1>1, PTL

\* In twiml mode nothing is sent, and the reply in a response is the stored one.
THEOREM TwimlReplies == Spec => []RepliesInTheResponse
<1>1. RowInv => RepliesInTheResponse
    BY ServiceAssumption DEF RowInv, Channel, RepliesInTheResponse
<1> QED
    BY RowInvariance, <1>1, PTL

-----------------------------------------------------------------------------
(* Duplicates. *)

\* What was taken in stays taken in: a response that acknowledges is never replaced.
LEMMA TakenStays ==
    ASSUME IInv, RowInv, DuplicateInv, NEW r \in Requests, StepOf(r),
           NEW q \in Requests, TakenIn(q)
    PROVE  TakenIn(q)'
<1>1. CASE ~IsRating(q)
  <2>1. DOMAIN store \subseteq DOMAIN store'
    BY RowsMove DEF Next, StepOf
  <2> QED
    BY <1>1, <2>1 DEF TakenIn, IsRating
<1>2. CASE IsRating(q) /\ q # r
  <2>1. UNCHANGED response[q]
    BY <1>2, OthersWait DEF Own
  <2> QED
    BY <1>2, <2>1 DEF TakenIn, IsRating
<1>3. CASE IsRating(q) /\ q = r
  <2>1. response[r] # None
    BY <1>3 DEF TakenIn
  <2>2. pc[r] \notin {"idle"} \cup AcceptSteps
    BY <2>1 DEF DuplicateInv
  <2>3. pc[r] \notin ProcessSteps
    BY <1>3 DEF IInv, Stage, RowOfRequest
  <2>4. UNCHANGED response
    <3> USE <2>2, <2>3 DEF Goto, AcceptSteps, ProcessSteps
    <3>1. ~Post(r) /\ ~AcceptFails(r)
      BY DEF Post, AcceptFails
    <3>2. ~AcceptStep(r)
      BY DEF AcceptStep, LookupDuplicate, LookupRating, LookupQuestion, Create,
             CreateConflict, Refetch, FeedbackDuplicate, FeedbackFresh, NothingToRate,
             PickLatest, LoadRating, CommitRating, CommitConflict, RespondFeedback
    <3>3. ~ProcessStep(r) /\ ~LlmAnswers(r) /\ ~LlmFails(r)
      BY DEF ProcessStep, Begin, ReadHistory, LlmDeadline, LlmAnswers, LlmFails,
             StoreAnswer, StoreFailure, RecordSent, RecordFailed, Queue
    <3>4. ~HistoryFails(r) /\ ~ProcessFails(r)
      BY DEF HistoryFails, ProcessFails
    <3>5. CarrierStep(r)
      BY <3>1, <3>2, <3>3, <3>4 DEF StepOf, FaultStep
    <3> QED
      BY <3>5 DEF CarrierStep, SendSucceeds, SendRejected, SendLeaks, SendAck
  <2> QED
    BY <1>3, <2>4 DEF TakenIn, IsRating
<1> QED
  BY <1>1, <1>2, <1>3

\* A request that is still being taken in has not been answered.
LEMMA StaysUnanswered ==
    ASSUME IInv, DuplicateInv, NEW r \in Requests, StepOf(r), NEW q \in Requests,
           pc'[q] \in {"idle"} \cup AcceptSteps
    PROVE  response'[q] = None
<1>1. CASE q # r
  BY <1>1, OthersWait DEF Own, DuplicateInv
<1>2. CASE q = r
  <2> USE <1>2 DEF Goto, AcceptSteps, ProcessSteps, DuplicateInv, IInv, TypeOK
  <2>1. CASE Post(r) \/ AcceptStep(r)
    BY <2>1
    DEF Post, AcceptStep, LookupDuplicate, LookupRating, LookupQuestion, Create,
        CreateConflict, Refetch, FeedbackDuplicate, FeedbackFresh, NothingToRate,
        PickLatest, LoadRating, CommitRating, CommitConflict, RespondFeedback
  <2>2. CASE ProcessStep(r) \/ LlmAnswers(r) \/ LlmFails(r)
    BY <2>2
    DEF ProcessStep, Begin, ReadHistory, LlmDeadline, LlmAnswers, LlmFails,
        StoreAnswer, StoreFailure, AfterStoring, RecordSent, RecordFailed, Queue
  <2>3. CASE CarrierStep(r) \/ FaultStep(r)
    BY <2>3
    DEF CarrierStep, SendSucceeds, SendRejected, SendLeaks, SendAck,
        FaultStep, AcceptFails, HistoryFails, ProcessFails
  <2> QED
    BY <2>1, <2>2, <2>3 DEF StepOf
<1> QED
  BY <1>1, <1>2

\* A rating that commits acknowledges itself.
LEMMA CommitAcknowledges ==
    ASSUME IInv, NEW r \in Requests, CommitRating(r)
    PROVE  MessageId(r) \in Acknowledged'
<1>1. IsRating(r)
  BY DEF IInv, Stage, RatingSteps, CommitRating, RespondFeedback, Goto
<1>2. response'[r] = [status |-> "feedback", conversation |-> target[r], reply |-> FeedbackAck]
  BY DEF CommitRating, RespondFeedback, Respond, IInv, TypeOK
<1>3. response'[r] # None
  <2>1. target[r] \in Requests \cup {None}
    BY DEF IInv, TypeOK
  <2>2. FeedbackAck \in Text
    BY DEF FeedbackAck, Text
  <2>3. response'[r] \in Response
    BY <1>2, <2>1, <2>2 DEF Response
  <2> QED
    BY <2>3, ResponseAssumption
<1> QED
  BY <1>1, <1>2, <1>3 DEF Acknowledged, TakenIn, IsRating, MessageId

\* A message that is on a row as its rating was acknowledged.
LEMMA RatingsStayAcknowledged ==
    ASSUME IInv, RowInv, DuplicateInv, NEW r \in Requests, StepOf(r)
    PROVE  \A c \in DOMAIN store' :
               store'[c].feedback_message_id # None =>
                   store'[c].feedback_message_id \in Acknowledged'
<1> DEFINE Goal == \A c \in DOMAIN store' :
                       store'[c].feedback_message_id # None =>
                           store'[c].feedback_message_id \in Acknowledged'
<1>1. Acknowledged \subseteq Acknowledged'
  BY TakenStays DEF Acknowledged, IsRating, MessageId
<1>2. ASSUME NEW c \in DOMAIN store', c \in DOMAIN store,
             store'[c].feedback_message_id = store[c].feedback_message_id,
             store'[c].feedback_message_id # None
      PROVE  store'[c].feedback_message_id \in Acknowledged'
  BY <1>1, <1>2 DEF DuplicateInv
<1>3. CASE UNCHANGED store
  BY <1>2, <1>3
<1>4. CASE OwnWrite(r)
  BY <1>2, <1>4 DEF OwnWrite, FeedbackColumns
<1>5. CASE Create(r)
  <2>1. /\ DOMAIN store' = DOMAIN store \cup {r}
        /\ \A c \in DOMAIN store : store'[c] = store[c]
        /\ store'[r].feedback_message_id = None
    BY <1>5 DEF Create, Goto, Inserted, NewConversation, IInv, Stage, AcceptSteps
  <2> QED
    BY <1>2, <2>1
<1>6. CASE CommitRating(r)
  <2>1. \A c \in DOMAIN store : \/ store'[c].feedback_message_id = store[c].feedback_message_id
                                \/ store'[c].feedback_message_id = MessageId(r)
    BY <1>6, CommitRatingWrites
  <2>2. DOMAIN store' = DOMAIN store
    BY <1>6, CommitRatingWrites
  <2> QED
    BY <1>2, <1>6, <2>1, <2>2, CommitAcknowledges
<1> QED
  BY <1>3, <1>4, <1>5, <1>6, OthersRead, BeginWrites, StoreAnswerWrites,
     StoreFailureWrites, RecordSentWrites, RecordFailedWrites, QueueWrites
  DEF Writes

\* The steps that call a delivery a duplicate.
Refuses(r) ==
    \/ LookupDuplicate(r) \/ Refetch(r)
    \/ FeedbackDuplicate(r) \/ CommitConflict(r)

\* They have found the message on a row, which another delivery put there.
LEMMA RefusedHasAnOriginal ==
    ASSUME IInv, RowInv, DuplicateInv, NEW r \in Requests, Refuses(r)
    PROVE  \E q \in Requests \ {r} : MessageId(q) = MessageId(r) /\ TakenIn(q)
<1>1. pc[r] \in AcceptSteps
  BY DEF Refuses, LookupDuplicate, Refetch, FeedbackDuplicate, CommitConflict, Goto, AcceptSteps
<1>2. r \notin DOMAIN store /\ response[r] = None
  BY <1>1 DEF IInv, Stage, DuplicateInv
<1>3. CASE LookupDuplicate(r) \/ Refetch(r)
  <2>1. PICK c \in DOMAIN store : store[c].provider_message_id = MessageId(r)
    BY <1>3 DEF LookupDuplicate, Refetch, ByProviderMessageId
  <2>2. c \in Requests /\ MessageId(c) = MessageId(r) /\ TakenIn(c)
    BY <2>1 DEF IInv, TypeOK, RowOfRequest, TakenIn
  <2> QED
    BY <1>2, <2>1, <2>2
<1>4. CASE FeedbackDuplicate(r) \/ CommitConflict(r)
  <2>1. PICK c \in DOMAIN store : store[c].feedback_message_id = MessageId(r)
    BY <1>4 DEF FeedbackDuplicate, CommitConflict, FeedbackConflicts, ByFeedbackMessageId
  <2>2. MessageId(r) # None
    BY ServiceAssumption, StoreAssumption DEF InboundMessage, MessageId
  <2>3. PICK q \in Requests : IsRating(q) /\ MessageId(q) = MessageId(r) /\ TakenIn(q)
    BY <2>1, <2>2 DEF DuplicateInv, Acknowledged
  <2>4. q # r
    BY <1>2, <2>3 DEF TakenIn
  <2> QED
    BY <2>3, <2>4
<1> QED
  BY <1>3, <1>4 DEF Refuses

\* No other step calls one a duplicate.
LEMMA OnlyRefusalsRefuse ==
    ASSUME IInv, NEW r \in Requests, StepOf(r), ~Refuses(r),
           response'[r] # None, response'[r].status = "duplicate"
    PROVE  response'[r] = response[r]
<1> USE DEF IInv, TypeOK, Respond, Refuses
<1>1. CASE Post(r) \/ AcceptStep(r)
  BY <1>1
  DEF Post, AcceptStep, LookupRating, LookupQuestion, Create, CreateConflict,
      FeedbackFresh, NothingToRate, PickLatest, LoadRating, CommitRating, RespondFeedback
<1>2. CASE ProcessStep(r) \/ LlmAnswers(r) \/ LlmFails(r)
  BY <1>2
  DEF ProcessStep, Begin, ReadHistory, LlmDeadline, LlmAnswers, LlmFails,
      StoreAnswer, StoreFailure, RecordSent, RecordFailed, Queue
<1>3. CASE CarrierStep(r) \/ FaultStep(r)
  BY <1>3
  DEF CarrierStep, SendSucceeds, SendRejected, SendLeaks, SendAck,
      FaultStep, AcceptFails, HistoryFails, ProcessFails
<1> QED
  BY <1>1, <1>2, <1>3 DEF StepOf

\* Every step of a request keeps the invariant.
LEMMA StepDuplicateInv ==
    ASSUME IInv, RowInv, DuplicateInv, NEW r \in Requests, StepOf(r)
    PROVE  DuplicateInv'
<1>1. ASSUME NEW x \in Requests, response'[x] # None, response'[x].status = "duplicate"
      PROVE  \E q \in Requests \ {x} : MessageId(q) = MessageId(x) /\ TakenIn(q)'
  <2>1. CASE response'[x] = response[x]
    <3>1. PICK q \in Requests \ {x} : MessageId(q) = MessageId(x) /\ TakenIn(q)
      BY <1>1, <2>1 DEF DuplicateInv, DuplicatesHaveAnOriginal
    <3> QED
      BY <3>1, TakenStays
  <2>2. CASE response'[x] # response[x]
    <3>1. x = r
      BY <2>2, OthersWait DEF Own
    <3>2. Refuses(r)
      BY <1>1, <2>2, <3>1, OnlyRefusalsRefuse
    <3>3. PICK q \in Requests \ {r} : MessageId(q) = MessageId(r) /\ TakenIn(q)
      BY <3>2, RefusedHasAnOriginal
    <3> QED
      BY <3>1, <3>3, TakenStays
  <2> QED
    BY <2>1, <2>2
<1>2. DuplicatesHaveAnOriginal'
  BY <1>1 DEF DuplicatesHaveAnOriginal, MessageId
<1>3. \A q \in Requests : pc'[q] \in {"idle"} \cup AcceptSteps => response'[q] = None
  BY StaysUnanswered
<1> QED
  BY <1>2, <1>3, RatingsStayAcknowledged DEF DuplicateInv

\* A crash ends requests and answers none.
LEMMA CrashDuplicateInv ==
    ASSUME DuplicateInv, Crash \/ UNCHANGED vars PROVE DuplicateInv'
<1>1. UNCHANGED <<store, response>>
  BY DEF Crash, vars
<1>2. \A q \in Requests : pc'[q] \in {"idle"} \cup AcceptSteps => pc'[q] = pc[q]
  BY DEF Crash, vars, Running, AcceptSteps
<1>3. \A q \in Requests : TakenIn(q)' <=> TakenIn(q)
  BY <1>1 DEF TakenIn, IsRating
<1>4. Acknowledged' = Acknowledged
  BY <1>3 DEF Acknowledged, IsRating, MessageId
<1>5. DuplicatesHaveAnOriginal'
  BY <1>1, <1>3 DEF DuplicateInv, DuplicatesHaveAnOriginal, MessageId
<1> QED
  BY <1>1, <1>2, <1>4, <1>5 DEF DuplicateInv

\* A carrier is told "duplicate" only of a message of which another delivery was
\* taken in, however many race and whatever fails.
THEOREM DuplicatesAreOfOriginals == Spec => []DuplicatesHaveAnOriginal
<1>1. Init => DuplicateInv
  BY DEF Init, DuplicateInv, DuplicatesHaveAnOriginal
<1>2. IInv /\ RowInv /\ DuplicateInv /\ [Next]_vars => DuplicateInv'
  BY StepDuplicateInv, CrashDuplicateInv DEF Next, StepOf, Quiet
<1>3. DuplicateInv => DuplicatesHaveAnOriginal
  BY DEF DuplicateInv
<1> QED
  BY Invariance, RowInvariance, <1>1, <1>2, <1>3, PTL DEF Spec
===============================================================================
