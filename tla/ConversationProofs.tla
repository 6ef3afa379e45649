------------------------- MODULE ConversationProofs -------------------------
(***************************************************************************)
(* TypeOK, ReplyAtMostOnce, ConsistentReceipts and RecordBeforeReply hold  *)
(* in every behaviour, for every set of requests, phones and messages,     *)
(* both reply modes, both providers and any number of faults and crashes.  *)
(*                                                                         *)
(* All four follow from IInv, and IInv is inductive: first the types of    *)
(* what the actions write, then one lemma per action, grouped by what the  *)
(* action changes, then the theorems.                                      *)
(***************************************************************************)
EXTENDS ConversationInvariant, SequenceTheorems, TLAPS

-----------------------------------------------------------------------------
(* Types of what the actions write. *)

\* The rows process() writes.
LEMMA RowUpdateTypes ==
    ASSUME NEW row \in Conversation, NEW status \in ConversationStatus,
           NEW text \in Requests \cup {None}, NEW sid \in Requests \cup {None},
           NEW delivery \in DeliveryStatus \cup {None}
    PROVE  /\ [row EXCEPT !.status = status] \in Conversation
           /\ [row EXCEPT !.status = status, !.llm_response = text,
                          !.error_message = None] \in Conversation
           /\ [row EXCEPT !.status = status, !.error_message = "llm"] \in Conversation
           /\ [row EXCEPT !.delivery_status = delivery] \in Conversation
           /\ [row EXCEPT !.provider_response_id = sid,
                          !.delivery_status = delivery] \in Conversation
           /\ [row EXCEPT !.delivery_status = delivery,
                          !.error_message = "sms"] \in Conversation
    BY DEF Conversation

\* A well-typed row replaces a well-typed row.
LEMMA WriteOwnType ==
    ASSUME TypeOK, NEW r \in DOMAIN store, NEW row \in Conversation, WriteOwn(r, row)
    PROVE  /\ DOMAIN store' = DOMAIN store
           /\ store'[r] = row
           /\ \A c \in DOMAIN store : c # r => store'[c] = store[c]
           /\ store' \in [DOMAIN store' -> Conversation]
    BY DEF TypeOK, WriteOwn

\* A chosen text makes a well-typed SMS.
LEMMA HandOverType ==
    ASSUME TypeOK, NEW r \in Requests, reply[r] \in Text, HandOver(r)
    PROVE  outbox' \in [Requests -> Seq(Sms)]
<1>1. [to |-> Phone(r), body |-> reply[r]] \in Sms
    BY ServiceAssumption DEF TypeOK, Sms, Phone, InboundMessage
<1> QED
    BY <1>1 DEF TypeOK, HandOver

\* What a duplicate is answered with is a text.
LEMMA StoredReplyType ==
    ASSUME TypeOK, NEW c \in DOMAIN store
    PROVE  StoredReply(c) \in Text
<1>1. store[c].llm_response \in Requests \cup {None}
    BY DEF TypeOK, Conversation
<1> QED
    BY <1>1 DEF StoredReply, Answer, FallbackReply, Text

\* The three fixed texts.
LEMMA FixedReplyTypes ==
    FallbackReply \in Text /\ FeedbackAck \in Text /\ NoConversationReply \in Text
    BY DEF FallbackReply, FeedbackAck, NoConversationReply, Text

\* A response made of a known status, conversation and text is well typed.
LEMMA RespondType ==
    ASSUME TypeOK, NEW r \in Requests,
           NEW status \in {"accepted", "feedback", "duplicate", "completed", "error"},
           NEW c \in Requests \cup {None}, NEW text \in Text \cup {None},
           Respond(r, status, c, text)
    PROVE  response' \in [Requests -> Response \cup {None}]
    BY DEF TypeOK, Respond, Response

\* RespondDuplicate is a Respond with a text or with None.
LEMMA RespondDuplicateType ==
    ASSUME TypeOK, NEW r \in Requests, NEW c \in Requests, NEW text \in Text,
           RespondDuplicate(r, c, text)
    PROVE  response' \in [Requests -> Response \cup {None}]
    BY RespondType DEF RespondDuplicate

-----------------------------------------------------------------------------
(* The initial state. *)

\* No request has started and nothing is stored.
LEMMA InitIInv == Init => IInv
<1> SUFFICES ASSUME Init PROVE IInv
    OBVIOUS
<1>1. TypeOK
    BY DEF Init, TypeOK, Feedback
<1>2. UniqueMessages /\ \A c \in DOMAIN store : RowOfRequest(c)
    BY DEF Init, UniqueMessages
<1>3. ASSUME NEW r \in Requests PROVE Stage(r) /\ Progress(r) /\ Mail(r) /\ Receipt(r)
    BY DEF Init, Stage, Progress, Mail, Receipt, Receipted,
           AcceptSteps, ProcessSteps, RatingSteps, Running
<1> QED
    BY <1>1, <1>2, <1>3 DEF IInv

-----------------------------------------------------------------------------
(* Steps that leave the store, the outbox and the responses alone. *)

\* A webhook arrives: only pc changes.
LEMMA PostStep == ASSUME IInv, NEW r \in Requests, Post(r) PROVE IInv'
<1> USE DEF Post, Goto, AcceptSteps, ProcessSteps, Running, locals, env
<1>1. TypeOK'
    BY DEF IInv, TypeOK
<1>2. ASSUME NEW q \in Requests PROVE Stage(q)'
    BY DEF IInv, TypeOK, Stage, RatingSteps
<1>3. ASSUME NEW q \in Requests PROVE (Progress(q) /\ Mail(q) /\ Receipt(q))'
    BY DEF IInv, TypeOK, Progress, Mail, Agrees, Receipt, Receipted
<1> QED
    BY <1>1, <1>2, <1>3 DEF IInv, UniqueMessages, RowOfRequest

\* The lookup finds nothing and the body is a rating.
LEMMA LookupRatingStep == ASSUME IInv, NEW r \in Requests, LookupRating(r) PROVE IInv'
<1> USE DEF LookupRating, Goto, AcceptSteps, ProcessSteps, Running, locals, env
<1>1. TypeOK'
    BY DEF IInv, TypeOK
<1>2. ASSUME NEW q \in Requests PROVE Stage(q)'
    BY DEF IInv, TypeOK, Stage, RatingSteps
<1>3. ASSUME NEW q \in Requests PROVE (Progress(q) /\ Mail(q) /\ Receipt(q))'
    BY DEF IInv, TypeOK, Progress, Mail, Agrees, Receipt, Receipted
<1> QED
    BY <1>1, <1>2, <1>3 DEF IInv, UniqueMessages, RowOfRequest

\* The lookup finds nothing and the body is a question; the clock is read.
LEMMA LookupQuestionStep == ASSUME IInv, NEW r \in Requests, LookupQuestion(r) PROVE IInv'
<1> USE DEF LookupQuestion, Goto, AcceptSteps, ProcessSteps, Running, locals, env
<1>1. TypeOK'
    BY DEF IInv, TypeOK
<1>2. ASSUME NEW q \in Requests PROVE Stage(q)'
    BY DEF IInv, TypeOK, Stage, RatingSteps
<1>3. ASSUME NEW q \in Requests PROVE (Progress(q) /\ Mail(q) /\ Receipt(q))'
    BY DEF IInv, TypeOK, Progress, Mail, Agrees, Receipt, Receipted
<1> QED
    BY <1>1, <1>2, <1>3 DEF IInv, UniqueMessages, RowOfRequest

\* The INSERT is refused.
LEMMA CreateConflictStep == ASSUME IInv, NEW r \in Requests, CreateConflict(r) PROVE IInv'
<1> USE DEF CreateConflict, Goto, AcceptSteps, ProcessSteps, Running, locals, env
<1>1. TypeOK'
    BY DEF IInv, TypeOK
<1>2. ASSUME NEW q \in Requests PROVE Stage(q)'
    BY DEF IInv, TypeOK, Stage, RatingSteps
<1>3. ASSUME NEW q \in Requests PROVE (Progress(q) /\ Mail(q) /\ Receipt(q))'
    BY DEF IInv, TypeOK, Progress, Mail, Agrees, Receipt, Receipted
<1> QED
    BY <1>1, <1>2, <1>3 DEF IInv, UniqueMessages, RowOfRequest

\* The rating has not been applied to any row.
LEMMA FeedbackFreshStep == ASSUME IInv, NEW r \in Requests, FeedbackFresh(r) PROVE IInv'
<1> USE DEF FeedbackFresh, Goto, AcceptSteps, ProcessSteps, Running, locals, env
<1>1. TypeOK'
    BY DEF IInv, TypeOK
<1>2. ASSUME NEW q \in Requests PROVE Stage(q)'
    BY DEF IInv, TypeOK, Stage, RatingSteps
<1>3. ASSUME NEW q \in Requests PROVE (Progress(q) /\ Mail(q) /\ Receipt(q))'
    BY DEF IInv, TypeOK, Progress, Mail, Agrees, Receipt, Receipted
<1> QED
    BY <1>1, <1>2, <1>3 DEF IInv, UniqueMessages, RowOfRequest

\* The newest conversation of the number is a stored one.
LEMMA PickLatestStep == ASSUME IInv, NEW r \in Requests, PickLatest(r) PROVE IInv'
<1> USE DEF PickLatest, Goto, AcceptSteps, ProcessSteps, Running, locals, env
<1>1. LatestForPhone(store, Phone(r)) \subseteq DOMAIN store
    BY DEF LatestForPhone, ListByPhone, OfPhone
<1>2. TypeOK'
    BY <1>1, StoredReplyType DEF IInv, TypeOK
<1>3. ASSUME NEW q \in Requests PROVE Stage(q)'
    BY <1>1 DEF IInv, TypeOK, Stage, RatingSteps
<1>4. ASSUME NEW q \in Requests PROVE (Progress(q) /\ Mail(q) /\ Receipt(q))'
    BY DEF IInv, TypeOK, Progress, Mail, Agrees, Receipt, Receipted
<1> QED
    BY <1>2, <1>3, <1>4 DEF IInv, UniqueMessages, RowOfRequest

\* The columns loaded are those of a stored row.
LEMMA LoadRatingStep == ASSUME IInv, NEW r \in Requests, LoadRating(r) PROVE IInv'
<1> USE DEF LoadRating, Goto, AcceptSteps, ProcessSteps, Running, locals, env
<1>1. TypeOK'
  <2>1. store[target[r]] \in Conversation
    BY DEF IInv, TypeOK, Stage
  <2>2. FeedbackColumns(store[target[r]]) \in
            [feedback : Feedback, feedback_message_id : MessageIds \cup {None}]
    BY <2>1 DEF FeedbackColumns, Conversation
  <2> QED
    BY <2>2 DEF IInv, TypeOK
<1>2. ASSUME NEW q \in Requests PROVE Stage(q)'
    BY DEF IInv, TypeOK, Stage, RatingSteps
<1>3. ASSUME NEW q \in Requests PROVE (Progress(q) /\ Mail(q) /\ Receipt(q))'
    BY DEF IInv, TypeOK, Progress, Mail, Agrees, Receipt, Receipted
<1> QED
    BY <1>1, <1>2, <1>3 DEF IInv, UniqueMessages, RowOfRequest

\* Every turn of the prompt is a stored conversation.
LEMMA ReadHistoryStep == ASSUME IInv, NEW r \in Requests, ReadHistory(r) PROVE IInv'
<1> USE DEF ReadHistory, Goto, AcceptSteps, ProcessSteps, Running, locals, env
<1>1. TypeOK'
  <2>1. History(r) \subseteq DOMAIN store
    BY DEF IInv, Stage, History, RecentForPhone, ListByPhone, OfPhone
  <2>2. \A c \in History(r) : [user |-> c, assistant |-> store[c].llm_response] \in Turn
    BY <2>1 DEF IInv, TypeOK, Turn, Conversation
  <2> QED
    BY <2>2 DEF IInv, TypeOK
<1>2. ASSUME NEW q \in Requests PROVE Stage(q)'
    BY DEF IInv, TypeOK, Stage, RatingSteps
<1>3. ASSUME NEW q \in Requests PROVE (Progress(q) /\ Mail(q) /\ Receipt(q))'
    BY DEF IInv, TypeOK, Progress, Mail, Agrees, Receipt, Receipted
<1> QED
    BY <1>1, <1>2, <1>3 DEF IInv, UniqueMessages, RowOfRequest

\* The answer is about a question of the prompt.
LEMMA LlmAnswersStep == ASSUME IInv, NEW r \in Requests, LlmAnswers(r) PROVE IInv'
<1> USE DEF LlmAnswers, Goto, AcceptSteps, ProcessSteps, Running, locals, env
<1>1. PICK last \in prompt[r] : reply' = [reply EXCEPT ![r] = Answer(last.user)]
    OBVIOUS
<1>2. last.user \in Requests
    BY <1>1 DEF IInv, TypeOK, Turn
<1>3. PICK c \in Requests : reply' = [reply EXCEPT ![r] = Answer(c)]
    BY <1>1, <1>2
<1>4. Answer(c) \in Text /\ Answer(c).about = c
    BY DEF Answer, Text
<1>5. TypeOK'
    BY <1>3, <1>4 DEF IInv, TypeOK
<1>6. ASSUME NEW q \in Requests PROVE Stage(q)'
  <2>1. CASE q = r
    BY <2>1, <1>3, <1>4 DEF IInv, TypeOK, Stage, RatingSteps
  <2>2. CASE q # r
    <3>1. reply'[q] = reply[q] /\ pc'[q] = pc[q]
      BY <2>2, <1>3 DEF IInv, TypeOK
    <3> QED
      BY <3>1 DEF IInv, Stage
  <2> QED
    BY <2>1, <2>2
<1>7. ASSUME NEW q \in Requests PROVE (Progress(q) /\ Mail(q) /\ Receipt(q))'
    BY DEF IInv, TypeOK, Progress, Mail, Agrees, Receipt, Receipted
<1> QED
    BY <1>5, <1>6, <1>7 DEF IInv, UniqueMessages, RowOfRequest

\* The generation fails or times out.
LEMMA LlmFailsStep == ASSUME IInv, NEW r \in Requests, LlmFails(r) PROVE IInv'
<1> USE DEF LlmFails, Goto, AcceptSteps, ProcessSteps, Running, locals, env
<1>1. TypeOK'
    BY DEF IInv, TypeOK
<1>2. ASSUME NEW q \in Requests PROVE Stage(q)'
    BY DEF IInv, TypeOK, Stage, RatingSteps
<1>3. ASSUME NEW q \in Requests PROVE (Progress(q) /\ Mail(q) /\ Receipt(q))'
    BY DEF IInv, TypeOK, Progress, Mail, Agrees, Receipt, Receipted
<1> QED
    BY <1>1, <1>2, <1>3 DEF IInv, UniqueMessages, RowOfRequest

\* The carrier refuses: nothing is handed over.
LEMMA SendRejectedStep == ASSUME IInv, NEW r \in Requests, SendRejected(r) PROVE IInv'
<1> USE DEF SendRejected, Goto, AcceptSteps, ProcessSteps, Running, locals, env
<1>1. TypeOK'
    BY DEF IInv, TypeOK
<1>2. ASSUME NEW q \in Requests PROVE Stage(q)'
    BY DEF IInv, TypeOK, Stage, RatingSteps
<1>3. ASSUME NEW q \in Requests PROVE (Progress(q) /\ Mail(q) /\ Receipt(q))'
    BY DEF IInv, TypeOK, Progress, Mail, Agrees, Receipt, Receipted
<1> QED
    BY <1>1, <1>2, <1>3 DEF IInv, UniqueMessages, RowOfRequest

\* The history cannot be read.
LEMMA HistoryFailsStep == ASSUME IInv, NEW r \in Requests, HistoryFails(r) PROVE IInv'
<1> USE DEF HistoryFails, Goto, AcceptSteps, ProcessSteps, Running, locals, env
<1>1. TypeOK'
    BY DEF IInv, TypeOK, Fault
<1>2. ASSUME NEW q \in Requests PROVE Stage(q)'
    BY DEF IInv, TypeOK, Stage, RatingSteps
<1>3. ASSUME NEW q \in Requests PROVE (Progress(q) /\ Mail(q) /\ Receipt(q))'
    BY DEF IInv, TypeOK, Progress, Mail, Agrees, Receipt, Receipted
<1> QED
    BY <1>1, <1>2, <1>3 DEF IInv, UniqueMessages, RowOfRequest

-----------------------------------------------------------------------------
(* Steps that respond and change no row. *)

\* The conversation named to a duplicate is stored and holds its question.
LEMMA LookupDuplicateStep == ASSUME IInv, NEW r \in Requests, LookupDuplicate(r) PROVE IInv'
<1>1. PICK c \in ByProviderMessageId(store, MessageId(r)) :
          RespondDuplicate(r, c, StoredReply(c))
    BY DEF LookupDuplicate
<1>2. c \in DOMAIN store /\ c \in Requests /\ store[c].provider_message_id = MessageId(r)
    BY DEF ByProviderMessageId, IInv, TypeOK
<1>3. TypeOK'
  <2>1. response' \in [Requests -> Response \cup {None}]
    BY <1>1, <1>2, StoredReplyType, RespondDuplicateType DEF IInv
  <2> QED
    BY <2>1 DEF IInv, TypeOK, LookupDuplicate, Goto, Ended, locals, env
<1>4. ASSUME NEW q \in Requests PROVE (Stage(q) /\ Progress(q) /\ Mail(q))'
    BY DEF IInv, TypeOK, LookupDuplicate, Goto, Stage, RatingSteps, Progress, Mail, Agrees,
           AcceptSteps, ProcessSteps, Running, locals
<1>5. ASSUME NEW q \in Requests PROVE Receipt(q)'
    BY <1>1, <1>2 DEF IInv, TypeOK, LookupDuplicate, RespondDuplicate, Respond, Receipt, Receipted
<1> QED
    BY <1>3, <1>4, <1>5 DEF IInv, UniqueMessages, RowOfRequest, LookupDuplicate

\* The loser of the race is told the conversation of the winner.
LEMMA RefetchStep == ASSUME IInv, NEW r \in Requests, Refetch(r) PROVE IInv'
<1>1. PICK c \in ByProviderMessageId(store, MessageId(r)) :
          RespondDuplicate(r, c, StoredReply(c))
    BY DEF Refetch
<1>2. c \in DOMAIN store /\ c \in Requests /\ store[c].provider_message_id = MessageId(r)
    BY DEF ByProviderMessageId, IInv, TypeOK
<1>3. TypeOK'
  <2>1. response' \in [Requests -> Response \cup {None}]
    BY <1>1, <1>2, StoredReplyType, RespondDuplicateType DEF IInv
  <2> QED
    BY <2>1 DEF IInv, TypeOK, Refetch, Goto, Ended, locals, env
<1>4. ASSUME NEW q \in Requests PROVE (Stage(q) /\ Progress(q) /\ Mail(q))'
    BY DEF IInv, TypeOK, Refetch, Goto, Stage, RatingSteps, Progress, Mail, Agrees,
           AcceptSteps, ProcessSteps, Running, locals
<1>5. ASSUME NEW q \in Requests PROVE Receipt(q)'
    BY <1>1, <1>2 DEF IInv, TypeOK, Refetch, RespondDuplicate, Respond, Receipt, Receipted
<1> QED
    BY <1>3, <1>4, <1>5 DEF IInv, UniqueMessages, RowOfRequest, Refetch

\* A rating already applied: only ratings get here.
LEMMA FeedbackDuplicateStep == ASSUME IInv, NEW r \in Requests, FeedbackDuplicate(r) PROVE IInv'
<1>1. PICK c \in ByFeedbackMessageId(store, MessageId(r)) :
          RespondDuplicate(r, c, StoredReply(c))
    BY DEF FeedbackDuplicate
<1>2. c \in DOMAIN store /\ c \in Requests /\ IsRating(r)
    BY DEF ByFeedbackMessageId, IInv, TypeOK, Stage, RatingSteps, FeedbackDuplicate, Goto
<1>3. TypeOK'
  <2>1. response' \in [Requests -> Response \cup {None}]
    BY <1>1, <1>2, StoredReplyType, RespondDuplicateType DEF IInv
  <2> QED
    BY <2>1 DEF IInv, TypeOK, FeedbackDuplicate, Goto, Ended, locals, env
<1>4. ASSUME NEW q \in Requests PROVE (Stage(q) /\ Progress(q) /\ Mail(q))'
    BY DEF IInv, TypeOK, FeedbackDuplicate, Goto, Stage, RatingSteps, Progress, Mail, Agrees,
           AcceptSteps, ProcessSteps, Running, locals
<1>5. ASSUME NEW q \in Requests PROVE Receipt(q)'
    BY <1>1, <1>2 DEF IInv, TypeOK, FeedbackDuplicate, RespondDuplicate, Respond, Receipt, Receipted
<1> QED
    BY <1>3, <1>4, <1>5 DEF IInv, UniqueMessages, RowOfRequest, FeedbackDuplicate

\* The number has no conversation: only ratings get here.
LEMMA NothingToRateStep == ASSUME IInv, NEW r \in Requests, NothingToRate(r) PROVE IInv'
<1> USE DEF NothingToRate, RespondFeedback, Goto, AcceptSteps, ProcessSteps, Running, locals, env
<1>1. TypeOK'
  <2>1. response' \in [Requests -> Response \cup {None}]
    BY FixedReplyTypes, RespondType DEF IInv
  <2> QED
    BY <2>1, FixedReplyTypes DEF IInv, TypeOK, Ended
<1>2. ASSUME NEW q \in Requests PROVE Stage(q)'
    BY FixedReplyTypes DEF IInv, TypeOK, Stage, RatingSteps
<1>3. ASSUME NEW q \in Requests PROVE (Progress(q) /\ Mail(q))'
    BY DEF IInv, TypeOK, Progress, Mail, Agrees, Stage, RatingSteps
<1>4. ASSUME NEW q \in Requests PROVE Receipt(q)'
    BY DEF IInv, TypeOK, Stage, RatingSteps, Receipt, Receipted, Respond
<1> QED
    BY <1>1, <1>2, <1>3, <1>4 DEF IInv, UniqueMessages, RowOfRequest

\* Another row has this rating: only ratings get here.
LEMMA CommitConflictStep == ASSUME IInv, NEW r \in Requests, CommitConflict(r) PROVE IInv'
<1> USE DEF CommitConflict, RespondDuplicate, Goto, AcceptSteps, ProcessSteps, Running, locals, env
<1>1. TypeOK'
  <2>1. response' \in [Requests -> Response \cup {None}]
    BY RespondType DEF IInv, TypeOK, Stage
  <2> QED
    BY <2>1 DEF IInv, TypeOK, Ended
<1>2. ASSUME NEW q \in Requests PROVE Stage(q)'
    BY DEF IInv, TypeOK, Stage, RatingSteps
<1>3. ASSUME NEW q \in Requests PROVE (Progress(q) /\ Mail(q))'
    BY DEF IInv, TypeOK, Progress, Mail, Agrees, Stage, RatingSteps
<1>4. ASSUME NEW q \in Requests PROVE Receipt(q)'
    BY DEF IInv, TypeOK, Stage, RatingSteps, Receipt, Receipted, Respond
<1> QED
    BY <1>1, <1>2, <1>3, <1>4 DEF IInv, UniqueMessages, RowOfRequest

\* A refused webhook is no receipt.
LEMMA AcceptFailsStep == ASSUME IInv, NEW r \in Requests, AcceptFails(r) PROVE IInv'
<1> USE DEF AcceptFails, Fault, Goto, AcceptSteps, ProcessSteps, Running, locals, env
<1>1. TypeOK'
  <2>1. response' \in [Requests -> Response \cup {None}]
    BY RespondType DEF IInv
  <2>2. faults' \in Nat
    BY DEF IInv, TypeOK
  <2>3. pc' \in [Requests -> {"idle"} \cup Running \cup Ended]
    BY DEF IInv, TypeOK, Ended
  <2> QED
    BY <2>1, <2>2, <2>3 DEF IInv, TypeOK
<1>2. ASSUME NEW q \in Requests PROVE Stage(q)'
    BY DEF IInv, TypeOK, Stage, RatingSteps
<1>3. ASSUME NEW q \in Requests PROVE (Progress(q) /\ Mail(q))'
    BY DEF IInv, TypeOK, Progress, Mail, Agrees, Stage, RatingSteps
<1>4. ASSUME NEW q \in Requests PROVE Receipt(q)'
  <2>1. CASE response' = response
    BY <2>1 DEF IInv, Receipt, Receipted
  <2>2. CASE Respond(r, "error", None, None)
    <3>1. CASE q = r
      BY <2>2, <3>1 DEF IInv, TypeOK, Receipt, Receipted, Respond
    <3>2. CASE q # r
      BY <2>2, <3>2 DEF IInv, TypeOK, Receipt, Receipted, Respond
    <3> QED
      BY <3>1, <3>2
  <2> QED
    BY <2>1, <2>2
<1> QED
    BY <1>1, <1>2, <1>3, <1>4 DEF IInv, UniqueMessages, RowOfRequest

\* A processing that fails leaves the row and the outbox as they were.
LEMMA ProcessFailsStep == ASSUME IInv, NEW r \in Requests, ProcessFails(r) PROVE IInv'
<1> USE DEF ProcessFails, Fault, Goto, AcceptSteps, ProcessSteps, Running, locals, env
<1>1. TypeOK'
  <2>1. response' \in [Requests -> Response \cup {None}]
    BY RespondType DEF IInv, TypeOK
  <2>2. faults' \in Nat
    BY DEF IInv, TypeOK
  <2>3. pc' \in [Requests -> {"idle"} \cup Running \cup Ended]
    BY DEF IInv, TypeOK, Ended
  <2> QED
    BY <2>1, <2>2, <2>3 DEF IInv, TypeOK
<1>2. ASSUME NEW q \in Requests PROVE Stage(q)'
    BY DEF IInv, TypeOK, Stage, RatingSteps
<1>3. ASSUME NEW q \in Requests PROVE (Progress(q) /\ Mail(q))'
    BY DEF IInv, TypeOK, Progress, Mail, Agrees, Stage, RatingSteps
<1>4. ASSUME NEW q \in Requests PROVE Receipt(q)'
  <2>1. CASE response' = response
    BY <2>1 DEF IInv, Receipt, Receipted
  <2>2. CASE Respond(r, "error", None, None)
    <3>1. CASE q = r
      BY <2>2, <3>1 DEF IInv, TypeOK, Receipt, Receipted, Respond
    <3>2. CASE q # r
      BY <2>2, <3>2 DEF IInv, TypeOK, Receipt, Receipted, Respond
    <3> QED
      BY <3>1, <3>2
  <2> QED
    BY <2>1, <2>2
<1> QED
    BY <1>1, <1>2, <1>3, <1>4 DEF IInv, UniqueMessages, RowOfRequest

-----------------------------------------------------------------------------
(* Steps of process() that write the request's own row. *)

\* status becomes processing; there is still no answer.
LEMMA BeginStep == ASSUME IInv, NEW r \in Requests, Begin(r) PROVE IInv'
<1> DEFINE row == [store[r] EXCEPT !.status = "processing"]
<1> USE DEF Begin, Goto, AcceptSteps, ProcessSteps, Running, locals, env
<1>1. r \in DOMAIN store /\ store[r] \in Conversation
    BY DEF IInv, TypeOK, Stage
<1>2. row \in Conversation
  <2>1. "processing" \in ConversationStatus
    BY DEF ConversationStatus
  <2> QED
    BY <1>1, <2>1, RowUpdateTypes
<1> HIDE DEF row
<1>3. /\ DOMAIN store' = DOMAIN store
      /\ store'[r] = row
      /\ \A c \in DOMAIN store : c # r => store'[c] = store[c]
      /\ store' \in [DOMAIN store' -> Conversation]
    BY <1>1, <1>2, WriteOwnType DEF IInv, row
<1>4. /\ row.provider_message_id = store[r].provider_message_id
      /\ row.phone_number = store[r].phone_number
      /\ row.llm_response = store[r].llm_response
    BY <1>1 DEF row, Conversation
<1>5. TypeOK'
    BY <1>3 DEF IInv, TypeOK, Ended
<1>6. (UniqueMessages /\ \A c \in DOMAIN store : RowOfRequest(c))'
    BY <1>1, <1>3, <1>4 DEF IInv, UniqueMessages, RowOfRequest
<1>7. ASSUME NEW q \in Requests PROVE Stage(q)'
    BY <1>3 DEF IInv, TypeOK, Stage, RatingSteps
<1>8. ASSUME NEW q \in Requests PROVE Progress(q)'
    BY <1>1, <1>3, <1>4 DEF IInv, TypeOK, Stage, Progress, Agrees
<1>9. ASSUME NEW q \in Requests PROVE Mail(q)'
    BY <1>1, <1>3, <1>4 DEF IInv, TypeOK, Stage, Progress, Mail, Agrees
<1>10. ASSUME NEW q \in Requests PROVE Receipt(q)'
    BY <1>1, <1>3, <1>4 DEF IInv, TypeOK, Receipt, Receipted
<1> QED
    BY <1>5, <1>6, <1>7, <1>8, <1>9, <1>10 DEF IInv

\* The row completes with the very text that will be sent.
LEMMA StoreAnswerStep == ASSUME IInv, NEW r \in Requests, StoreAnswer(r) PROVE IInv'
<1> DEFINE row == [store[r] EXCEPT !.status = "completed",
                                   !.llm_response = reply[r].about,
                                   !.error_message = None]
<1> USE DEF StoreAnswer, Goto, AcceptSteps, ProcessSteps, Running, locals, env
<1>1. r \in DOMAIN store /\ store[r] \in Conversation
    BY DEF IInv, TypeOK, Stage
<1>2. row \in Conversation
  <2>1. "completed" \in ConversationStatus
    BY DEF ConversationStatus
  <2>2. reply[r].about \in Requests \cup {None}
    BY DEF IInv, TypeOK, Stage, Text
  <2> QED
    BY <1>1, <2>1, <2>2, RowUpdateTypes
<1> HIDE DEF row
<1>3. /\ DOMAIN store' = DOMAIN store
      /\ store'[r] = row
      /\ \A c \in DOMAIN store : c # r => store'[c] = store[c]
      /\ store' \in [DOMAIN store' -> Conversation]
    BY <1>1, <1>2, WriteOwnType DEF IInv, row
<1>4. /\ row.provider_message_id = store[r].provider_message_id
      /\ row.phone_number = store[r].phone_number
      /\ row.status = "completed" /\ row.llm_response = reply[r].about
    BY <1>1 DEF row, Conversation
<1>5. TypeOK'
    BY <1>3 DEF IInv, TypeOK, AfterStoring
<1>6. (UniqueMessages /\ \A c \in DOMAIN store : RowOfRequest(c))'
    BY <1>1, <1>3, <1>4 DEF IInv, UniqueMessages, RowOfRequest
<1>7. ASSUME NEW q \in Requests PROVE Stage(q)'
    BY <1>3 DEF IInv, TypeOK, Stage, RatingSteps, AfterStoring
<1>8. ASSUME NEW q \in Requests PROVE Progress(q)'
    BY <1>1, <1>3, <1>4 DEF IInv, TypeOK, Stage, Progress, Agrees, AfterStoring
<1>9. ASSUME NEW q \in Requests PROVE Mail(q)'
    BY <1>1, <1>3, <1>4 DEF IInv, TypeOK, Stage, Progress, Mail, Agrees, AfterStoring
<1>10. ASSUME NEW q \in Requests PROVE Receipt(q)'
    BY <1>1, <1>3, <1>4 DEF IInv, TypeOK, Receipt, Receipted
<1> QED
    BY <1>5, <1>6, <1>7, <1>8, <1>9, <1>10 DEF IInv

\* The row fails, and the fallback reply will be sent.
LEMMA StoreFailureStep == ASSUME IInv, NEW r \in Requests, StoreFailure(r) PROVE IInv'
<1> DEFINE row == [store[r] EXCEPT !.status = "failed", !.error_message = "llm"]
<1> USE DEF StoreFailure, Goto, AcceptSteps, ProcessSteps, Running, locals, env
<1>1. r \in DOMAIN store /\ store[r] \in Conversation
    BY DEF IInv, TypeOK, Stage
<1>2. row \in Conversation
  <2>1. "failed" \in ConversationStatus
    BY DEF ConversationStatus
  <2> QED
    BY <1>1, <2>1, RowUpdateTypes
<1> HIDE DEF row
<1>3. /\ DOMAIN store' = DOMAIN store
      /\ store'[r] = row
      /\ \A c \in DOMAIN store : c # r => store'[c] = store[c]
      /\ store' \in [DOMAIN store' -> Conversation]
    BY <1>1, <1>2, WriteOwnType DEF IInv, row
<1>4. /\ row.provider_message_id = store[r].provider_message_id
      /\ row.phone_number = store[r].phone_number
      /\ row.status = "failed" /\ row.llm_response = store[r].llm_response
    BY <1>1 DEF row, Conversation
<1>5. TypeOK'
    BY <1>3, FixedReplyTypes DEF IInv, TypeOK, AfterStoring
<1>6. (UniqueMessages /\ \A c \in DOMAIN store : RowOfRequest(c))'
    BY <1>1, <1>3, <1>4 DEF IInv, UniqueMessages, RowOfRequest
<1>7. ASSUME NEW q \in Requests PROVE Stage(q)'
    BY <1>3 DEF IInv, TypeOK, Stage, RatingSteps, AfterStoring
<1>8. ASSUME NEW q \in Requests PROVE Progress(q)'
    BY <1>1, <1>3, <1>4 DEF IInv, TypeOK, Stage, Progress, Agrees, AfterStoring
<1>9. ASSUME NEW q \in Requests PROVE Mail(q)'
    BY <1>1, <1>3, <1>4 DEF IInv, TypeOK, Stage, Progress, Mail, Agrees, AfterStoring
<1>10. ASSUME NEW q \in Requests PROVE Receipt(q)'
    BY <1>1, <1>3, <1>4 DEF IInv, TypeOK, Receipt, Receipted
<1> QED
    BY <1>5, <1>6, <1>7, <1>8, <1>9, <1>10 DEF IInv

\* The delivery is recorded; status and answer stay.
LEMMA RecordSentStep == ASSUME IInv, NEW r \in Requests, RecordSent(r) PROVE IInv'
<1> DEFINE row == [store[r] EXCEPT !.provider_response_id = r,
                                   !.delivery_status = receipt[r]]
<1> USE DEF RecordSent, Goto, AcceptSteps, ProcessSteps, Running, locals, env
<1>1. r \in DOMAIN store /\ store[r] \in Conversation
    BY DEF IInv, TypeOK, Stage
<1>2. row \in Conversation
    BY <1>1, RowUpdateTypes, "failed" \in ConversationStatus DEF ConversationStatus, IInv, TypeOK
<1> HIDE DEF row
<1>3. /\ DOMAIN store' = DOMAIN store
      /\ store'[r] = row
      /\ \A c \in DOMAIN store : c # r => store'[c] = store[c]
      /\ store' \in [DOMAIN store' -> Conversation]
    BY <1>1, <1>2, WriteOwnType DEF IInv, row
<1>4. /\ row.provider_message_id = store[r].provider_message_id
      /\ row.phone_number = store[r].phone_number
      /\ row.status = store[r].status /\ row.llm_response = store[r].llm_response
    BY <1>1 DEF row, Conversation
<1>5. TypeOK'
    BY <1>3 DEF IInv, TypeOK, Ended
<1>6. (UniqueMessages /\ \A c \in DOMAIN store : RowOfRequest(c))'
    BY <1>1, <1>3, <1>4 DEF IInv, UniqueMessages, RowOfRequest
<1>7. ASSUME NEW q \in Requests PROVE Stage(q)'
    BY <1>3 DEF IInv, TypeOK, Stage, RatingSteps
<1>8. ASSUME NEW q \in Requests PROVE Progress(q)'
    BY <1>1, <1>3, <1>4 DEF IInv, TypeOK, Stage, Progress, Agrees
<1>9. ASSUME NEW q \in Requests PROVE Mail(q)'
    BY <1>1, <1>3, <1>4 DEF IInv, TypeOK, Stage, Progress, Mail, Agrees
<1>10. ASSUME NEW q \in Requests PROVE Receipt(q)'
    BY <1>1, <1>3, <1>4 DEF IInv, TypeOK, Receipt, Receipted
<1> QED
    BY <1>5, <1>6, <1>7, <1>8, <1>9, <1>10 DEF IInv

\* The failed delivery is recorded; status and answer stay.
LEMMA RecordFailedStep == ASSUME IInv, NEW r \in Requests, RecordFailed(r) PROVE IInv'
<1> DEFINE row == [store[r] EXCEPT !.delivery_status = "failed",
                                   !.error_message = "sms"]
<1> USE DEF RecordFailed, Goto, AcceptSteps, ProcessSteps, Running, locals, env
<1>1. r \in DOMAIN store /\ store[r] \in Conversation
    BY DEF IInv, TypeOK, Stage
<1>2. row \in Conversation
  <2>1. "failed" \in ConversationStatus /\ "failed" \in DeliveryStatus
    BY DEF ConversationStatus, DeliveryStatus
  <2> QED
    BY <1>1, <2>1, RowUpdateTypes
<1> HIDE DEF row
<1>3. /\ DOMAIN store' = DOMAIN store
      /\ store'[r] = row
      /\ \A c \in DOMAIN store : c # r => store'[c] = store[c]
      /\ store' \in [DOMAIN store' -> Conversation]
    BY <1>1, <1>2, WriteOwnType DEF IInv, row
<1>4. /\ row.provider_message_id = store[r].provider_message_id
      /\ row.phone_number = store[r].phone_number
      /\ row.status = store[r].status /\ row.llm_response = store[r].llm_response
    BY <1>1 DEF row, Conversation
<1>5. TypeOK'
    BY <1>3 DEF IInv, TypeOK, Ended
<1>6. (UniqueMessages /\ \A c \in DOMAIN store : RowOfRequest(c))'
    BY <1>1, <1>3, <1>4 DEF IInv, UniqueMessages, RowOfRequest
<1>7. ASSUME NEW q \in Requests PROVE Stage(q)'
    BY <1>3 DEF IInv, TypeOK, Stage, RatingSteps
<1>8. ASSUME NEW q \in Requests PROVE Progress(q)'
    BY <1>1, <1>3, <1>4 DEF IInv, TypeOK, Stage, Progress, Agrees
<1>9. ASSUME NEW q \in Requests PROVE Mail(q)'
    BY <1>1, <1>3, <1>4 DEF IInv, TypeOK, Stage, Progress, Mail, Agrees
<1>10. ASSUME NEW q \in Requests PROVE Receipt(q)'
    BY <1>1, <1>3, <1>4 DEF IInv, TypeOK, Receipt, Receipted
<1> QED
    BY <1>5, <1>6, <1>7, <1>8, <1>9, <1>10 DEF IInv

\* twiml: the response names the row of the request.
LEMMA QueueStep == ASSUME IInv, NEW r \in Requests, Queue(r) PROVE IInv'
<1> DEFINE row == [store[r] EXCEPT !.delivery_status = "queued"]
<1> USE DEF Queue, Goto, AcceptSteps, ProcessSteps, Running, locals, env
<1>1. r \in DOMAIN store /\ store[r] \in Conversation
    BY DEF IInv, TypeOK, Stage
<1>2. row \in Conversation
  <2>1. "failed" \in ConversationStatus /\ "queued" \in DeliveryStatus
    BY DEF ConversationStatus, DeliveryStatus
  <2> QED
    BY <1>1, <2>1, RowUpdateTypes
<1> HIDE DEF row
<1>3. /\ DOMAIN store' = DOMAIN store
      /\ store'[r] = row
      /\ \A c \in DOMAIN store : c # r => store'[c] = store[c]
      /\ store' \in [DOMAIN store' -> Conversation]
    BY <1>1, <1>2, WriteOwnType DEF IInv, row
<1>4. /\ row.provider_message_id = store[r].provider_message_id
      /\ row.phone_number = store[r].phone_number
      /\ row.status = store[r].status /\ row.llm_response = store[r].llm_response
    BY <1>1 DEF row, Conversation
<1>5. TypeOK'
  <2>1. response' \in [Requests -> Response \cup {None}]
    BY RespondType DEF IInv, TypeOK
  <2> QED
    BY <1>3, <2>1 DEF IInv, TypeOK, Ended
<1>6. (UniqueMessages /\ \A c \in DOMAIN store : RowOfRequest(c))'
    BY <1>1, <1>3, <1>4 DEF IInv, UniqueMessages, RowOfRequest
<1>7. ASSUME NEW q \in Requests PROVE Stage(q)'
    BY <1>3 DEF IInv, TypeOK, Stage, RatingSteps
<1>8. ASSUME NEW q \in Requests PROVE Progress(q)'
    BY <1>1, <1>3, <1>4 DEF IInv, TypeOK, Stage, Progress, Agrees
<1>9. ASSUME NEW q \in Requests PROVE Mail(q)'
    BY <1>1, <1>3, <1>4 DEF IInv, TypeOK, Stage, Progress, Mail, Agrees
<1>10. ASSUME NEW q \in Requests PROVE Receipt(q)'
    BY <1>1, <1>3, <1>4 DEF IInv, TypeOK, Receipt, Receipted, Respond, RowOfRequest
<1> QED
    BY <1>5, <1>6, <1>7, <1>8, <1>9, <1>10 DEF IInv

-----------------------------------------------------------------------------
(* Steps that hand an SMS to the carrier. *)

\* The first SMS of the request, which its row agrees with.
LEMMA SendSucceedsStep == ASSUME IInv, NEW r \in Requests, SendSucceeds(r) PROVE IInv'
<1> USE DEF SendSucceeds, Goto, AcceptSteps, ProcessSteps, Running, locals, env
<1>1. reply[r] \in Text
  <2>1. Agrees(r, reply[r]) /\ store[r].llm_response \in Requests \cup {None}
    BY DEF IInv, TypeOK, Stage, Progress, Conversation
  <2> QED
    BY <2>1, FixedReplyTypes DEF Agrees, Answer, Text
<1>2. outbox[r] = <<>>
    BY DEF IInv, Mail
<1>3. TypeOK'
  <2>1. outbox' \in [Requests -> Seq(Sms)]
    BY <1>1, HandOverType DEF IInv, TypeOK
  <2> QED
    BY <2>1, ServiceAssumption DEF IInv, TypeOK, Ended
<1>4. ASSUME NEW q \in Requests PROVE (Stage(q) /\ Progress(q) /\ Receipt(q))'
    BY DEF IInv, TypeOK, Stage, RatingSteps, Progress, Agrees, Receipt, Receipted
<1>5. ASSUME NEW q \in Requests PROVE Mail(q)'
  <2>1. CASE q = r
    <3>1. CASE outbox' = outbox
      BY <2>1, <3>1, <1>2 DEF IInv, TypeOK, Mail
    <3>2. CASE outbox'[r] = <<[to |-> Phone(r), body |-> reply[r]]>>
      <4>1. /\ Len(outbox'[r]) = 1
            /\ outbox'[r][1].to = Phone(r)
            /\ outbox'[r][1].body = reply[r]
        BY <3>2
      <4>2. r \in DOMAIN store /\ Agrees(r, reply[r])
        BY DEF IInv, TypeOK, Stage, RatingSteps, Progress
      <4> QED
        BY <2>1, <4>1, <4>2 DEF IInv, TypeOK, Mail, Agrees
    <3> QED
      BY <1>2, <3>1, <3>2 DEF IInv, TypeOK, HandOver
  <2>2. CASE q # r
    BY <2>2 DEF IInv, TypeOK, HandOver, Mail, Agrees
  <2> QED
    BY <2>1, <2>2
<1> QED
    BY <1>3, <1>4, <1>5 DEF IInv, UniqueMessages, RowOfRequest

\* The SMS may have left although the send raised.
LEMMA SendLeaksStep == ASSUME IInv, NEW r \in Requests, SendLeaks(r) PROVE IInv'
<1> USE DEF SendLeaks, Goto, AcceptSteps, ProcessSteps, Running, locals, env
<1>1. reply[r] \in Text
  <2>1. Agrees(r, reply[r]) /\ store[r].llm_response \in Requests \cup {None}
    BY DEF IInv, TypeOK, Stage, Progress, Conversation
  <2> QED
    BY <2>1, FixedReplyTypes DEF Agrees, Answer, Text
<1>2. outbox[r] = <<>>
    BY DEF IInv, Mail
<1>3. TypeOK'
  <2>1. outbox' \in [Requests -> Seq(Sms)]
    BY <1>1, HandOverType DEF IInv, TypeOK
  <2> QED
    BY <2>1 DEF IInv, TypeOK, Ended
<1>4. ASSUME NEW q \in Requests PROVE (Stage(q) /\ Progress(q) /\ Receipt(q))'
    BY DEF IInv, TypeOK, Stage, RatingSteps, Progress, Agrees, Receipt, Receipted
<1>5. ASSUME NEW q \in Requests PROVE Mail(q)'
  <2>1. CASE q = r
    <3>1. CASE outbox' = outbox
      BY <2>1, <3>1, <1>2 DEF IInv, TypeOK, Mail
    <3>2. CASE outbox'[r] = <<[to |-> Phone(r), body |-> reply[r]]>>
      <4>1. /\ Len(outbox'[r]) = 1
            /\ outbox'[r][1].to = Phone(r)
            /\ outbox'[r][1].body = reply[r]
        BY <3>2
      <4>2. r \in DOMAIN store /\ Agrees(r, reply[r])
        BY DEF IInv, TypeOK, Stage, RatingSteps, Progress
      <4> QED
        BY <2>1, <4>1, <4>2 DEF IInv, TypeOK, Mail, Agrees
    <3> QED
      BY <1>2, <3>1, <3>2 DEF IInv, TypeOK, HandOver
  <2>2. CASE q # r
    BY <2>2 DEF IInv, TypeOK, HandOver, Mail, Agrees
  <2> QED
    BY <2>1, <2>2
<1> QED
    BY <1>3, <1>4, <1>5 DEF IInv, UniqueMessages, RowOfRequest

\* An acknowledgement is the SMS of a rating, not of a question.
LEMMA SendAckStep == ASSUME IInv, NEW r \in Requests, SendAck(r) PROVE IInv'
<1> USE DEF SendAck, Goto, AcceptSteps, ProcessSteps, Running, locals, env
<1>1. reply[r] \in Text
    BY DEF IInv, Stage
<1>2. outbox[r] = <<>>
    BY DEF IInv, Mail
<1>3. TypeOK'
  <2>1. outbox' \in [Requests -> Seq(Sms)]
    BY <1>1, HandOverType DEF IInv, TypeOK
  <2> QED
    BY <2>1 DEF IInv, TypeOK, Ended
<1>4. ASSUME NEW q \in Requests PROVE (Stage(q) /\ Progress(q) /\ Receipt(q))'
    BY DEF IInv, TypeOK, Stage, RatingSteps, Progress, Agrees, Receipt, Receipted
<1>5. ASSUME NEW q \in Requests PROVE Mail(q)'
  <2>1. CASE q = r
    <3>1. CASE outbox' = outbox
      BY <2>1, <3>1, <1>2 DEF IInv, TypeOK, Mail
    <3>2. CASE outbox'[r] = <<[to |-> Phone(r), body |-> reply[r]]>>
      <4>1. /\ Len(outbox'[r]) = 1
            /\ outbox'[r][1].to = Phone(r)
            /\ outbox'[r][1].body = reply[r]
        BY <3>2
      <4>2. IsRating(r)
        BY DEF IInv, TypeOK, Stage, RatingSteps, Progress
      <4> QED
        BY <2>1, <4>1, <4>2 DEF IInv, TypeOK, Mail, Agrees
    <3> QED
      BY <1>2, <3>1, <3>2 DEF IInv, TypeOK, HandOver
  <2>2. CASE q # r
    BY <2>2 DEF IInv, TypeOK, HandOver, Mail, Agrees
  <2> QED
    BY <2>1, <2>2
<1> QED
    BY <1>3, <1>4, <1>5 DEF IInv, UniqueMessages, RowOfRequest

-----------------------------------------------------------------------------
(* Steps that insert a row, or rate one. *)

\* The unique constraint keeps the message of the new row new.
LEMMA CreateStep == ASSUME IInv, NEW r \in Requests, Create(r) PROVE IInv'
<1> DEFINE row == NewConversation(Phone(r), MessageId(r), stamp[r])
<1> USE DEF Create, Goto, AcceptSteps, ProcessSteps, Running, locals, env
<1>1. r \notin DOMAIN store /\ ~IsRating(r)
    BY DEF IInv, Stage
<1>2. row \in Conversation
    BY ServiceAssumption
    DEF IInv, TypeOK, NewConversation, Conversation, ConversationStatus, Feedback,
        Phone, MessageId, InboundMessage
<1>3. /\ row.provider_message_id = MessageId(r)
      /\ row.phone_number = Phone(r)
      /\ row.llm_response = None
    BY DEF NewConversation
<1> HIDE DEF row
<1>4. /\ DOMAIN store' = DOMAIN store \cup {r}
      /\ store'[r] = row
      /\ \A c \in DOMAIN store : store'[c] = store[c]
    BY <1>1 DEF Inserted, row
<1>5. TypeOK'
  <2>1. store' \in [DOMAIN store' -> Conversation]
    BY <1>2, <1>1 DEF Inserted, row, IInv, TypeOK
  <2>2. response' \in [Requests -> Response \cup {None}]
    BY RespondType DEF IInv, TypeOK
  <2> QED
    BY <1>4, <2>1, <2>2 DEF IInv, TypeOK
<1>6. (UniqueMessages /\ \A c \in DOMAIN store : RowOfRequest(c))'
    BY <1>1, <1>3, <1>4 DEF IInv, UniqueMessages, RowOfRequest, ByProviderMessageId
<1>7. ASSUME NEW q \in Requests PROVE Stage(q)'
    BY <1>1, <1>4 DEF IInv, TypeOK, Stage, RatingSteps
<1>8. ASSUME NEW q \in Requests PROVE Progress(q)'
    BY <1>1, <1>3, <1>4 DEF IInv, TypeOK, Stage, Progress, Agrees
<1>9. ASSUME NEW q \in Requests PROVE Mail(q)'
    BY <1>1, <1>4 DEF IInv, TypeOK, Mail, Agrees
<1>10. ASSUME NEW q \in Requests PROVE Receipt(q)'
  <2>1. CASE q = r
    BY <2>1, <1>3, <1>4 DEF IInv, TypeOK, Receipt, Receipted, Respond, Stage
  <2>2. CASE q # r
    BY <2>2, <1>4 DEF IInv, TypeOK, Receipt, Receipted, Respond
  <2> QED
    BY <2>1, <2>2
<1> QED
    BY <1>5, <1>6, <1>7, <1>8, <1>9, <1>10 DEF IInv

\* Nothing the invariant looks at differs between two rows.
SameButRating(new, old) ==
    /\ new.provider_message_id = old.provider_message_id
    /\ new.phone_number = old.phone_number
    /\ new.status = old.status
    /\ new.llm_response = old.llm_response

\* A rating changes the two rating columns only.
LEMMA WithFeedbackType ==
    ASSUME NEW s, s \in [DOMAIN s -> Conversation], NEW c \in DOMAIN s,
           NEW columns, NEW rating \in Feedback, NEW m \in MessageIds
    PROVE  /\ DOMAIN WithFeedback(s, c, columns, rating, m) = DOMAIN s
           /\ WithFeedback(s, c, columns, rating, m) \in [DOMAIN s -> Conversation]
           /\ \A d \in DOMAIN s :
                  SameButRating(WithFeedback(s, c, columns, rating, m)[d], s[d])
<1> DEFINE t == WithFeedback(s, c, columns, rating, m)
           f == IF rating = columns.feedback THEN s[c].feedback ELSE rating
           i == IF m = columns.feedback_message_id
                THEN s[c].feedback_message_id ELSE m
           row == [s[c] EXCEPT !.feedback = f, !.feedback_message_id = i]
<1>1. s[c] \in Conversation
    OBVIOUS
<1>2. f \in Feedback /\ i \in MessageIds \cup {None}
    BY <1>1 DEF Conversation
<1>3. t = [s EXCEPT ![c] = row]
    BY <1>1 DEF WithFeedback, Conversation
<1> HIDE DEF f, i, t
<1>4. row \in Conversation
    BY <1>1, <1>2 DEF Conversation
<1>5. SameButRating(row, s[c])
    BY <1>1 DEF Conversation, SameButRating
<1> HIDE DEF row
<1>6. /\ DOMAIN t = DOMAIN s
      /\ t \in [DOMAIN t -> Conversation]
      /\ t[c] = row
      /\ \A d \in DOMAIN s : d # c => t[d] = s[d]
    BY <1>3, <1>4
<1> QED
    BY <1>5, <1>6 DEF t, SameButRating

\* A rating leaves alone every column the invariant is about.
LEMMA CommitRatingStep == ASSUME IInv, NEW r \in Requests, CommitRating(r) PROVE IInv'
<1> USE DEF CommitRating, RespondFeedback, Goto, AcceptSteps, ProcessSteps, Running, locals, env
<1>1. IsRating(r) /\ target[r] \in DOMAIN store /\ target[r] \in Requests
    BY DEF IInv, TypeOK, Stage, RatingSteps
<1>2. MessageOf[r].body \in Feedback /\ MessageId(r) \in MessageIds
    BY ServiceAssumption, <1>1 DEF InboundMessage, Body, Feedback, MessageId, IsRating
<1>3. /\ DOMAIN store' = DOMAIN store
      /\ store' \in [DOMAIN store' -> Conversation]
      /\ \A d \in DOMAIN store : SameButRating(store'[d], store[d])
  <2>1. store' = WithFeedback(store, target[r], loaded[r], MessageOf[r].body, MessageId(r))
    OBVIOUS
  <2>2. store \in [DOMAIN store -> Conversation]
    BY DEF IInv, TypeOK
  <2> HIDE DEF CommitRating
  <2> QED
    BY <1>1, <1>2, <2>1, <2>2, WithFeedbackType
<1>4. TypeOK'
  <2>1. response' \in [Requests -> Response \cup {None}]
    BY <1>1, FixedReplyTypes, RespondType DEF IInv
  <2> QED
    BY <1>3, <2>1, FixedReplyTypes DEF IInv, TypeOK, Ended
<1>5. (UniqueMessages /\ \A c \in DOMAIN store : RowOfRequest(c))'
    BY <1>3 DEF IInv, UniqueMessages, RowOfRequest, SameButRating
<1>6. ASSUME NEW q \in Requests PROVE Stage(q)'
    BY <1>1, <1>3, FixedReplyTypes DEF IInv, TypeOK, Stage, RatingSteps
<1>7. ASSUME NEW q \in Requests PROVE Progress(q)'
  <2>1. CASE q = r
    BY <2>1 DEF IInv, TypeOK, Progress
  <2>2. CASE q # r
    <3>1. reply'[q] = reply[q] /\ pc'[q] = pc[q]
      BY <2>2 DEF IInv, TypeOK
    <3>2. pc[q] \in ProcessSteps => q \in DOMAIN store
      BY DEF IInv, Stage
    <3> HIDE DEF CommitRating
    <3> QED
      BY <1>3, <3>1, <3>2 DEF IInv, Progress, Agrees, SameButRating
  <2> QED
    BY <2>1, <2>2
<1>8. ASSUME NEW q \in Requests PROVE Mail(q)'
    BY <1>3 DEF IInv, TypeOK, Mail, Agrees, SameButRating
<1>9. ASSUME NEW q \in Requests PROVE Receipt(q)'
    BY <1>1, <1>3 DEF IInv, TypeOK, Receipt, Receipted, Respond, SameButRating
<1> QED
    BY <1>4, <1>5, <1>6, <1>7, <1>8, <1>9 DEF IInv

-----------------------------------------------------------------------------
(* Crash and stuttering. *)

\* Coroutines vanish; rows, SMS and responses stay.
LEMMA CrashStep == ASSUME IInv, Crash PROVE IInv'
<1> USE DEF Crash, AcceptSteps, ProcessSteps, Running, locals
<1>1. TypeOK'
    BY DEF IInv, TypeOK, Ended
<1>2. ASSUME NEW q \in Requests PROVE (Stage(q) /\ Progress(q))'
    BY DEF IInv, TypeOK, Stage, Progress, RatingSteps, Agrees
<1>3. ASSUME NEW q \in Requests PROVE (Mail(q) /\ Receipt(q))'
    BY DEF IInv, TypeOK, Mail, Agrees, Receipt, Receipted
<1> QED
    BY <1>1, <1>2, <1>3 DEF IInv, UniqueMessages, RowOfRequest

\* Nothing changes.
LEMMA StutteringStep == ASSUME IInv, UNCHANGED vars PROVE IInv'
    BY DEF IInv, vars, locals, env, TypeOK, UniqueMessages, RowOfRequest, Stage,
           Progress, Mail, Agrees, Receipt, Receipted

-----------------------------------------------------------------------------
(* The theorems. *)

\* Every step keeps the invariant.
LEMMA NextIInv == ASSUME IInv, [Next]_vars PROVE IInv'
<1>1. ASSUME NEW r \in Requests, Post(r) \/ AcceptStep(r) PROVE IInv'
    BY <1>1, PostStep, LookupDuplicateStep, LookupRatingStep, LookupQuestionStep,
       CreateStep, CreateConflictStep, RefetchStep, FeedbackDuplicateStep,
       FeedbackFreshStep, NothingToRateStep, PickLatestStep, LoadRatingStep,
       CommitRatingStep, CommitConflictStep
    DEF AcceptStep
<1>2. ASSUME NEW r \in Requests, ProcessStep(r) \/ LlmAnswers(r) \/ LlmFails(r) PROVE IInv'
    BY <1>2, BeginStep, ReadHistoryStep, LlmAnswersStep, LlmFailsStep, StoreAnswerStep,
       StoreFailureStep, RecordSentStep, RecordFailedStep, QueueStep
    DEF ProcessStep, LlmDeadline
<1>3. ASSUME NEW r \in Requests, CarrierStep(r) \/ FaultStep(r) PROVE IInv'
    BY <1>3, SendSucceedsStep, SendRejectedStep, SendLeaksStep, SendAckStep,
       AcceptFailsStep, HistoryFailsStep, ProcessFailsStep
    DEF CarrierStep, FaultStep
<1> QED
    BY <1>1, <1>2, <1>3, CrashStep, StutteringStep DEF Next, Quiet

\* IInv holds in every reachable state.
THEOREM Invariance == Spec => []IInv
<1>1. IInv /\ [Next]_vars => IInv'
    BY NextIInv
<1> QED
    BY InitIInv, <1>1, PTL DEF Spec

\* Every variable has its type, whatever the code does to it: no reply is None
\* when it is sent and no rating is written to a conversation that is not stored.
THEOREM TypeCorrect == Spec => []TypeOK
<1>1. IInv => TypeOK
    BY DEF IInv
<1> QED
    BY Invariance, <1>1, PTL

\* A question is answered by at most one SMS over all its deliveries: two
\* requests that sent one both own the row of the question, and it is one row.
THEOREM AtMostOneReply == Spec => []ReplyAtMostOnce
<1>1. IInv => ReplyAtMostOnce
  <2> SUFFICES ASSUME IInv, NEW r \in Requests, NEW q \in Requests, SameQuestion(r, q),
                      outbox[r] # <<>>, outbox[q] # <<>>
               PROVE  r = q /\ Len(outbox[r]) = 1
    BY DEF ReplyAtMostOnce
  <2>1. r \in DOMAIN store /\ q \in DOMAIN store /\ Len(outbox[r]) <= 1
    BY DEF IInv, Mail, SameQuestion
  <2>2. r = q
    BY <2>1 DEF IInv, UniqueMessages, RowOfRequest, SameQuestion
  <2>3. Len(outbox[r]) = 1
    <3>1. outbox[r] \in Seq(Sms)
      BY DEF IInv, TypeOK
    <3>2. Len(outbox[r]) \in Nat \ {0}
      BY <3>1, EmptySeq
    <3>3. \A n \in Nat \ {0} : n <= 1 => n = 1
      OBVIOUS
    <3> QED
      BY <2>1, <3>2, <3>3
  <2> QED
    BY <2>2, <2>3
<1> QED
    BY Invariance, <1>1, PTL

\* All deliveries of a question that are not refused are told one stored
\* conversation, which holds the question.
THEOREM ReceiptsAgree == Spec => []ConsistentReceipts
<1>1. IInv => ConsistentReceipts
    BY DEF IInv, ConsistentReceipts, SameQuestion, Receipt, UniqueMessages
<1> QED
    BY Invariance, <1>1, PTL

\* What an SMS that answers a question says is what its stored record says.
THEOREM RecordPrecedesReply == Spec => []RecordBeforeReply
<1>1. IInv => RecordBeforeReply
  <2> SUFFICES ASSUME IInv, NEW r \in Requests, ~IsRating(r), outbox[r] # <<>>
               PROVE  /\ r \in DOMAIN store
                      /\ Head(outbox[r]).to = store[r].phone_number
                      /\ Agrees(r, Head(outbox[r]).body)
    BY DEF RecordBeforeReply, Agrees
  <2>1. Head(outbox[r]) = outbox[r][1]
    BY DEF IInv, TypeOK
  <2> QED
    BY <2>1 DEF IInv, Mail, RowOfRequest
<1> QED
    BY Invariance, <1>1, PTL
=============================================================================
