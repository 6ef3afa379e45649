------------------------ MODULE ConversationService ------------------------
(***************************************************************************)
(* Concurrent webhook requests of the SMS service: the webhook routes, the *)
(* orchestration of app/services/conversation_service.py and the           *)
(* background task each accepted question leaves behind, over the store of *)
(* ConversationStore, an LLM and an SMS provider.                          *)
(*                                                                         *)
(* A request is a coroutine on the event loop.  It runs from one await to  *)
(* the next without interruption, so an action is the code between two     *)
(* awaits, ending in the database statement or provider answer it awaited. *)
(* pc[r] names what request r is waiting to do next.                       *)
(***************************************************************************)
EXTENDS ConversationStore, Sequences

CONSTANTS
    MessageOf,     \* The inbound message each webhook request carries.  Two
                   \* requests with the same message are a carrier's retry.
    ReplyMode,     \* SMS_REPLY_MODE: "api" or "twiml".
    SmsProvider,   \* SMS_PROVIDER: "mock" or "twilio".
    SendStatuses,  \* What a successful send may report as delivery status.
    HistoryLimit,  \* CONVERSATION_HISTORY_LIMIT.
    CoarseClock,   \* TRUE: two conversations may get the same created_at.
    MaxFaults,     \* Bound: database operations that fail in a behaviour.
    MaxCrashes     \* Bound: crashes of the process in a behaviour.

\* What classify_feedback makes of a body: a question, or a rating.
Body == {"question", "positive", "negative"}

InboundMessage ==
    [phone_number: Phones, body: Body, provider_message_id: MessageIds]

ASSUME ServiceAssumption ==
    /\ MessageOf \in [Requests -> InboundMessage]
    /\ ReplyMode \in {"api", "twiml"}
    /\ SmsProvider \in {"mock", "twilio"}
    /\ SendStatuses \subseteq DeliveryStatus
    /\ HistoryLimit \in Nat
    /\ CoarseClock \in BOOLEAN
    /\ MaxFaults \in Nat
    /\ MaxCrashes \in Nat

VARIABLES
    store,     \* The conversations table.
    outbox,    \* outbox[r]: the SMS request r has handed to the carrier.
    response,  \* response[r]: the HTTP response of request r, or None.
    pc,        \* pc[r]: what request r does next.
    stamp,     \* Local of accept: created_at of the constructed conversation.
    target,    \* Local of _record_feedback: the conversation being rated.
    loaded,    \* Local of update: the rating columns session.get() returned.
    prompt,    \* Local of _generate_reply: the dialogue given to the LLM.
    reply,     \* The text on its way to the user.
    receipt,   \* Local of _deliver: the delivery status the send reported.
    clock,     \* The last created_at handed out.
    faults,    \* Database operations that have failed so far.
    crashes    \* Crashes so far.

locals == <<stamp, target, loaded, prompt, reply, receipt>>
env == <<clock, faults, crashes>>
vars == <<store, outbox, response, pc, locals, env>>

-----------------------------------------------------------------------------
(* Texts, turns and responses. *)

\* The texts the service sends: the answer to the question of conversation
\* `about', or one of the three fixed replies of app/config.py.
Text ==
    [kind: {"answer", "fallback", "ack", "no_conversation"},
     about: Requests \cup {None}]

Answer(c) == [kind |-> "answer", about |-> c]
FallbackReply == [kind |-> "fallback", about |-> None]
FeedbackAck == [kind |-> "ack", about |-> None]
NoConversationReply == [kind |-> "no_conversation", about |-> None]

Sms == [to: Phones, body: Text]

\* One past conversation in the prompt: its question, and its answer if any.
Turn == [user: Requests, assistant: Requests \cup {None}]

Response ==
    [status: {"accepted", "feedback", "duplicate", "completed", "error"},
     conversation: Requests \cup {None},
     reply: Text \cup {None}]

ASSUME ResponseAssumption == None \notin Response

AcceptSteps ==
    {"lookup", "create", "refetch",
     "feedback_lookup", "latest", "load", "commit"}
\* Reached only by the request that created the conversation.
ProcessSteps ==
    {"begin", "history", "llm", "store_answer", "store_failure",
     "send", "record_sent", "record_failed", "queue"}
Running == AcceptSteps \cup ProcessSteps \cup {"send_ack"}
\* done: returned.  aborted: an exception ended process().  lost: crashed.
Ended == {"done", "aborted", "lost"}

TypeOK ==
    /\ DOMAIN store \subseteq Requests
    /\ store \in [DOMAIN store -> Conversation]
    /\ outbox \in [Requests -> Seq(Sms)]
    /\ response \in [Requests -> Response \cup {None}]
    /\ pc \in [Requests -> {"idle"} \cup Running \cup Ended]
    /\ stamp \in [Requests -> Nat]
    /\ target \in [Requests -> Requests \cup {None}]
    /\ loaded \in [Requests -> [feedback: Feedback,
                                feedback_message_id: MessageIds \cup {None}]]
    /\ prompt \in [Requests -> SUBSET Turn]
    /\ reply \in [Requests -> Text \cup {None}]
    /\ receipt \in [Requests -> DeliveryStatus \cup {None}]
    /\ clock \in Nat
    /\ faults \in Nat
    /\ crashes \in Nat

Init ==
    /\ store = [c \in {} |-> None]
    /\ outbox = [r \in Requests |-> <<>>]
    /\ response = [r \in Requests |-> None]
    /\ pc = [r \in Requests |-> "idle"]
    /\ stamp = [r \in Requests |-> 0]
    /\ target = [r \in Requests |-> None]
    /\ loaded = [r \in Requests |->
                    [feedback |-> "none", feedback_message_id |-> None]]
    /\ prompt = [r \in Requests |-> {}]
    /\ reply = [r \in Requests |-> None]
    /\ receipt = [r \in Requests |-> None]
    /\ clock = 0
    /\ faults = 0
    /\ crashes = 0

Phone(r) == MessageOf[r].phone_number
MessageId(r) == MessageOf[r].provider_message_id
IsRating(r) == MessageOf[r].body # "question"

Goto(r, from, to) ==
    /\ pc[r] = from
    /\ pc' = [pc EXCEPT ![r] = to]

\* The fields the JSON route answers with.  The Twilio route, given the same
\* decision, sends the text as TwiML in twiml mode and an empty TwiML in api mode.
Respond(r, status, conversation, text) ==
    response' = [response EXCEPT ![r] =
        [status |-> status, conversation |-> conversation, reply |-> text]]

-----------------------------------------------------------------------------
(* Taking a message in: the webhook routes and ConversationService.accept. *)

\* The carrier posts a well-formed webhook: receive_sms, receive_twilio_sms.
Post(r) ==
    /\ Goto(r, "idle", "lookup")
    /\ UNCHANGED <<store, outbox, response, locals, env>>

\* The text a duplicate is answered with by handle_inbound.
StoredReply(c) ==
    IF store[c].llm_response = None THEN FallbackReply
    ELSE Answer(store[c].llm_response)

\* A duplicate ends the request.  Only the synchronous mode returns a text.
RespondDuplicate(r, c, text) ==
    Respond(r, "duplicate", c, IF ReplyMode = "twiml" THEN text ELSE None)

LookupDuplicate(r) ==
    /\ Goto(r, "lookup", "done")
    /\ \E c \in ByProviderMessageId(store, MessageId(r)) :
           RespondDuplicate(r, c, StoredReply(c))
    /\ UNCHANGED <<store, outbox, locals, env>>

LookupRating(r) ==
    /\ Goto(r, "lookup", "feedback_lookup")
    /\ ByProviderMessageId(store, MessageId(r)) = {}
    /\ IsRating(r)
    /\ UNCHANGED <<store, outbox, response, locals, env>>

\* Constructing the conversation reads the clock, before the INSERT.
LookupQuestion(r) ==
    /\ Goto(r, "lookup", "create")
    /\ ByProviderMessageId(store, MessageId(r)) = {}
    /\ ~IsRating(r)
    /\ clock' \in {clock + 1} \cup (IF CoarseClock THEN {clock} ELSE {})
    /\ stamp' = [stamp EXCEPT ![r] = clock']
    /\ UNCHANGED <<store, outbox, response, target, loaded, prompt, reply,
                   receipt, faults, crashes>>

\* Mistake: no unique constraint, the lookup alone guards the INSERT.
CreateUnchecked(r) ==
    /\ Goto(r, "create", "begin")
    /\ store' = Inserted(store, r,
                         NewConversation(Phone(r), MessageId(r), stamp[r]))
    /\ IF ReplyMode = "api" THEN Respond(r, "accepted", r, None)
                            ELSE UNCHANGED response
    /\ UNCHANGED <<outbox, locals, env>>

\* The INSERT.  In api mode the carrier gets its answer now, and the rest of
\* the request is the background task.
Create(r) ==
    /\ Goto(r, "create", "begin")
    /\ ByProviderMessageId(store, MessageId(r)) = {}
    /\ store' = Inserted(store, r,
                         NewConversation(Phone(r), MessageId(r), stamp[r]))
    /\ IF ReplyMode = "api" THEN Respond(r, "accepted", r, None)
                            ELSE UNCHANGED response
    /\ UNCHANGED <<outbox, locals, env>>

\* The unique provider_message_id refuses the INSERT: another delivery won.
CreateConflict(r) ==
    /\ Goto(r, "create", "refetch")
    /\ ByProviderMessageId(store, MessageId(r)) # {}
    /\ UNCHANGED <<store, outbox, response, locals, env>>

\* Mistake: the loser of the race reports the conversation it could not store.
RefetchOwn(r) ==
    /\ Goto(r, "refetch", "done")
    /\ RespondDuplicate(r, r, FallbackReply)
    /\ UNCHANGED <<store, outbox, locals, env>>

\* No row is ever deleted, so the winner's is found.
Refetch(r) ==
    /\ Goto(r, "refetch", "done")
    /\ \E c \in ByProviderMessageId(store, MessageId(r)) :
           RespondDuplicate(r, c, StoredReply(c))
    /\ UNCHANGED <<store, outbox, locals, env>>

-----------------------------------------------------------------------------
(* Ratings: the second half of accept, and _record_feedback. *)

FeedbackDuplicate(r) ==
    /\ Goto(r, "feedback_lookup", "done")
    /\ \E c \in ByFeedbackMessageId(store, MessageId(r)) :
           RespondDuplicate(r, c, StoredReply(c))
    /\ UNCHANGED <<store, outbox, locals, env>>

FeedbackFresh(r) ==
    /\ Goto(r, "feedback_lookup", "latest")
    /\ ByFeedbackMessageId(store, MessageId(r)) = {}
    /\ UNCHANGED <<store, outbox, response, locals, env>>

\* The request answers with `text', in api mode also by SMS afterwards.
RespondFeedback(r, from, conversation, text) ==
    /\ Goto(r, from, IF ReplyMode = "api" THEN "send_ack" ELSE "done")
    /\ Respond(r, "feedback", conversation, text)
    /\ reply' = [reply EXCEPT ![r] = text]

NothingToRate(r) ==
    /\ RespondFeedback(r, "latest", None, NoConversationReply)
    /\ LatestForPhone(store, Phone(r)) = {}
    /\ UNCHANGED <<store, outbox, stamp, target, loaded, prompt, receipt, env>>

\* reply keeps what the snapshot of the row would answer a duplicate with.
PickLatest(r) ==
    /\ Goto(r, "latest", "load")
    /\ \E c \in LatestForPhone(store, Phone(r)) :
           /\ target' = [target EXCEPT ![r] = c]
           /\ reply' = [reply EXCEPT ![r] = StoredReply(c)]
    /\ UNCHANGED <<store, outbox, response, stamp, loaded, prompt, receipt, env>>

\* update() opens a session and loads the row.
LoadRating(r) ==
    /\ Goto(r, "load", "commit")
    /\ loaded' = [loaded EXCEPT ![r] = FeedbackColumns(store[target[r]])]
    /\ UNCHANGED <<store, outbox, response, stamp, target, prompt, reply,
                   receipt, env>>

\* update() flushes and commits.
CommitRating(r) ==
    /\ RespondFeedback(r, "commit", target[r], FeedbackAck)
    /\ ~FeedbackConflicts(store, target[r], loaded[r], MessageId(r))
    /\ store' = WithFeedback(store, target[r], loaded[r],
                             MessageOf[r].body, MessageId(r))
    /\ UNCHANGED <<outbox, stamp, target, loaded, prompt, receipt, env>>

\* The unique feedback_message_id refuses the UPDATE.
CommitConflict(r) ==
    /\ Goto(r, "commit", "done")
    /\ FeedbackConflicts(store, target[r], loaded[r], MessageId(r))
    /\ RespondDuplicate(r, target[r], reply[r])
    /\ UNCHANGED <<store, outbox, locals, env>>

-----------------------------------------------------------------------------
(* Answering a question: ConversationService.process, in the background in *)
(* api mode and inside the request in twiml mode.                          *)

\* A database write of process() to the request's own row.
WriteOwn(r, row) == store' = [store EXCEPT ![r] = row]

Begin(r) ==
    /\ Goto(r, "begin", "history")
    /\ WriteOwn(r, [store[r] EXCEPT !.status = "processing"])
    /\ UNCHANGED <<outbox, response, locals, env>>

\* recent_for_phone, or the current question alone when it returns nothing.
History(r) ==
    LET recent == RecentForPhone(store, Phone(r), HistoryLimit)
    IN  IF recent = {} THEN {r} ELSE recent

ReadHistory(r) ==
    /\ Goto(r, "history", "llm")
    /\ prompt' = [prompt EXCEPT ![r] =
           {[user |-> c, assistant |-> store[c].llm_response] : c \in History(r)}]
    /\ UNCHANGED <<store, outbox, response, stamp, target, loaded, reply,
                   receipt, env>>

\* The model answers the last user message of the prompt.
LlmAnswers(r) ==
    /\ Goto(r, "llm", "store_answer")
    /\ \E last \in prompt[r] :
           /\ \A turn \in prompt[r] : ~Newer(store, turn.user, last.user)
           /\ reply' = [reply EXCEPT ![r] = Answer(last.user)]
    /\ prompt' = [prompt EXCEPT ![r] = {}]
    /\ UNCHANGED <<store, outbox, response, stamp, target, loaded, receipt, env>>

\* An LLMError, or any other exception the provider lets out.
LlmFails(r) ==
    /\ Goto(r, "llm", "store_failure")
    /\ prompt' = [prompt EXCEPT ![r] = {}]
    /\ UNCHANGED <<store, outbox, response, stamp, target, loaded, reply,
                   receipt, env>>

\* Mistake: generate is awaited without a deadline.
NoDeadline(r) == FALSE /\ LlmFails(r)

\* wait_for cancels the call at the deadline; a later answer is dropped.
LlmDeadline(r) == LlmFails(r)

\* process() goes on to _deliver, or to the twiml path.
AfterStoring == IF ReplyMode = "api" THEN "send" ELSE "queue"

\* Mistake: the answer goes out before the record of it is complete.
StoreStatusOnly(r) ==
    /\ Goto(r, "store_answer", AfterStoring)
    /\ WriteOwn(r, [store[r] EXCEPT !.status = "completed"])
    /\ UNCHANGED <<outbox, response, locals, env>>

StoreAnswer(r) ==
    /\ Goto(r, "store_answer", AfterStoring)
    /\ WriteOwn(r, [store[r] EXCEPT !.status = "completed",
                                    !.llm_response = reply[r].about,
                                    !.error_message = None])
    /\ UNCHANGED <<outbox, response, locals, env>>

\* Mistake: the fallback reply is not chosen.
StoreFailureWithoutReply(r) ==
    /\ Goto(r, "store_failure", AfterStoring)
    /\ WriteOwn(r, [store[r] EXCEPT !.status = "failed", !.error_message = "llm"])
    /\ UNCHANGED <<outbox, response, locals, env>>

StoreFailure(r) ==
    /\ Goto(r, "store_failure", AfterStoring)
    /\ WriteOwn(r, [store[r] EXCEPT !.status = "failed", !.error_message = "llm"])
    /\ reply' = [reply EXCEPT ![r] = FallbackReply]
    /\ UNCHANGED <<outbox, response, stamp, target, loaded, prompt, receipt, env>>

\* The SMS leaves for the carrier.
HandOver(r) ==
    outbox' = [outbox EXCEPT ![r] = Append(@, [to |-> Phone(r), body |-> reply[r]])]

\* Mistake: the result of the send is dropped.
SendUnrecorded(r) ==
    /\ Goto(r, "send", "done")
    /\ HandOver(r)
    /\ UNCHANGED <<store, response, locals, env>>

\* Mistake: a failed recording is answered by sending again.
SendAgain(r) ==
    /\ Goto(r, "send", "send")
    /\ HandOver(r)
    /\ Len(outbox[r]) < 2
    /\ UNCHANGED <<store, response, locals, env>>

SendSucceeds(r) ==
    /\ Goto(r, "send", "record_sent")
    /\ HandOver(r)
    /\ \E status \in SendStatuses : receipt' = [receipt EXCEPT ![r] = status]
    /\ UNCHANGED <<store, response, stamp, target, loaded, prompt, reply, env>>

\* Twilio refuses: a TwilioException, re-raised as SmsProviderError.
SendRejected(r) ==
    /\ SmsProvider = "twilio"
    /\ Goto(r, "send", "record_failed")
    /\ UNCHANGED <<store, outbox, response, locals, env>>

\* The SDK raises something else (its HTTP client does when the network
\* fails), after or before the message left.  It ends the background task.
SendLeaks(r) ==
    /\ SmsProvider = "twilio"
    /\ Goto(r, "send", "aborted")
    /\ HandOver(r) \/ UNCHANGED outbox
    /\ UNCHANGED <<store, response, locals, env>>

RecordSent(r) ==
    /\ Goto(r, "record_sent", "done")
    /\ WriteOwn(r, [store[r] EXCEPT !.provider_response_id = r,
                                    !.delivery_status = receipt[r]])
    /\ UNCHANGED <<outbox, response, locals, env>>

\* Mistake: a failed delivery is recorded as a failed conversation.
RecordFailedStatus(r) ==
    /\ Goto(r, "record_failed", "done")
    /\ WriteOwn(r, [store[r] EXCEPT !.status = "failed",
                                    !.delivery_status = "failed",
                                    !.error_message = "sms"])
    /\ UNCHANGED <<outbox, response, locals, env>>

RecordFailed(r) ==
    /\ Goto(r, "record_failed", "done")
    /\ WriteOwn(r, [store[r] EXCEPT !.delivery_status = "failed",
                                    !.error_message = "sms"])
    /\ UNCHANGED <<outbox, response, locals, env>>

\* Mistake: the synchronous mode also sends the reply.
QueueAndSend(r) ==
    /\ Goto(r, "queue", "done")
    /\ WriteOwn(r, [store[r] EXCEPT !.delivery_status = "queued"])
    /\ Respond(r, "completed", r, reply[r])
    /\ HandOver(r)
    /\ UNCHANGED <<locals, env>>

\* twiml mode: the reply travels in the response of the webhook.
Queue(r) ==
    /\ Goto(r, "queue", "done")
    /\ WriteOwn(r, [store[r] EXCEPT !.delivery_status = "queued"])
    /\ Respond(r, "completed", r, reply[r])
    /\ UNCHANGED <<outbox, locals, env>>

\* send_reply_in_background swallows every failure of the acknowledgement.
SendAck(r) ==
    /\ Goto(r, "send_ack", "done")
    /\ HandOver(r) \/ (SmsProvider = "twilio" /\ UNCHANGED outbox)
    /\ UNCHANGED <<store, response, locals, env>>

-----------------------------------------------------------------------------
(* Failures of the database and of the process. *)

Fault ==
    /\ faults < MaxFaults
    /\ faults' = faults + 1

\* Mistake: the error is logged and the carrier never answered.
AcceptSwallows(r) ==
    /\ Fault
    /\ pc[r] \in AcceptSteps
    /\ Goto(r, pc[r], "done")
    /\ UNCHANGED <<store, outbox, response, locals, clock, crashes>>

\* StorageError during accept: the exception handler answers 500.
AcceptFails(r) ==
    /\ Fault
    /\ pc[r] \in AcceptSteps
    /\ Goto(r, pc[r], "done")
    /\ Respond(r, "error", None, None)
    /\ UNCHANGED <<store, outbox, locals, clock, crashes>>

\* StorageError in recent_for_phone counts as a failed generation.
HistoryFails(r) ==
    /\ Fault
    /\ Goto(r, "history", "store_failure")
    /\ UNCHANGED <<store, outbox, response, locals, clock, crashes>>

\* StorageError in an update of process(): logged by process_in_background,
\* or a 500 when the request itself is processing.
ProcessFails(r) ==
    /\ Fault
    /\ pc[r] \in {"begin", "store_answer", "store_failure",
                  "record_sent", "record_failed", "queue"}
    /\ Goto(r, pc[r], "aborted")
    /\ IF ReplyMode = "twiml" THEN Respond(r, "error", None, None)
                              ELSE UNCHANGED response
    /\ UNCHANGED <<store, outbox, locals, clock, crashes>>

\* The process dies and starts again: what is committed or handed to the
\* carrier stays, every coroutine is gone.
Crash ==
    /\ crashes < MaxCrashes
    /\ \E r \in Requests : pc[r] \in Running
    /\ crashes' = crashes + 1
    /\ pc' = [r \in Requests |-> IF pc[r] \in Running THEN "lost" ELSE pc[r]]
    /\ UNCHANGED <<store, outbox, response, locals, clock, faults>>

\* Every webhook of the behaviour has been dealt with.
Quiet ==
    /\ \A r \in Requests : pc[r] \in Ended
    /\ UNCHANGED vars

-----------------------------------------------------------------------------
AcceptStep(r) ==
    \/ LookupDuplicate(r) \/ LookupRating(r) \/ LookupQuestion(r)
    \/ Create(r) \/ CreateConflict(r) \/ Refetch(r)
    \/ FeedbackDuplicate(r) \/ FeedbackFresh(r)
    \/ NothingToRate(r) \/ PickLatest(r) \/ LoadRating(r)
    \/ CommitRating(r) \/ CommitConflict(r)

ProcessStep(r) ==
    \/ Begin(r) \/ ReadHistory(r) \/ LlmDeadline(r)
    \/ StoreAnswer(r) \/ StoreFailure(r)
    \/ RecordSent(r) \/ RecordFailed(r) \/ Queue(r)

CarrierStep(r) ==
    \/ SendSucceeds(r) \/ SendRejected(r) \/ SendLeaks(r) \/ SendAck(r)

FaultStep(r) == AcceptFails(r) \/ HistoryFails(r) \/ ProcessFails(r)

Next ==
    \/ \E r \in Requests :
           \/ Post(r)
           \/ AcceptStep(r)
           \/ ProcessStep(r)
           \/ LlmAnswers(r) \/ LlmFails(r)
           \/ CarrierStep(r)
           \/ FaultStep(r)
    \/ Crash
    \/ Quiet

Spec == Init /\ [][Next]_vars

(***************************************************************************)
(* Fairness.  The event loop resumes every coroutine whose await has       *)
(* finished, database statements finish, and asyncio.wait_for finishes at  *)
(* its deadline whatever the LLM does.  That the LLM answers is not        *)
(* assumed, nor that the carrier returns from a send: the service awaits   *)
(* it without a deadline of its own.                                       *)
(***************************************************************************)
EventLoop == \A r \in Requests : WF_vars(AcceptStep(r) \/ ProcessStep(r))

EventLoopSpec == Spec /\ EventLoop
=============================================================================
