----------------------- MODULE ConversationProperties -----------------------
(***************************************************************************)
(* What must hold of ConversationService, and what its documentation says  *)
(* of it that does not.  TypeOK is stated with the variables it types.     *)
(***************************************************************************)
EXTENDS ConversationService

SameQuestion(r, q) ==
    /\ ~IsRating(r) /\ ~IsRating(q)
    /\ MessageId(r) = MessageId(q)

SameRating(r, q) ==
    /\ IsRating(r) /\ IsRating(q)
    /\ MessageId(r) = MessageId(q)

\* process() has given the row its final status.
Settled(c) == c \in DOMAIN store /\ store[c].status \in {"completed", "failed"}

-----------------------------------------------------------------------------
(* Invariants. *)

\* The response of request r says which conversation holds its question.
Receipted(r) ==
    /\ response[r] # None
    /\ response[r].status \in {"accepted", "duplicate", "completed"}

(***************************************************************************)
(* However often and however concurrently a carrier delivers a question,   *)
(* every delivery that is not refused is told the same conversation, and   *)
(* that conversation is stored and holds the question: accept, its lookup, *)
(* its INSERT and the refetch after a conflict.                            *)
(***************************************************************************)
ConsistentReceipts ==
    \A r, q \in Requests : SameQuestion(r, q) /\ Receipted(r) /\ Receipted(q) =>
        LET c == response[r].conversation
        IN  /\ c = response[q].conversation
            /\ c \in DOMAIN store
            /\ store[c].provider_message_id = MessageId(r)

(***************************************************************************)
(* A question is answered by at most one SMS over all its deliveries, in   *)
(* the presence of races, failing databases, failing sends and crashes:    *)
(* the unique provider_message_id and the structure of process.            *)
(***************************************************************************)
ReplyAtMostOnce ==
    \A r, q \in Requests :
        SameQuestion(r, q) /\ outbox[r] # <<>> /\ outbox[q] # <<>> =>
            r = q /\ Len(outbox[r]) = 1

(***************************************************************************)
(* An SMS that answers a question never says anything its record does not: *)
(* it goes to the number of the row, and carries the stored answer of a    *)
(* completed conversation or the fallback reply of a failed one.  process  *)
(* stores before it delivers.                                              *)
(***************************************************************************)
RecordBeforeReply ==
    \A r \in Requests : ~IsRating(r) /\ outbox[r] # <<>> =>
        /\ r \in DOMAIN store
        /\ Head(outbox[r]).to = store[r].phone_number
        /\ \/ /\ store[r].status = "completed"
              /\ Head(outbox[r]).body = Answer(store[r].llm_response)
           \/ /\ store[r].status = "failed"
              /\ Head(outbox[r]).body = FallbackReply
              /\ store[r].llm_response = None

\* The rating of conversation c, if it has one, came from its number and is its own.
WellRated(c) ==
    LET ratedBy == store[c].feedback_message_id
    IN  /\ ratedBy = None <=> store[c].feedback = "none"
        /\ ratedBy # None =>
            /\ \E r \in Requests : /\ IsRating(r)
                                   /\ MessageId(r) = ratedBy
                                   /\ Phone(r) = store[c].phone_number
            /\ ByFeedbackMessageId(store, ratedBy) = {c}

(***************************************************************************)
(* A rating sits on a conversation of the number that texted it, on one    *)
(* conversation only, and a conversation is rated exactly when it names    *)
(* the message that rated it: _record_feedback under concurrent ratings    *)
(* and new conversations.  Which conversation of the number it is, is the  *)
(* matter of RatingIsNotStale.                                             *)
(***************************************************************************)
RatingsWellPlaced == \A c \in DOMAIN store : WellRated(c)

\* Delivery q of a message was taken in: as a stored question, or as a rating
\* whose response acknowledges it.
TakenIn(q) ==
    IF IsRating(q)
    THEN response[q] # None /\ response[q].status = "feedback"
    ELSE q \in DOMAIN store

(***************************************************************************)
(* A carrier is told that a message is a duplicate only if another         *)
(* delivery with its id was taken in: a stored question, or a rating that  *)
(* was applied and acknowledged.  So no message is dropped as the          *)
(* duplicate of one that was not taken in itself, also when two deliveries *)
(* of a rating race for two different conversations: accept and the        *)
(* conflict of _record_feedback.                                           *)
(***************************************************************************)
DuplicatesHaveAnOriginal ==
    \A r \in Requests : response[r] # None /\ response[r].status = "duplicate" =>
        \E q \in Requests \ {r} : MessageId(q) = MessageId(r) /\ TakenIn(q)

\* A turn of the dialogue of r's number, whose answer is the stored one, or was
\* not there yet when the history was read.
TrueTurn(r, turn) ==
    /\ turn.user \in DOMAIN store
    /\ store[turn.user].phone_number = Phone(r)
    /\ turn.assistant \in {None, store[turn.user].llm_response}

\* Nothing but turns of that dialogue, and as many as the limit allows; a limit of
\* 0 leaves the question itself.
InScope(r) ==
    /\ Cardinality(prompt[r]) <= (IF HistoryLimit = 0 THEN 1 ELSE HistoryLimit)
    /\ \A turn \in prompt[r] : TrueTurn(r, turn)

(***************************************************************************)
(* What the LLM is shown stays within the number that asks and within the  *)
(* limit, and every answer in it is the stored answer of its conversation, *)
(* even though the rows go on changing while the LLM works:                *)
(* _generate_reply, recent_for_phone.  Which question it ends with is the  *)
(* matter of AnswerMatchesQuestion.                                        *)
(***************************************************************************)
PromptScope == \A r \in Requests : InScope(r)

\* The row of r says how its question was answered and what became of the reply.
Recorded(r) ==
    /\ Settled(r)
    /\ store[r].status = "failed" => store[r].error_message # None
    /\ store[r].delivery_status # None
    /\ store[r].provider_response_id # None <=> outbox[r] # <<>>
    /\ ReplyMode = "api" /\ outbox[r] = <<>> =>
           /\ store[r].delivery_status = "failed"
           /\ store[r].error_message = "sms"

(***************************************************************************)
(* Once process has returned, the row tells the whole story: it is         *)
(* completed or failed, a failure has its reason, delivery_status is       *)
(* filled in, and provider_response_id says whether an SMS was sent.       *)
(***************************************************************************)
SettledRecord == \A r \in DOMAIN store : pc[r] = "done" => Recorded(r)

\* The response of r is the reply to its question.
Completes(r) == response[r] # None /\ response[r].status = "completed"

(***************************************************************************)
(* In twiml mode the reply travels in the response: nothing is ever sent,  *)
(* and a response that completes a question carries what was stored, even  *)
(* if a retry was answered in between.  A duplicate that arrives before    *)
(* the answer is stored gets the fallback reply; later ones the answer.    *)
(* TestSynchronousReplyMode in tests/test_webhook_flow.py.                 *)
(***************************************************************************)
RepliesInTheResponse ==
    ReplyMode = "twiml" => \A r \in Requests :
        /\ outbox[r] = <<>>
        /\ Completes(r) =>
               /\ store[r].delivery_status = "queued"
               /\ response[r].reply = StoredReply(r)

-----------------------------------------------------------------------------
(* Action properties. *)

\* How one step may change one row.
RowStep(old, new) ==
    /\ new.phone_number = old.phone_number
    /\ new.provider_message_id = old.provider_message_id
    /\ new.created_at = old.created_at
    /\ \/ new.status = old.status
       \/ old.status = "received" /\ new.status = "processing"
       \/ old.status = "processing" /\ new.status \in {"completed", "failed"}
    /\ new.llm_response # old.llm_response =>
           old.llm_response = None /\ new.status = "completed" /\ old.status # new.status
    /\ new.delivery_status # old.delivery_status =>
           old.delivery_status = None /\ old.status \in {"completed", "failed"}
    /\ old.feedback # "none" => new.feedback # "none"
    /\ FeedbackColumns(new) # FeedbackColumns(old) =>
           new = [old EXCEPT !.feedback = new.feedback,
                             !.feedback_message_id = new.feedback_message_id]

(***************************************************************************)
(* The life of a row, whoever writes to it: it is never removed, its       *)
(* status only goes received, processing, completed or failed, the answer  *)
(* is written once, the delivery is recorded once and after the answer,    *)
(* and a rating and an answer never undo each other (the same row is       *)
(* updated by a background task and by a webhook).                         *)
(***************************************************************************)
Lifecycle ==
    [][ /\ DOMAIN store \subseteq DOMAIN store'
        /\ \A c \in DOMAIN store : RowStep(store[c], store'[c]) ]_store

-----------------------------------------------------------------------------
(* Across steps. *)

Ratings == {r \in Requests : IsRating(r)}

\* If rating r is acknowledged, what it was told it rated comes no earlier than
\* conversation c in the order of the listing: created_at, then id.
RatedNoOlder(r, c) ==
    response[r] # None /\ response[r].status = "feedback" =>
        LET rated == response[r].conversation
        IN  rated # None /\ (rated = c \/ Newer(store, rated, c))

(***************************************************************************)
(* A rating never ends up on a conversation older than one its number had  *)
(* when the rating came in, and a user who had one is not told that there  *)
(* is none.  Between the two, _record_feedback awaits a lookup and an      *)
(* update, rows are inserted and finished, and created_at, read before the *)
(* INSERT, may be that of another row.  Nothing here says that the         *)
(* conversation rated has its answer: get_latest_for_phone does not look   *)
(* at the status, so that it may be the "half-finished newer record" that  *)
(* tests/test_feedback.py, line 136, says it is not.                       *)
(***************************************************************************)
RatingIsNotStale ==
    \A r \in Ratings, c \in Requests \ Ratings :
        [](pc[r] = "lookup" /\ c \in OfPhone(store, Phone(r)) =>
               [](c \in DOMAIN store => RatedNoOlder(r, c)))

-----------------------------------------------------------------------------
(* Refinement. *)

Questions == {MessageId(r) : r \in {q \in Requests : ~IsRating(q)}}

\* The status of the rows that hold question m: at most one row does.
Verdict(m) ==
    IF \E c \in ByProviderMessageId(store, m) : store[c].status = "completed"
    THEN "answered"
    ELSE IF \E c \in ByProviderMessageId(store, m) : store[c].status = "failed"
    THEN "apologised" ELSE "open"

\* The SMS sent in reply to question m, over all requests that deliver it.
\* A letter is a request and a position in its outbox.
LettersFor(m) ==
    {letter \in Requests \X (1 .. 2) :
        /\ ~IsRating(letter[1])
        /\ MessageId(letter[1]) = m
        /\ letter[2] <= Len(outbox[letter[1]])}

Promise == INSTANCE ReplyOnce WITH
    Messages <- Questions,
    Letters <- Requests \X {1},
    taken <- {store[c].provider_message_id : c \in DOMAIN store},
    verdict <- [m \in Questions |-> Verdict(m)],
    letters <- [m \in Questions |-> LettersFor(m)]

(***************************************************************************)
(* The service implements the promise: a question is taken in once,        *)
(* decided once, and then answered by one SMS at most, whatever the        *)
(* carrier retries and whatever fails.                                     *)
(***************************************************************************)
KeepsPromise == Promise!Spec

-----------------------------------------------------------------------------
(* Liveness, under the fairness of the specification it is checked with.   *)

(***************************************************************************)
(* Every question stored is eventually completed or failed, even when the  *)
(* LLM never answers, unless the process dies or the database fails an     *)
(* update of the row (recent_for_phone failing is no excuse): the deadline *)
(* of _generate_reply, and the except clause around it.                    *)
(***************************************************************************)
EveryQuestionSettles ==
    \A r \in Requests :
        r \in DOMAIN store ~> Settled(r) \/ pc[r] \in {"aborted", "lost"}

(***************************************************************************)
(* Every webhook posted gets a response, unless the process dies under it: *)
(* whatever fails in the database, and even when the LLM hangs while the   *)
(* carrier waits for TwiML.                                                *)
(***************************************************************************)
EveryWebhookAnswered ==
    \A r \in Requests : pc[r] = "lookup" ~> response[r] # None \/ pc[r] = "lost"

-----------------------------------------------------------------------------
(* What the documentation says and the code does not do. *)

(***************************************************************************)
(* app/db/models.py: feedback_message_id is "Which inbound SMS produced    *)
(* the rating: an audit trail".                                            *)
(***************************************************************************)
AuditTrail ==
    \A c \in DOMAIN store, r \in Requests :
        IsRating(r) /\ store[c].feedback_message_id = MessageId(r) =>
            store[c].feedback = MessageOf[r].body

(***************************************************************************)
(* app/db/models.py: feedback_message_id "keeps a retried feedback webhook *)
(* from being applied (and acknowledged) twice".                           *)
(***************************************************************************)
AcknowledgedOnce ==
    \A r, q \in Requests :
        /\ SameRating(r, q)
        /\ response[r] # None /\ response[r].reply = FeedbackAck
        /\ response[q] # None /\ response[q].reply = FeedbackAck
        => r = q

(***************************************************************************)
(* app/domain/models.py: a conversation is "One inbound message together   *)
(* with the answer we produced for it."                                    *)
(***************************************************************************)
AnswerMatchesQuestion ==
    \A c \in DOMAIN store : store[c].llm_response \in {None, c}

(***************************************************************************)
(* README.md: "Failures degrade, they don't disappear. [...] If sending    *)
(* fails, the generated answer is kept with delivery_status=failed".  So,  *)
(* while the database works, a question whose process has ended has its    *)
(* delivery recorded, as sent or as failed.                                *)
(***************************************************************************)
EveryDeliveryRecorded ==
    \A r \in DOMAIN store : faults = 0 /\ pc[r] \in {"done", "aborted"} =>
        store[r].delivery_status # None
=============================================================================
