-------------------------- MODULE ConversationStore --------------------------
(***************************************************************************)
(* The conversations table and what ConversationRepository promises about  *)
(* it (app/db/repository.py, app/db/models.py, app/domain/models.py).      *)
(*                                                                         *)
(* A store is a function from the ids of the stored conversations to their *)
(* rows.  The operators below are the queries and the writes of the        *)
(* repository as functions of a store; each is one SQL statement, hence    *)
(* atomic.  A list the code orders by (created_at, id) is given here as    *)
(* the set of its members: the order is a function of the rows.            *)
(***************************************************************************)
EXTENDS Naturals, FiniteSets

CONSTANTS
    Requests,    \* The webhook requests.  The conversation that request r
                 \* constructs draws the id r, so ids are never reused.
    Phones,      \* E.164 numbers, already normalised.
    MessageIds,  \* The ids carriers give to inbound messages.
    None         \* Python's None, SQL's NULL.

ConversationStatus == {"received", "processing", "completed", "failed"}
DeliveryStatus == {"queued", "sent", "delivered", "failed", "unknown"}
Feedback == {"none", "positive", "negative"}

ASSUME StoreAssumption ==
    /\ Requests \subseteq Nat
    /\ None \notin Requests
    /\ None \notin MessageIds
    /\ None \notin DeliveryStatus \cup {"llm", "sms"}

(***************************************************************************)
(* One row.  incoming_message is not kept: provider_message_id identifies  *)
(* the text.  llm_response is abstracted to the conversation whose         *)
(* question the stored text answers, error_message to who failed.          *)
(***************************************************************************)
Conversation ==
    [ phone_number: Phones,
      provider_message_id: MessageIds,
      created_at: Nat,
      status: ConversationStatus,
      llm_response: Requests \cup {None},
      error_message: {"llm", "sms", None},
      delivery_status: DeliveryStatus \cup {None},
      provider_response_id: Requests \cup {None},
      feedback: Feedback,
      feedback_message_id: MessageIds \cup {None} ]

\* Conversation(...) with the defaults of the domain model.
NewConversation(phone, messageId, now) ==
    [ phone_number |-> phone,
      provider_message_id |-> messageId,
      created_at |-> now,
      status |-> "received",
      llm_response |-> None,
      error_message |-> None,
      delivery_status |-> None,
      provider_response_id |-> None,
      feedback |-> "none",
      feedback_message_id |-> None ]

-----------------------------------------------------------------------------
(* Queries. *)

ByProviderMessageId(s, messageId) ==
    {c \in DOMAIN s : s[c].provider_message_id = messageId}

\* Mistake: the query without its WHERE.
OfAnyRating(s, messageId) == DOMAIN s

ByFeedbackMessageId(s, messageId) ==
    {c \in DOMAIN s : s[c].feedback_message_id = messageId}

\* Mistake: the query without its WHERE.
OfAnyPhone(s, phone) == DOMAIN s

OfPhone(s, phone) == {c \in DOMAIN s : s[c].phone_number = phone}

\* Mistake: equal timestamps are not told apart by the id.
NewerByTime(s, c, d) == s[c].created_at >= s[d].created_at /\ c # d

\* ORDER BY created_at DESC, id DESC: c comes before d.
Newer(s, c, d) ==
    \/ s[c].created_at > s[d].created_at
    \/ s[c].created_at = s[d].created_at /\ c > d

\* How many conversations of the same number are listed before c.
Rank(s, c) == Cardinality({d \in OfPhone(s, s[c].phone_number) : Newer(s, d, c)})

ListByPhone(s, phone, limit, offset) ==
    {c \in OfPhone(s, phone) : offset <= Rank(s, c) /\ Rank(s, c) < offset + limit}

\* Mistake: the limit is not applied.
WholeHistory(s, phone, limit) == OfPhone(s, phone)

RecentForPhone(s, phone, limit) == ListByPhone(s, phone, limit, 0)

\* Mistake: no ORDER BY.
AnyForPhone(s, phone) == OfPhone(s, phone)

\* Empty, or the one newest conversation of the number.
LatestForPhone(s, phone) == ListByPhone(s, phone, 1, 0)

-----------------------------------------------------------------------------
(* Writes. *)

\* INSERT, once the unique provider_message_id has let it pass.
Inserted(s, c, row) == [d \in DOMAIN s \cup {c} |-> IF d = c THEN row ELSE s[d]]

\* The part of a row a rating is decided on, as session.get() loads it.
FeedbackColumns(row) ==
    [feedback |-> row.feedback, feedback_message_id |-> row.feedback_message_id]

\* Mistake: feedback_message_id is not unique.
NeverConflicts(s, c, loaded, messageId) == FALSE

\* The unique feedback_message_id refuses the UPDATE of conversation c.
FeedbackConflicts(s, c, loaded, messageId) ==
    /\ messageId # loaded.feedback_message_id
    /\ \E d \in ByFeedbackMessageId(s, messageId) : d # c

(***************************************************************************)
(* UPDATE of conversation c with a rating.  The ORM flushes a column only  *)
(* when the value assigned differs from the value it LOADED, so a column   *)
(* that another session has changed since then keeps that other value.     *)
(***************************************************************************)
WithFeedback(s, c, loaded, rating, messageId) ==
    [s EXCEPT
        ![c].feedback = IF rating = loaded.feedback THEN @ ELSE rating,
        ![c].feedback_message_id =
            IF messageId = loaded.feedback_message_id THEN @ ELSE messageId]
=============================================================================
