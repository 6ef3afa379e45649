--------------------------- MODULE RepositoryCalls ---------------------------
(***************************************************************************)
(* The writing calls of the protocol ConversationRepository                *)
(* (app/db/repository.py), and what their callers guarantee.               *)
(***************************************************************************)
EXTENDS ConversationStore

CONSTANTS
    Tasks,  \* Webhooks and background tasks: they call concurrently.
    Calls   \* The calls each task may make, in any order.

Columns ==
    {"phone_number", "provider_message_id", "created_at", "status",
     "llm_response", "error_message", "delivery_status",
     "provider_response_id", "feedback", "feedback_message_id"}

\* Columns that are not a field of ConversationUpdate.
Immutable == {"phone_number", "provider_message_id", "created_at"}

\* The type of every field of ConversationUpdate.
FieldType ==
    [ status |-> ConversationStatus,
      llm_response |-> Requests \cup {None},
      error_message |-> {"llm", "sms", None},
      delivery_status |-> DeliveryStatus \cup {None},
      provider_response_id |-> Requests \cup {None},
      feedback |-> Feedback,
      feedback_message_id |-> MessageIds \cup {None} ]

\* create(conversation), and update(id, changes) with the fields set explicitly.
CreateCall(row, c) == [op |-> "create", id |-> c, row |-> row]
UpdateCall(changes, c) == [op |-> "update", id |-> c, changes |-> changes]

\* The value assigned to a field, if it is assigned at all.
Assigned(row, changes) ==
    [k \in DOMAIN row |-> IF k \in DOMAIN changes THEN changes[k] ELSE row[k]]

\* Mine[t][c]: the columns of row c that no other task than t updates.
Mine ==
    [t \in Tasks |-> [c \in Requests |->
        {k \in Columns : \A u \in Tasks \ {t} : \A call \in Calls[u] :
            call.op = "update" /\ call.id = c => k \notin DOMAIN call.changes}]]

(***************************************************************************)
(* A call is well typed: pydantic validates its models.  An id is drawn    *)
(* for one message.  A rating names its message, a new conversation none.  *)
(* Two tasks that update one column of one row assign one value.  The last *)
(* holds of process, the only one to update the columns it updates, and of *)
(* the deliveries of one rating.  It excludes two different ratings of one *)
(* row, even one after the other, which the service does allow (a second   *)
(* rating from a new message still applies, tests/test_feedback.py):       *)
(* ConversationService models those, and AuditTrail shows that overlapping *)
(* ones are not atomic.                                                    *)
(***************************************************************************)
ASSUME CallsAssumption ==
    /\ \A t \in Tasks : \A call \in Calls[t] :
        /\ call.id \in Requests
        /\ \/ /\ call.op = "create"
              /\ call.row \in Conversation
              /\ call.row["feedback_message_id"] = None
           \/ /\ call.op = "update"
              /\ DOMAIN call.changes \subseteq Columns \ Immutable
              /\ \A k \in DOMAIN call.changes : call.changes[k] \in FieldType[k]
              /\ "feedback_message_id" \in DOMAIN call.changes =>
                     call.changes["feedback_message_id"] # None
    /\ \A t, u \in Tasks : \A a \in Calls[t], b \in Calls[u] : a.id = b.id =>
        /\ a.op = "create" /\ b.op = "create" =>
               a.row["provider_message_id"] = b.row["provider_message_id"]
        /\ a.op = "update" /\ b.op = "update" /\ t # u =>
               \A k \in DOMAIN a.changes \cap DOMAIN b.changes :
                   a.changes[k] = b.changes[k]
=============================================================================
