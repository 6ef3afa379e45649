------------------------ MODULE ConversationInvariant ------------------------
(***************************************************************************)
(* The inductive invariant behind TypeOK, ConsistentReceipts,              *)
(* ReplyAtMostOnce and RecordBeforeReply: what is true of request r and of *)
(* its row at every value of pc[r].                                        *)
(***************************************************************************)
EXTENDS ConversationProperties

RatingSteps == {"feedback_lookup", "latest", "load", "commit", "send_ack"}

\* The unique constraint on provider_message_id.
UniqueMessages ==
    \A c, d \in DOMAIN store :
        store[c].provider_message_id = store[d].provider_message_id => c = d

\* Conversation c is the question of request c.
RowOfRequest(c) ==
    /\ ~IsRating(c)
    /\ store[c].provider_message_id = MessageId(c)
    /\ store[c].phone_number = Phone(c)

\* A request that has not created its conversation has none, one that is
\* processing has.
Stage(r) ==
    /\ pc[r] \in {"idle"} \cup AcceptSteps => r \notin DOMAIN store
    /\ pc[r] \in ProcessSteps => r \in DOMAIN store
    /\ pc[r] \in {"create", "refetch"} => ~IsRating(r)
    /\ pc[r] \in RatingSteps => IsRating(r)
    /\ pc[r] \in {"load", "commit"} => target[r] \in DOMAIN store
    /\ pc[r] = "send_ack" => reply[r] \in Text
    /\ pc[r] = "store_answer" =>
           reply[r] \in Text /\ reply[r] = Answer(reply[r].about)

\* The row of r says what its reply says.
Agrees(r, text) ==
    \/ store[r].status = "completed" /\ text = Answer(store[r].llm_response)
    \/ /\ store[r].status = "failed" /\ text = FallbackReply
       /\ store[r].llm_response = None

\* How far the row of r is filled in.
Progress(r) ==
    /\ pc[r] \in {"begin", "history", "llm", "store_answer", "store_failure"} =>
           store[r].llm_response = None
    /\ pc[r] \in {"send", "record_sent", "record_failed", "queue"} =>
           Agrees(r, reply[r])

\* Nothing is sent before the send, and then one SMS, which the row agrees with.
Mail(r) ==
    /\ pc[r] \in ({"idle"} \cup Running) \ {"record_sent"} => outbox[r] = <<>>
    /\ Len(outbox[r]) <= 1
    /\ ~IsRating(r) /\ outbox[r] # <<>> =>
           /\ r \in DOMAIN store
           /\ outbox[r][1].to = Phone(r)
           /\ Agrees(r, outbox[r][1].body)

\* A response that names the conversation of a question names a stored one.
Receipt(r) ==
    ~IsRating(r) /\ Receipted(r) =>
        /\ response[r].conversation \in DOMAIN store
        /\ store[response[r].conversation].provider_message_id = MessageId(r)

IInv ==
    /\ TypeOK
    /\ UniqueMessages
    /\ \A c \in DOMAIN store : RowOfRequest(c)
    /\ \A r \in Requests : Stage(r) /\ Progress(r) /\ Mail(r) /\ Receipt(r)
=============================================================================
