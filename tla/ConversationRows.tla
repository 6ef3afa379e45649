--------------------------- MODULE ConversationRows ---------------------------
(***************************************************************************)
(* The second inductive invariant, over IInv: what process() has written   *)
(* to the row of request r by the time pc[r] is reached, and what a rating *)
(* may rely on between its load and its commit.  It carries Lifecycle,     *)
(* SettledRecord, RepliesInTheResponse, RatingsWellPlaced, PromptScope and *)
(* KeepsPromise.                                                           *)
(***************************************************************************)
EXTENDS ConversationInvariant

Generating == {"history", "llm", "store_answer", "store_failure"}

\* A completed row has the answer, a failed one the reason.
StatusTells(c) ==
    /\ store[c].status = "completed" <=> store[c].llm_response # None
    /\ store[c].status = "failed" => store[c].error_message # None

\* How process() finds the row of r.
RowStage(r) ==
    /\ pc[r] = "begin" => store[r].status = "received"
    /\ pc[r] \in Generating => store[r].status = "processing"
    /\ pc[r] \in ProcessSteps =>
           store[r].delivery_status = None /\ store[r].provider_response_id = None
    /\ pc[r] = "store_answer" => reply[r].about \in Requests
    /\ pc[r] = "record_sent" => receipt[r] # None /\ outbox[r] # <<>>
    /\ pc[r] = "done" /\ r \in DOMAIN store => Recorded(r)

\* Only api mode sends, and only twiml mode replies in the response.
Channel(r) ==
    /\ pc[r] \in {"send", "record_sent", "record_failed", "send_ack"} => ReplyMode = "api"
    /\ pc[r] = "queue" => ReplyMode = "twiml"
    /\ outbox[r] # <<>> => ReplyMode = "api"
    /\ Completes(r) =>
           /\ pc[r] = "done"
           /\ r \in DOMAIN store
           /\ store[r].delivery_status = "queued"
           /\ response[r].reply = StoredReply(r)

\* The columns a rating has loaded may be stale, but what was set stays set.
RatingStage(r) ==
    /\ pc[r] \in {"load", "commit"} => store[target[r]].phone_number = Phone(r)
    /\ pc[r] = "commit" =>
           /\ loaded[r].feedback # "none" => store[target[r]].feedback # "none"
           /\ loaded[r].feedback_message_id # None =>
                  store[target[r]].feedback_message_id # None

RowInv ==
    /\ IsFiniteSet(DOMAIN store)
    /\ \A c \in DOMAIN store : StatusTells(c) /\ WellRated(c)
    /\ \A r \in Requests : RowStage(r) /\ Channel(r) /\ RatingStage(r) /\ InScope(r)

\* The ids of the ratings that were applied and acknowledged.
Acknowledged == {MessageId(q) : q \in {r \in Requests : IsRating(r) /\ TakenIn(r)}}

(***************************************************************************)
(* The third, over the other two: nothing is answered before it has been   *)
(* taken in or refused, and the rating of a row was acknowledged.          *)
(***************************************************************************)
DuplicateInv ==
    /\ \A r \in Requests : pc[r] \in {"idle"} \cup AcceptSteps => response[r] = None
    /\ \A c \in DOMAIN store :
           store[c].feedback_message_id # None =>
               store[c].feedback_message_id \in Acknowledged
    /\ DuplicatesHaveAnOriginal
=============================================================================
