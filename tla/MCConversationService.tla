------------------------ MODULE MCConversationService ------------------------
(***************************************************************************)
(* Scenarios for model checking.  A scenario is the message each webhook   *)
(* request carries; the requests are posted in every order and overlap in  *)
(* every way.                                                              *)
(***************************************************************************)
EXTENDS ConversationProperties, TLC

Says(phone, body, messageId) ==
    [phone_number |-> phone, body |-> body, provider_message_id |-> messageId]

Asks(phone, messageId) == Says(phone, "question", messageId)

\* One question delivered twice, and a rating.
RetriedQuestion ==
    1 :> Asks("alice", "SM1") @@ 2 :> Asks("alice", "SM1")
    @@ 3 :> Says("alice", "positive", "SM2")

\* Two questions of one number.
TwoQuestions == 1 :> Asks("alice", "SM1") @@ 2 :> Asks("alice", "SM2")

\* One question, and a rating delivered twice.
RetriedRating ==
    1 :> Asks("alice", "SM1")
    @@ 2 :> Says("alice", "positive", "SM2") @@ 3 :> Says("alice", "positive", "SM2")

\* Two questions, and a rating delivered twice.
RetriedRatingTwoQuestions == RetriedRating @@ 4 :> Asks("alice", "SM3")

\* One question, a rating, its opposite, and one of the two again: as a retry,
\* or as a third rating.
ChangeOfMindRetried ==
    RetriedRating @@ 4 :> Says("alice", "negative", "SM3")
ChangeOfMindTwice ==
    1 :> Asks("alice", "SM1") @@ 2 :> Says("alice", "negative", "SM2")
    @@ 3 :> Says("alice", "positive", "SM3") @@ 4 :> Says("alice", "negative", "SM4")

\* One question delivered twice and a rating, and a question of another number.
TwoUsers ==
    1 :> Asks("alice", "SM1") @@ 2 :> Asks("alice", "SM1") @@ 3 :> Asks("bob", "SM3")
    @@ 4 :> Says("alice", "positive", "SM2")

-----------------------------------------------------------------------------
\* The behaviours in which a request, with the background task it leaves, is
\* over before the next one is posted.
OneAtATime == Cardinality({r \in Requests : pc[r] \in Running}) <= 1
SerialSpec == Init /\ [][Next /\ OneAtATime']_vars
=============================================================================
