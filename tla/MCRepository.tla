----------------------------- MODULE MCRepository -----------------------------
(***************************************************************************)
(* Concurrent callers for model checking: a question and its processing, a *)
(* retry of it whose task goes on with two more questions, and a rating    *)
(* delivered twice, which finds one row or another to rate.                *)
(***************************************************************************)
EXTENDS AdminListing, TLC

Question(messageId, now) == NewConversation("alice", messageId, now)

Rate(c) ==
    UpdateCall("feedback" :> "positive" @@ "feedback_message_id" :> "SM9", c)

FourCallers ==
    "question" :>
        {CreateCall(Question("SM1", 1), 1),
         UpdateCall("status" :> "completed" @@ "llm_response" :> 1, 1),
         UpdateCall("delivery_status" :> "sent", 1)}
    @@ "retry" :>
        {CreateCall(Question("SM1", 2), 2), CreateCall(Question("SM2", 1), 3),
         CreateCall(Question("SM3", 2), 4)}
    @@ "rating" :> {Rate(1), Rate(3)}
    @@ "rating retried" :> {Rate(1), Rate(3)}

FewCalls == "question" :> 3 @@ "retry" :> 2 @@ "rating" :> 1 @@ "rating retried" :> 1
===============================================================================
