------------------------------- MODULE MCGateway -------------------------------
(***************************************************************************)
(* Instances of Gateway for TLC: one request of every kind next to one of  *)
(* a few kinds.                                                            *)
(***************************************************************************)
EXTENDS Gateway

\* Twilio in every state of its settings; else one setting off at a time.
Defaults ==
    [sms |-> "mock", account |-> FALSE, token |-> FALSE, validate |-> TRUE,
     llm |-> "mock", key |-> FALSE, debug |-> TRUE, asciiPassword |-> TRUE]

SomeSettings ==
    {[Defaults EXCEPT !.sms = "twilio", !.account = a, !.token = t, !.validate = v] :
         a, t, v \in BOOLEAN}
    \cup {[Defaults EXCEPT !.token = t, !.debug = FALSE] : t \in BOOLEAN}
    \cup {[Defaults EXCEPT !.llm = "groq", !.key = k, !.asciiPassword = FALSE] : k \in BOOLEAN}

Senders == {"+361", "0036 1", "letters", "absent"}

Bodies == {"hi", "", "absent"}

Ids == {"SM1", "", "absent"} \X {"SM2", "absent"}

Sms(id) ==
    [route: {"/webhooks/sms"}, requestId: {id}, readable: BOOLEAN, sender: Senders,
     body: Bodies, ids: Ids, timestamp: {"absent", "good", "bad"}]

TwilioSms(id) ==
    [route: {"/webhooks/sms/twilio"}, requestId: {id}, sender: Senders, body: Bodies, ids: Ids,
     form: {"read", "malformed", "undecodable"}, signature: {"right", "wrong", "absent"}]

Admin(id) ==
    [route: {"/admin/conversations"}, requestId: {id}, readable: BOOLEAN, sender: Senders,
     credentials: {"right", "wrong", "absent"}]

Others(id) == [route: {"/debug/outbox", "/health"}, requestId: {id}]

\* Two requests, the second with an id of the caller.
TwoRequests ==
    [r \in Requests |->
        IF r = "r1"
        THEN Sms("absent") \cup TwilioSms("") \cup Admin("absent") \cup Others("absent")
        ELSE {[route |-> "/webhooks/sms", requestId |-> "theirs", readable |-> TRUE,
               sender |-> "+361", body |-> "hi", ids |-> <<"SM1", "absent">>,
               timestamp |-> "absent"],
              [route |-> "/admin/conversations", requestId |-> "theirs", readable |-> TRUE,
               sender |-> "letters", credentials |-> "right"]}]
=============================================================================
