----------------------------- MODULE GatewayProofs -----------------------------
(***************************************************************************)
(* Request ids, signatures and what the service is handed, for every set   *)
(* of requests, whatever they contain and whatever the settings are.       *)
(***************************************************************************)
EXTENDS Gateway, WellFoundedInduction, TLAPS

\* The variables are functions of the requests.
Shape ==
    /\ DOMAIN pc = Requests
    /\ DOMAIN context = Requests
    /\ \A r \in Requests : DOMAIN context[r] = Tasks
    /\ DOMAIN response = Requests
    /\ DOMAIN input = Requests

\* What is known of a request, by where it is.
RequestOk(r) ==
    /\ pc[r] # "new" =>
           /\ app = "running"
           /\ \A t \in Tasks : context[r][t] = RequestId(r)
    /\ pc[r] = "call" => Verdict(settings, input[r]) = None
    /\ pc[r] = "respond" => DOMAIN response[r] = {"status", "requestId", "header"}
    /\ pc[r] \in {"respond", "background", "done"} /\ response[r].status >= 400 =>
           response[r].requestId = RequestId(r)

\* A request that has left a trace is under way.
LinesOk ==
    \A l \in lines : l.request \in Requests /\ pc[l.request] # "new" /\ l.id = RequestId(l.request)

TakenOk ==
    \A m \in taken :
        /\ m.request \in Requests
        /\ pc[m.request] # "new"
        /\ Verdict(settings, input[m.request]) = None

WInv ==
    /\ Shape
    /\ app = "running" => Configured(settings)
    /\ \A r \in Requests : RequestOk(r)
    /\ LinesOk
    /\ TakenOk

-----------------------------------------------------------------------------

LEMMA GatewayStarts == Init => WInv
  BY DEF Init, WInv, Shape, RequestOk, LinesOk, TakenOk

\* Startup raises no error only if everything is configured.
LEMMA StartKeeps == WInv /\ Start => WInv'
<1> SUFFICES ASSUME WInv, Start PROVE WInv'
  OBVIOUS
<1>1. UNCHANGED <<settings, pc, input, context, response, taken, lines>>
  BY DEF Start
<1>2. app' = "running" => Configured(settings)
  BY DEF Start
<1>3. ASSUME NEW r \in Requests PROVE pc[r] = "new"
  BY DEF WInv, RequestOk, Start
<1>4. \A r \in Requests : RequestOk(r)'
  BY <1>1, <1>3 DEF RequestOk
<1>5. LinesOk' /\ TakenOk' /\ Shape'
  BY <1>1 DEF WInv, LinesOk, TakenOk, Shape, RequestId
<1>6. Configured(settings)' = Configured(settings)
  BY <1>1 DEF Configured, HasCredentials
<1> QED
  BY <1>2, <1>4, <1>5, <1>6 DEF WInv

(***************************************************************************)
(* A step of request q leaves the others alone, so the invariant needs to  *)
(* be shown for q and for what q has logged.                               *)
(***************************************************************************)
LEMMA OnlyOne ==
    ASSUME WInv, NEW q \in Requests,
           Shape', UNCHANGED <<settings, app>>,
           \A r \in Requests \ {q} :
               /\ pc'[r] = pc[r] /\ context'[r] = context[r]
               /\ response'[r] = response[r] /\ input'[r] = input[r],
           RequestOk(q)',
           pc[q] # "new" => input'[q] = input[q] /\ pc'[q] # "new",
           \A l \in lines' : l \in lines \/ (l.request = q /\ l.id = RequestId(q)' /\ pc'[q] # "new"),
           \A m \in taken' : m \in taken
               \/ (m.request = q /\ Verdict(settings, input[q])' = None /\ pc'[q] # "new")
    PROVE  WInv'
<1>1. \A r \in Requests \ {q} : RequestId(r)' = RequestId(r)
  BY DEF RequestId
<1>2. \A r \in Requests \ {q} : Verdict(settings, input[r])' = Verdict(settings, input[r])
  BY DEF Verdict
<1>3. \A r \in Requests \ {q} : RequestOk(r)'
  BY <1>1, <1>2 DEF WInv, RequestOk
<1>4. pc[q] # "new" => RequestId(q)' = RequestId(q)
  BY DEF RequestId
<1>5. LinesOk'
  BY <1>1, <1>4 DEF WInv, LinesOk
<1>6. TakenOk'
  BY <1>2 DEF WInv, TakenOk
<1>7. (app = "running" => Configured(settings))'
  BY DEF WInv, Configured, HasCredentials
<1> QED
  BY <1>3, <1>5, <1>6, <1>7 DEF WInv

LEMMA DispatchKeeps ==
    ASSUME WInv, NEW q \in Requests, Dispatch(q) PROVE WInv'
<1>1. PICK in \in Inputs[q] : input' = [input EXCEPT ![q] = in]
  BY DEF Dispatch
<1>2. context' = [context EXCEPT ![q] = [t \in Tasks |-> RequestId(q)']]
  BY DEF Dispatch, SetRequestId
<1>3. pc' = [pc EXCEPT ![q] = "route"] /\ UNCHANGED <<settings, app, response, taken, lines>>
  BY DEF Dispatch
<1>4. Shape'
  BY <1>1, <1>2, <1>3 DEF WInv, Shape
<1>5. RequestOk(q)'
  BY <1>2, <1>3 DEF WInv, Shape, RequestOk, Dispatch
<1>6. pc[q] = "new"
  BY DEF Dispatch
<1> QED
  BY <1>1, <1>2, <1>3, <1>4, <1>5, <1>6, OnlyOne DEF WInv, Shape

\* An exception ends in a response that names the request it was raised for.
LEMMA RaisesOk ==
    ASSUME WInv, NEW q \in Requests, NEW code, pc[q] # "new", Raises(q, code),
           UNCHANGED <<settings, app, input, context, taken>>
    PROVE  WInv'
<1>1. \A t \in Tasks : context[q][t] = RequestId(q)
  BY DEF WInv, RequestOk
<1>2. RequestId(q)' = RequestId(q)
  BY DEF RequestId
<1>3. PICK task \in Tasks, next \in {"done", "respond"} :
        /\ response' = [response EXCEPT ![q] =
               Response(StatusOf(code), context[q][task])]
        /\ pc' = [pc EXCEPT ![q] = next]
        /\ next = "done" => code = "unhandled"
        /\ UNCHANGED lines \/ lines' = lines \cup {[request |-> q, id |-> context[q][task]]}
  BY DEF Raises, ErrorResponse, Logs, Tasks
<1>4. StatusOf("unhandled") = 500
  BY DEF StatusOf
<1>5. Shape'
  BY <1>3 DEF WInv, Shape
<1>6. /\ pc'[q] = next
      /\ response'[q] = [status |-> StatusOf(code), requestId |-> RequestId(q), header |-> None]
  BY <1>1, <1>3 DEF WInv, Shape, Response
<1>7. RequestOk(q)'
  BY <1>1, <1>2, <1>3, <1>4, <1>6 DEF WInv, RequestOk
<1>8. \A l \in lines' : l \in lines \/ (l.request = q /\ l.id = RequestId(q)' /\ pc'[q] # "new")
  BY <1>1, <1>2, <1>3, <1>6
<1> QED
  BY <1>3, <1>5, <1>6, <1>7, <1>8, OnlyOne DEF WInv, Shape

LEMMA RouteKeeps ==
    ASSUME WInv, NEW q \in Requests, Route(q) PROVE WInv'
<1>1. CASE Verdict(settings, input[q]) = None
  <2>1. /\ pc[q] = "route" /\ pc' = [pc EXCEPT ![q] = "call"]
        /\ UNCHANGED <<settings, app, input, context, response, taken, lines>>
    BY <1>1 DEF Route
  <2>2. Shape'
    BY <2>1 DEF WInv, Shape
  <2>3. RequestId(q)' = RequestId(q)
    BY <2>1 DEF RequestId
  <2>4. Verdict(settings, input[q])' = None
    BY <1>1, <2>1
  <2>5. RequestOk(q)'
    BY <2>1, <2>3, <2>4 DEF WInv, Shape, RequestOk
  <2> QED
    BY <2>1, <2>2, <2>5, OnlyOne DEF WInv, Shape
<1>2. CASE Verdict(settings, input[q]) # None
  BY <1>2, RaisesOk DEF Route
<1> QED
  BY <1>1, <1>2

LEMMA CallReturnsKeeps ==
    ASSUME WInv, NEW q \in Requests, CallReturns(q) PROVE WInv'
<1>1. /\ pc[q] = "call" /\ pc' = [pc EXCEPT ![q] = "respond"]
      /\ UNCHANGED <<settings, app, input, context>>
  BY DEF CallReturns
<1>2. \A t \in Tasks : context[q][t] = RequestId(q)
  BY <1>1 DEF WInv, RequestOk
<1>3. RequestId(q)' = RequestId(q)
  BY <1>1 DEF RequestId
<1>4. Verdict(settings, input[q])' = None
  BY <1>1 DEF WInv, RequestOk
<1>5. PICK status \in {200, 202} :
        response' = [response EXCEPT ![q] = Response(status, None)]
  BY DEF CallReturns
<1>6. Shape'
  BY <1>1, <1>5 DEF WInv, Shape
<1>7. pc'[q] = "respond" /\ response'[q] = [status |-> status, requestId |-> None, header |-> None]
  BY <1>1, <1>5 DEF WInv, Shape, Response
<1>8. RequestOk(q)'
  BY <1>1, <1>2, <1>3, <1>7 DEF WInv, RequestOk
<1>9. \A l \in lines' : l \in lines \/ (l.request = q /\ l.id = RequestId(q)' /\ pc'[q] # "new")
  BY <1>2, <1>3, <1>7 DEF CallReturns, Logs, Tasks
<1>10. \A m \in taken' : m \in taken \/ m.request = q
  BY DEF CallReturns
<1> QED
  BY <1>1, <1>4, <1>5, <1>6, <1>7, <1>8, <1>9, <1>10, OnlyOne DEF WInv, Shape

LEMMA CallFailsKeeps ==
    ASSUME WInv, NEW q \in Requests, CallFails(q) PROVE WInv'
  BY RaisesOk DEF CallFails

LEMMA EchoKeeps ==
    ASSUME WInv, NEW q \in Requests, Echo(q) PROVE WInv'
<1>1. /\ pc[q] = "respond"
      /\ response' = [response EXCEPT ![q].header = RequestId(q)]
      /\ UNCHANGED <<settings, app, input, context, taken, lines>>
  BY DEF Echo
<1>2. PICK next \in {"background", "done"} : pc' = [pc EXCEPT ![q] = next]
  BY DEF Echo
<1>3. RequestId(q)' = RequestId(q)
  BY <1>1 DEF RequestId
<1>4. Shape'
  BY <1>1, <1>2 DEF WInv, Shape
<1>5. /\ pc'[q] = next
      /\ response'[q] = [response[q] EXCEPT !.header = RequestId(q)]
  BY <1>1, <1>2 DEF WInv, Shape
<1> QED
  BY <1>1, <1>2, <1>3, <1>4, <1>5, OnlyOne DEF WInv, Shape, RequestOk

LEMMA BackgroundKeeps ==
    ASSUME WInv, NEW q \in Requests, Background(q) PROVE WInv'
<1>1. /\ pc[q] = "background" /\ pc' = [pc EXCEPT ![q] = "done"]
      /\ UNCHANGED lines \/ lines' = lines \cup {[request |-> q, id |-> context[q]["handler"]]}
      /\ UNCHANGED <<settings, app, input, context, response, taken>>
  BY DEF Background, Logs
<1>2. context[q]["handler"] = RequestId(q)
  BY <1>1 DEF WInv, RequestOk, Tasks
<1>3. RequestId(q)' = RequestId(q)
  BY <1>1 DEF RequestId
<1>4. Shape'
  BY <1>1 DEF WInv, Shape
<1>5. pc'[q] = "done"
  BY <1>1 DEF WInv, Shape
<1>6. RequestOk(q)'
  BY <1>1, <1>3, <1>5 DEF WInv, RequestOk
<1>7. \A l \in lines' : l \in lines \/ (l.request = q /\ l.id = RequestId(q)' /\ pc'[q] # "new")
  BY <1>1, <1>2, <1>3, <1>5
<1>8. \A r \in Requests \ {q} : pc'[r] = pc[r]
  BY <1>1 DEF WInv, Shape
<1> QED
  BY <1>1, <1>4, <1>5, <1>6, <1>7, <1>8, OnlyOne

LEMMA GatewayIdles == WInv /\ UNCHANGED vars => WInv'
<1> SUFFICES ASSUME WInv, UNCHANGED vars PROVE WInv'
  OBVIOUS
<1>1. UNCHANGED <<settings, app, pc, input, context, response, taken, lines>>
  BY DEF vars
<1>2. Shape' /\ LinesOk'
  BY <1>1 DEF WInv, Shape, LinesOk, RequestId
<1>3. \A r : Verdict(settings, input[r])' = Verdict(settings, input[r])
  BY <1>1
<1>4. TakenOk'
  BY <1>1, <1>3 DEF WInv, TakenOk
<1>5. \A r \in Requests : RequestOk(r)'
  BY <1>1, <1>3, ZenonT(40) DEF WInv, RequestOk, RequestId
<1>6. (app = "running" => Configured(settings))'
  BY <1>1 DEF WInv, Configured, HasCredentials
<1> QED
  BY <1>2, <1>4, <1>5, <1>6 DEF WInv

-----------------------------------------------------------------------------

\* WInv holds in every reachable state.
THEOREM GatewayInvariance == Spec => []WInv
<1>1. Init => WInv
  BY GatewayStarts
<1>2. WInv /\ [Next]_vars => WInv'
  BY StartKeeps, DispatchKeeps, RouteKeeps, CallReturnsKeeps, CallFailsKeeps, EchoKeeps,
     BackgroundKeeps, GatewayIdles DEF Next
<1> QED
  BY <1>1, <1>2, PTL DEF Spec

(***************************************************************************)
(* However many requests overlap, a log line carries the id of its own     *)
(* (LinesNameTheirRequest).                                                *)
(***************************************************************************)
THEOREM LinesAreCorrelated == Spec => []LinesNameTheirRequest
<1>1. WInv => LinesNameTheirRequest
  BY DEF WInv, LinesOk, LinesNameTheirRequest
<1> QED
  BY <1>1, GatewayInvariance, PTL

(***************************************************************************)
(* Every error names its request in its body, whichever handler answers    *)
(* for it (ErrorsNameTheirRequest).                                        *)
(***************************************************************************)
THEOREM ErrorsAreCorrelated == Spec => []ErrorsNameTheirRequest
<1>1. WInv => ErrorsNameTheirRequest
  BY DEF WInv, RequestOk, ErrorsNameTheirRequest
<1> QED
  BY <1>1, GatewayInvariance, PTL

\* What passes the Twilio route while signatures are validated is signed.
LEMMA SignatureChecked ==
    ASSUME NEW s, NEW in, in.route = "/webhooks/sms/twilio", ValidatesSignature(s),
           Verdict(s, in) = None
    PROVE  in.signature = "right"
<1>1. Verdict(s, in) = ReceiveTwilioSms(s, in)
  BY DEF Verdict
<1>2. None \notin {"malformed_form", "invalid_webhook", "invalid_signature"}
  BY GatewayAssumption DEF Codes, HttpErrors
<1> QED
  BY <1>1, <1>2 DEF ReceiveTwilioSms, SignatureError

(***************************************************************************)
(* With SMS_PROVIDER=twilio and validation on, the Twilio route takes      *)
(* nothing unsigned (TwilioMessagesAreSigned).                             *)
(***************************************************************************)
THEOREM SignedMessagesOnly == Spec => []TwilioMessagesAreSigned
<1>1. WInv => TwilioMessagesAreSigned
  BY SignatureChecked
     DEF WInv, TakenOk, RequestOk, Configured, HasCredentials, ValidatesSignature,
         TwilioMessagesAreSigned
<1> QED
  BY <1>1, GatewayInvariance, PTL

-----------------------------------------------------------------------------
(* What the service is handed. *)

\* A set of indices has a first one.
LEMMA Least == ASSUME NEW S, S \subseteq Nat, S # {} PROVE Min(S) \in S
<1> DEFINE less == OpToRel(<, Nat)
<1>1. IsWellFoundedOn(less, Nat)
  BY NatLessThanWellFounded
<1>2. \A x, y \in Nat : y < x => <<y, x>> \in less
  BY DEF OpToRel
<1> HIDE DEF less
<1>3. PICK x \in S : \A y \in S : <<y, x>> \notin less
  BY <1>1, WFMin
<1>4. \A y \in S : ~(y < x)
  BY <1>2, <1>3
<1>5. \A y \in S : x <= y
  BY <1>4
<1> QED
  BY <1>5 DEF Min

\* The first value that is given is one that is given.
LEMMA FirstIsGiven ==
    ASSUME NEW V, NEW values \in Seq(V), First(values) # None
    PROVE  First(values) \in V \ {"absent", ""}
<1> DEFINE given == {i \in DOMAIN values : values[i] \notin {"absent", ""}}
<1>1. \A i \in DOMAIN values : i \in Nat /\ values[i] \in V
  OBVIOUS
<1>2. First(values) = IF given = {} THEN None ELSE values[Min(given)]
  BY DEF First
<1>3. \A i \in given : i \in DOMAIN values /\ values[i] \notin {"absent", ""}
  OBVIOUS
<1> HIDE DEF given
<1>4. given # {} /\ First(values) = values[Min(given)]
  BY <1>2
<1>5. Min(given) \in given
  <2>1. given \subseteq Nat
    BY <1>1, <1>3
  <2> QED
    BY <1>4, <2>1, Least
<1> QED
  BY <1>1, <1>3, <1>4, <1>5

\* _first of one value is that value, unless it is empty.
LEMMA FirstOfOne ==
    ASSUME NEW body, body # None
    PROVE  First(<<body>>) = None <=> body \in {"absent", ""}
<1>1. DOMAIN <<body>> = {1} /\ <<body>>[1] = body
  OBVIOUS
<1> DEFINE given == {i \in DOMAIN <<body>> : <<body>>[i] \notin {"absent", ""}}
<1>2. First(<<body>>) = IF given = {} THEN None ELSE <<body>>[Min(given)]
  BY DEF First
<1>3. given = IF body \in {"absent", ""} THEN {} ELSE {1}
  BY <1>1
<1> HIDE DEF given
<1>4. Min({1}) = 1
  BY Least
<1> QED
  BY <1>1, <1>2, <1>3, <1>4

\* A message the service has taken is that of its request, from a webhook.
TakenAsSent ==
    \A m \in taken :
        /\ IsWebhook(input[m.request])
        /\ m.message = MessageOf(input[m.request])

Statuses == {0, 200, 202, 400, 401, 403, 404, 422, 500}

RequestTyped(r) ==
    /\ pc[r] \in {"new", "route", "call", "respond", "background", "done"}
    /\ pc[r] # "new" => input[r] \in Inputs[r]
    /\ response[r].status \in Statuses

\* The second inductive invariant, over the first.
SInv ==
    /\ settings \in Settings
    /\ app \in {"starting", "running", "failed"}
    /\ \A r \in Requests : RequestTyped(r)
    /\ TakenAsSent

LEMMA StatusOfCode == ASSUME NEW code \in Codes PROVE StatusOf(code) \in Statuses
  BY DEF Codes, HttpErrors, StatusOf, Statuses

LEMMA VerdictIsCode ==
    ASSUME NEW s, NEW in, in.route \in Routes PROVE Verdict(s, in) \in Codes \cup {None}
<1>1. GenericError(in) \in Codes \cup {None} /\ TwilioError(in) \in Codes \cup {None}
  BY DEF GenericError, TwilioError, Codes, HttpErrors
<1>2. ReceiveSms(in) \in Codes \cup {None} /\ ReceiveTwilioSms(s, in) \in Codes \cup {None}
  BY <1>1 DEF ReceiveSms, ReceiveTwilioSms, SignatureError, Codes, HttpErrors
<1>3. ListConversations(s, in) \in Codes \cup {None}
  BY DEF ListConversations, RequireAdmin, Codes, HttpErrors
<1>4. Outbox(s) \in Codes \cup {None}
  BY DEF Outbox, Codes, HttpErrors
<1> QED
  BY <1>2, <1>3, <1>4 DEF Verdict, Routes, Webhooks

\* What a webhook accepts has a sender that is a number, a body and an id.
LEMMA AcceptedPayload ==
    ASSUME NEW s, NEW in, IsWebhook(in), Verdict(s, in) = None
    PROVE  /\ IsPhone(in.sender) /\ First(in.ids) # None
           /\ IF in.route = "/webhooks/sms" THEN First(<<in.body>>) # None
                                            ELSE in.body # "absent"
<1>1. \A code \in Codes : code # None
  BY GatewayAssumption
<1>2. CASE in.route = "/webhooks/sms"
  <2>1. ReceiveSms(in) = None
    BY <1>2 DEF Verdict
  <2>2. GenericError(in) = None
    BY <1>1, <2>1 DEF ReceiveSms, Codes
  <2> QED
    BY <1>1, <1>2, <2>2 DEF GenericError, Codes
<1>3. CASE in.route = "/webhooks/sms/twilio"
  <2>1. ReceiveTwilioSms(s, in) = None
    BY <1>3 DEF Verdict
  <2>2. TwilioError(in) = None
    BY <1>1, <2>1 DEF ReceiveTwilioSms, Codes, HttpErrors
  <2> QED
    BY <1>1, <1>3, <2>2 DEF TwilioError, MessageSid, Codes
<1> QED
  BY <1>2, <1>3 DEF IsWebhook, Webhooks

LEMMA PayloadsStart == Init => SInv
  BY DEF Init, SInv, RequestTyped, TakenAsSent, NoResponse, Response, Statuses

(***************************************************************************)
(* A step of request q leaves the types of the others alone, and the       *)
(* messages taken before it.                                               *)
(***************************************************************************)
LEMMA OnlyOneTyped ==
    ASSUME WInv, SInv, NEW q \in Requests, UNCHANGED <<settings, app>>,
           \A r \in Requests \ {q} :
               pc'[r] = pc[r] /\ response'[r] = response[r] /\ input'[r] = input[r],
           RequestTyped(q)',
           pc[q] # "new" => input'[q] = input[q],
           \A m \in taken' : m \in taken
               \/ (m.request = q /\ IsWebhook(input'[q]) /\ m.message = MessageOf(input'[q]))
    PROVE  SInv'
<1>1. \A r \in Requests : RequestTyped(r)'
  BY DEF SInv, RequestTyped
<1>2. \A m \in taken : input'[m.request] = input[m.request]
  BY DEF WInv, TakenOk
<1>3. ASSUME NEW m \in taken'
      PROVE  IsWebhook(input'[m.request]) /\ m.message = MessageOf(input'[m.request])
  <2>1. CASE m \in taken
    BY <1>2, <2>1 DEF SInv, TakenAsSent
  <2>2. CASE m \notin taken
    BY <2>2
  <2> QED
    BY <2>1, <2>2
<1> QED
  BY <1>1, <1>3 DEF SInv, TakenAsSent

\* An error is one of the codes, so its response has one of the statuses.
LEMMA RaisesTyped ==
    ASSUME WInv, SInv, NEW q \in Requests, NEW code \in Codes, pc[q] # "new", Raises(q, code),
           UNCHANGED <<settings, app, input, context, taken>>
    PROVE  SInv'
<1>1. PICK task \in Tasks, next \in {"done", "respond"} :
        /\ response' = [response EXCEPT ![q] = Response(StatusOf(code), context[q][task])]
        /\ pc' = [pc EXCEPT ![q] = next]
  BY DEF Raises, ErrorResponse, Tasks
<1>2. response'[q].status = StatusOf(code) /\ pc'[q] = next
  BY <1>1 DEF WInv, Shape, Response
<1>3. RequestTyped(q)'
  BY <1>2, StatusOfCode DEF SInv, RequestTyped
<1> QED
  BY <1>1, <1>3, OnlyOneTyped DEF WInv, Shape

\* One step of one request keeps SInv.
LEMMA RequestStaysTyped ==
    ASSUME WInv, SInv, NEW q \in Requests,
           Dispatch(q) \/ Route(q) \/ CallReturns(q) \/ CallFails(q) \/ Echo(q) \/ Background(q)
    PROVE  SInv'
<1>1. CASE Dispatch(q)
  <2>1. PICK in \in Inputs[q] : input' = [input EXCEPT ![q] = in]
    BY <1>1 DEF Dispatch
  <2>2. /\ pc[q] = "new" /\ pc' = [pc EXCEPT ![q] = "route"]
        /\ UNCHANGED <<settings, app, response, taken>>
    BY <1>1 DEF Dispatch
  <2>3. RequestTyped(q)'
    BY <2>1, <2>2 DEF WInv, Shape, SInv, RequestTyped
  <2> QED
    BY <2>1, <2>2, <2>3, OnlyOneTyped DEF WInv, Shape
<1>2. CASE Route(q)
  <2>1. pc[q] = "route" /\ UNCHANGED <<settings, app, input, context, taken>>
    BY <1>2 DEF Route
  <2>2. CASE Verdict(settings, input[q]) = None
    <3>1. pc' = [pc EXCEPT ![q] = "call"] /\ UNCHANGED response
      BY <1>2, <2>2 DEF Route
    <3>2. RequestTyped(q)'
      BY <2>1, <3>1 DEF WInv, Shape, SInv, RequestTyped
    <3> QED
      BY <2>1, <3>1, <3>2, OnlyOneTyped DEF WInv, Shape
  <2>3. CASE Verdict(settings, input[q]) # None
    <3>1. input[q].route \in Routes
      BY <2>1, GatewayAssumption DEF SInv, RequestTyped
    <3>2. Verdict(settings, input[q]) \in Codes
      BY <2>3, <3>1, VerdictIsCode
    <3> QED
      BY <1>2, <2>1, <2>3, <3>2, RaisesTyped DEF Route
  <2> QED
    BY <2>2, <2>3
<1>3. CASE CallReturns(q)
  <2>1. /\ pc[q] = "call" /\ pc' = [pc EXCEPT ![q] = "respond"]
        /\ UNCHANGED <<settings, app, input, context>>
    BY <1>3 DEF CallReturns
  <2>2. PICK status \in {200, 202} :
          response' = [response EXCEPT ![q] = Response(status, None)]
    BY <1>3 DEF CallReturns
  <2>3. RequestTyped(q)'
    BY <2>1, <2>2 DEF WInv, Shape, SInv, RequestTyped, Response, Statuses
  <2>4. \A m \in taken' : m \in taken
            \/ (m.request = q /\ IsWebhook(input[q]) /\ m.message = MessageOf(input[q]))
    BY <1>3 DEF CallReturns
  <2> QED
    BY <2>1, <2>2, <2>3, <2>4, OnlyOneTyped DEF WInv, Shape
<1>4. CASE CallFails(q)
  BY <1>4, RaisesTyped DEF CallFails, Codes
<1>5. CASE Echo(q)
  <2>1. /\ pc[q] = "respond"
        /\ response' = [response EXCEPT ![q].header = RequestId(q)]
        /\ UNCHANGED <<settings, app, input, context, taken>>
    BY <1>5 DEF Echo
  <2>2. PICK next \in {"background", "done"} : pc' = [pc EXCEPT ![q] = next]
    BY <1>5 DEF Echo
  <2>3. response'[q].status = response[q].status
    BY <2>1 DEF WInv, Shape, RequestOk
  <2>4. RequestTyped(q)'
    BY <2>1, <2>2, <2>3 DEF WInv, Shape, SInv, RequestTyped
  <2> QED
    BY <2>1, <2>2, <2>4, OnlyOneTyped DEF WInv, Shape
<1>6. CASE Background(q)
  <2>1. /\ pc' = [pc EXCEPT ![q] = "done"] /\ pc[q] = "background"
        /\ UNCHANGED <<settings, app, input, response, taken>>
    BY <1>6 DEF Background
  <2>2. RequestTyped(q)'
    BY <2>1 DEF WInv, Shape, SInv, RequestTyped
  <2> QED
    BY <2>1, <2>2, OnlyOneTyped DEF WInv, Shape
<1> QED
  BY <1>1, <1>2, <1>3, <1>4, <1>5, <1>6

LEMMA PayloadsStay == WInv /\ SInv /\ [Next]_vars => SInv'
<1> SUFFICES ASSUME WInv, SInv, [Next]_vars PROVE SInv'
  OBVIOUS
<1>1. CASE Start
  BY <1>1 DEF Start, SInv, RequestTyped, TakenAsSent
<1>2. CASE UNCHANGED vars
  BY <1>2 DEF vars, SInv, RequestTyped, TakenAsSent
<1> QED
  BY <1>1, <1>2, RequestStaysTyped DEF Next

\* WInv and SInv hold in every reachable state.
THEOREM PayloadInvariance == Spec => [](WInv /\ SInv)
<1>1. Init => WInv /\ SInv
  BY GatewayStarts, PayloadsStart
<1>2. WInv /\ SInv /\ [Next]_vars => SInv'
  BY PayloadsStay
<1> QED
  BY <1>1, <1>2, GatewayInvariance, PTL DEF Spec

\* What is known of a message taken: it is that of a payload its route accepts.
LEMMA TakenIsAccepted ==
    ASSUME WInv, SInv, NEW m \in taken, NEW in, in = input[m.request]
    PROVE  /\ m.request \in Requests /\ IsWebhook(in) /\ Verdict(settings, in) = None
           /\ m.message = MessageOf(in)
           /\ in.body # None /\ in.ids \in Seq(STRING \ {None})
<1>1. m.request \in Requests /\ pc[m.request] # "new" /\ Verdict(settings, in) = None
  BY DEF WInv, TakenOk
<1>2. IsWebhook(in) /\ m.message = MessageOf(in)
  BY DEF SInv, TakenAsSent
<1>3. in \in Inputs[m.request]
  BY <1>1 DEF SInv, RequestTyped
<1> QED
  BY <1>1, <1>2, <1>3, GatewayAssumption DEF IsWebhook

(***************************************************************************)
(* The service is handed normalised numbers and real message ids, never a  *)
(* missing one, whatever the payloads hold (GatewayTypeOK).                *)
(***************************************************************************)
THEOREM GatewayIsTyped == Spec => []GatewayTypeOK
<1>1. ASSUME WInv, SInv, NEW m \in taken
      PROVE  /\ m.request \in Requests
             /\ m.message.phone = "+361"
             /\ m.message.body # "absent"
             /\ m.message.id \notin {"absent", "", None}
  <2> DEFINE in == input[m.request]
  <2>1. /\ m.request \in Requests /\ IsWebhook(in) /\ Verdict(settings, in) = None
        /\ m.message = MessageOf(in)
        /\ in.body # None /\ in.ids \in Seq(STRING \ {None})
    BY <1>1, TakenIsAccepted
  <2> HIDE DEF in
  <2>2. /\ IsPhone(in.sender) /\ First(in.ids) # None
        /\ IF in.route = "/webhooks/sms" THEN First(<<in.body>>) # None
                                         ELSE in.body # "absent"
    BY <2>1, AcceptedPayload
  <2>3. m.message = [phone |-> Normalized(in.sender), body |-> in.body, id |-> First(in.ids)]
    BY <2>1 DEF MessageOf, Message, MessageSid
  <2>4. Normalized(in.sender) = "+361"
    BY <2>2 DEF IsPhone, Normalized
  <2>5. First(in.ids) \notin {"absent", "", None}
    BY <2>1, <2>2, FirstIsGiven
  <2>6. in.body # "absent"
    BY <2>1, <2>2, FirstOfOne
  <2>7. m.message.phone = "+361" /\ m.message.body = in.body /\ m.message.id = First(in.ids)
    BY <2>3, <2>4
  <2> QED
    BY <2>1, <2>5, <2>6, <2>7
<1>2. WInv /\ SInv => GatewayTypeOK
  BY <1>1 DEF SInv, RequestTyped, Statuses, GatewayTypeOK
<1> QED
  BY <1>2, PayloadInvariance, PTL
=============================================================================
