-------------------------------- MODULE Gateway --------------------------------
(***************************************************************************)
(* The HTTP layer around the service: startup from the settings            *)
(* (app/main.py and the factories), the middleware that gives each request *)
(* its id, the checks and parsers of the routes, and the handlers that     *)
(* turn exceptions into responses.  What the service then does with a      *)
(* message is ConversationService; here it accepts or raises.              *)
(*                                                                         *)
(* A value of a payload is one of a few strings: "" is an empty one, and   *)
(* "absent" a missing or null one.                                         *)
(***************************************************************************)
EXTENDS Naturals, Sequences, FiniteSetsExt

CONSTANTS
    None,
    Requests,  \* The requests; also the ids generated for them.
    Settings,  \* The configurations to look at.
    Inputs     \* Inputs[r]: what request r may contain.

\* The exceptions of Starlette, which all are "http_error" in the response.
HttpErrors == {"malformed_form", "unauthorized", "no_route"}

\* The codes of the errors; "unhandled" is "internal_error" in the response.
Codes == {"invalid_webhook", "invalid_phone_number", "validation_error", "invalid_signature",
          "not_found", "storage_error", "unhandled"} \cup HttpErrors

Webhooks == {"/webhooks/sms", "/webhooks/sms/twilio"}
Routes == Webhooks \cup {"/admin/conversations", "/debug/outbox", "/health"}

\* A payload of a webhook has a body and the ids it may be known by.
ASSUME GatewayAssumption ==
    /\ None \notin Codes \cup {"absent", ""}
    /\ \A r \in Requests : \A in \in Inputs[r] :
           /\ in.route \in Routes
           /\ in.route \in Webhooks =>
                  in.body # None /\ in.ids \in Seq(STRING \ {None})

VARIABLES
    settings,  \* The configuration.
    app,       \* "starting", "running" or "failed".
    pc,        \* pc[r]: where the request is.
    input,     \* input[r]: what it contains.
    context,   \* context[r][task]: the request_id in the context of the server's
               \* task and of the one the middleware starts for the handler.
    response,  \* response[r]: what is sent back.
    taken,     \* The messages the service has accepted, with their requests.
    lines      \* The log lines: the request a line is about and the id on it.

vars == <<settings, app, pc, input, context, response, taken, lines>>

Tasks == {"server", "handler"}

\* A response before the middleware has seen it.
Response(status, id) == [status |-> status, requestId |-> id, header |-> None]

NoResponse == Response(0, None)

Init ==
    /\ settings \in Settings
    /\ app = "starting"
    /\ pc = [r \in Requests |-> "new"]
    /\ input = [r \in Requests |-> None]
    /\ context = [r \in Requests |-> [t \in Tasks |-> "-"]]
    /\ response = [r \in Requests |-> NoResponse]
    /\ taken = {}
    /\ lines = {}

-----------------------------------------------------------------------------
(* Startup. *)

\* Mistake: the token is not among the required fields.
HasNumber(s) == s.account

HasCredentials(s) == s.account /\ s.token

\* build_llm_provider and build_sms_provider raise no ConfigurationError.
Configured(s) ==
    /\ s.llm # "mock" => s.key
    /\ s.sms = "twilio" => HasCredentials(s)

\* Of the parser of the Twilio route, which is the sender or one of its own.
ValidatesSignature(s) == s.validate /\ s.token

Start ==
    /\ app = "starting"
    /\ app' = IF Configured(settings) THEN "running" ELSE "failed"
    /\ UNCHANGED <<settings, pc, input, context, response, taken, lines>>

-----------------------------------------------------------------------------
(* Parsers. *)

\* _first: an empty value is passed over.
First(values) ==
    LET given == {i \in DOMAIN values : values[i] \notin {"absent", ""}}
    IN  IF given = {} THEN None ELSE values[Min(given)]

\* payload.get("MessageSid") or payload.get("SmsMessageSid")
MessageSid(values) == First(values)

\* Mistake: the number is checked and kept as typed.
AsTyped(sender) == sender

\* What TextRules!NormalizePhone does to the senders used here.
Normalized(sender) == IF sender = "0036 1" THEN "+361" ELSE sender

IsPhone(sender) == sender \in {"+361", "0036 1"}

Message(in, id) == [phone |-> Normalized(in.sender), body |-> in.body, id |-> id]

\* The code of the error a parser raises, or None.
GenericError(in) ==
    IF First(<<in.body>>) = None \/ First(in.ids) = None THEN "invalid_webhook"
    ELSE IF in.timestamp = "bad" THEN "invalid_webhook"
    ELSE IF ~IsPhone(in.sender) THEN "invalid_phone_number"
    ELSE None

TwilioError(in) ==
    IF in.body = "absent" \/ MessageSid(in.ids) = None THEN "invalid_webhook"
    ELSE IF ~IsPhone(in.sender) THEN "invalid_phone_number"
    ELSE None

-----------------------------------------------------------------------------
(* The routes, up to their call of the service or the repository: the code *)
(* of the error they raise, or None.                                       *)

ReceiveSms(in) == IF in.readable THEN GenericError(in) ELSE "validation_error"

\* verify_signature: what the signature covers is the URL and the whole form.
SignatureError(s, in) ==
    IF ValidatesSignature(s) /\ in.signature # "right" THEN "invalid_signature" ELSE None

\* Inside an application, Starlette answers for a multipart form it cannot parse;
\* the route's own except clause gets the other errors of request.form().
ReceiveTwilioSms(s, in) ==
    IF in.form = "malformed" THEN "malformed_form"
    ELSE IF in.form = "undecodable" THEN "invalid_webhook"
    ELSE IF SignatureError(s, in) # None THEN SignatureError(s, in)
    ELSE TwilioError(in)

\* get_current_user and require_admin: credentials are compared, if there are
\* any, by compare_digest, which raises a TypeError unless both are ASCII.  The
\* one role is "admin", so nobody is authenticated and forbidden.
RequireAdmin(s, in) ==
    IF in.credentials = "absent" THEN "unauthorized"
    ELSE IF ~s.asciiPassword THEN "unhandled"
    ELSE IF in.credentials = "wrong" THEN "unauthorized"
    ELSE None

ListConversations(s, in) ==
    IF RequireAdmin(s, in) # None THEN RequireAdmin(s, in)
    ELSE IF ~in.readable THEN "validation_error"
    ELSE IF ~IsPhone(in.sender) THEN "invalid_phone_number"
    ELSE None

Outbox(s) == IF ~s.debug THEN "no_route" ELSE IF s.sms # "mock" THEN "not_found" ELSE None

Verdict(s, in) ==
    CASE in.route = "/webhooks/sms" -> ReceiveSms(in)
      [] in.route = "/webhooks/sms/twilio" -> ReceiveTwilioSms(s, in)
      [] in.route = "/admin/conversations" -> ListConversations(s, in)
      [] in.route = "/debug/outbox" -> Outbox(s)
      [] in.route = "/health" -> None

IsWebhook(in) == in.route \in Webhooks

MessageOf(in) ==
    Message(in, IF in.route = "/webhooks/sms" THEN First(in.ids) ELSE MessageSid(in.ids))

-----------------------------------------------------------------------------
(* The middleware and the handlers. *)

\* Mistake: the id in a variable of the module.
SetForAll(ctx, r, id) == [q \in Requests |-> [t \in Tasks |-> id]]

\* Mistake: the handler's task is started first.
SetTooLate(ctx, r, id) == [ctx EXCEPT ![r]["server"] = id]

\* The context of the server's task, which the task of the handler copies.
SetRequestId(ctx, r, id) == [ctx EXCEPT ![r] = [t \in Tasks |-> id]]

\* The X-Request-ID that came with the request, or a new one.
RequestId(r) == IF input[r].requestId \in {"absent", ""} THEN r ELSE input[r].requestId

Dispatch(r) ==
    /\ app = "running"
    /\ pc[r] = "new"
    /\ \E in \in Inputs[r] : input' = [input EXCEPT ![r] = in]
    /\ context' = SetRequestId(context, r, RequestId(r)')
    /\ pc' = [pc EXCEPT ![r] = "route"]
    /\ UNCHANGED <<settings, app, response, taken, lines>>

StatusOf(code) ==
    CASE code = "invalid_signature" -> 403
      [] code \in {"no_route", "not_found"} -> 404
      [] code \in {"invalid_webhook", "malformed_form", "invalid_phone_number"} -> 400
      [] code = "unauthorized" -> 401
      [] code = "validation_error" -> 422
      [] code \in {"storage_error", "unhandled"} -> 500

\* A line written by a task on behalf of r.
Logs(r, task) == lines' = lines \cup {[request |-> r, id |-> context[r][task]]}

\* error_payload, in the task the exception has reached.
ErrorResponse(r, code, task) == Response(StatusOf(code), context[r][task])

(***************************************************************************)
(* An expected exception is answered under the middleware, which sees the  *)
(* response; any other by the outermost handler, past the middleware.      *)
(***************************************************************************)
Raises(r, code) ==
    IF code = "unhandled"
    THEN /\ response' = [response EXCEPT ![r] = ErrorResponse(r, code, "server")]
         /\ pc' = [pc EXCEPT ![r] = "done"]
         /\ Logs(r, "server")
    ELSE /\ response' = [response EXCEPT ![r] = ErrorResponse(r, code, "handler")]
         /\ pc' = [pc EXCEPT ![r] = "respond"]
         /\ IF code \in HttpErrors \cup {"validation_error"}
            THEN UNCHANGED lines
            ELSE Logs(r, "handler")

\* The route refuses the request, or calls the service or the repository.
Route(r) ==
    /\ pc[r] = "route"
    /\ LET error == Verdict(settings, input[r])
       IN  IF error = None
           THEN pc' = [pc EXCEPT ![r] = "call"] /\ UNCHANGED <<response, lines>>
           ELSE Raises(r, error)
    /\ UNCHANGED <<settings, app, input, context, taken>>

CallReturns(r) ==
    /\ pc[r] = "call"
    /\ taken' = IF IsWebhook(input[r])
                THEN taken \cup {[request |-> r, message |-> MessageOf(input[r])]}
                ELSE taken
    /\ response' = [response EXCEPT ![r] =
           Response(IF input[r].route = "/webhooks/sms" THEN 202 ELSE 200, None)]
    /\ pc' = [pc EXCEPT ![r] = "respond"]
    /\ IF input[r].route \in {"/health", "/debug/outbox"} THEN UNCHANGED lines ELSE Logs(r, "handler")
    /\ UNCHANGED <<settings, app, input, context>>

\* What reads or writes the table may raise a StorageError, or anything else.
CallFails(r) ==
    /\ pc[r] = "call"
    /\ input[r].route \notin {"/health", "/debug/outbox"}
    /\ \E code \in {"storage_error", "unhandled"} : Raises(r, code)
    /\ UNCHANGED <<settings, app, input, context, taken>>

\* response.headers["X-Request-ID"] = request_id, then the response leaves.
Echo(r) ==
    /\ pc[r] = "respond"
    /\ response' = [response EXCEPT ![r].header = RequestId(r)]
    /\ pc' = [pc EXCEPT ![r] =
           IF IsWebhook(input[r]) /\ response[r].status < 300 THEN "background" ELSE "done"]
    /\ UNCHANGED <<settings, app, input, context, taken, lines>>

\* The background tasks run in the task of the handler, other requests between;
\* there are none for a duplicate or in TwiML mode.
Background(r) ==
    /\ pc[r] = "background"
    /\ Logs(r, "handler") \/ UNCHANGED lines
    /\ pc' = [pc EXCEPT ![r] = "done"]
    /\ UNCHANGED <<settings, app, input, context, response, taken>>

Next ==
    \/ Start
    \/ \E r \in Requests :
           Dispatch(r) \/ Route(r) \/ CallReturns(r) \/ CallFails(r) \/ Echo(r) \/ Background(r)

Spec == Init /\ [][Next]_vars

-----------------------------------------------------------------------------
(* Properties. *)

\* Every variable has its type; the service sees normalised numbers and a
\* message id only.
GatewayTypeOK ==
    /\ settings \in Settings
    /\ app \in {"starting", "running", "failed"}
    /\ \A r \in Requests :
           /\ pc[r] \in {"new", "route", "call", "respond", "background", "done"}
           /\ pc[r] # "new" => input[r] \in Inputs[r]
           /\ response[r].status \in {0, 200, 202, 400, 401, 403, 404, 422, 500}
    /\ \A m \in taken :
           /\ m.request \in Requests
           /\ m.message.phone = "+361"
           /\ m.message.body # "absent"
           /\ m.message.id \notin {"absent", "", None}

(***************************************************************************)
(* A log line carries the id of the request it is about, whichever         *)
(* requests ran in between, in the background tasks as in the handlers.    *)
(***************************************************************************)
LinesNameTheirRequest == \A l \in lines : l.id = RequestId(l.request)

(***************************************************************************)
(* The body of every error names its request, also when the last handler   *)
(* answers for an exception nobody expected, outside the middleware, and   *)
(* while other requests are between their own steps.  The header is not    *)
(* judged: README.md says that the id "also comes back in the X-Request-ID *)
(* header", and that last response has none.                               *)
(***************************************************************************)
ErrorsNameTheirRequest ==
    \A r \in Requests : pc[r] = "done" /\ response[r].status >= 400 =>
        response[r].requestId = RequestId(r)

(***************************************************************************)
(* A service that sends through Twilio and has not turned validation off   *)
(* takes no unsigned message from the Twilio route: it would not have      *)
(* started without the token that validation needs.                        *)
(***************************************************************************)
TwilioMessagesAreSigned ==
    settings.sms = "twilio" /\ settings.validate =>
        \A m \in taken : input[m.request].route = "/webhooks/sms/twilio" =>
            input[m.request].signature = "right"
=============================================================================
