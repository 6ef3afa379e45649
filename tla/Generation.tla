------------------------------ MODULE Generation ------------------------------
(***************************************************************************)
(* One call of ConversationService._generate_reply with a real provider:   *)
(* asyncio.wait_for around OpenAICompatibleProvider.generate, around an    *)
(* SDK that has a timeout and retries of its own.  In ConversationService  *)
(* this is the single step from "llm" to the next one.                     *)
(*                                                                         *)
(* Time is counted in units of half a second, the SDK's first back-off.    *)
(***************************************************************************)
EXTENDS Integers

CONSTANTS
    Deadline,    \* LLM_TIMEOUT_SECONDS
    MaxRetries,  \* LLM_MAX_RETRIES
    RetryAfters  \* The waits a server asks for in a Retry-After header.

ASSUME GenerationAssumption ==
    /\ Deadline \in Nat \ {0}
    /\ MaxRetries \in Nat
    /\ RetryAfters \subseteq Nat \ {0}

VARIABLES
    now,      \* The time since wait_for was called.
    phase,    \* "request", "backoff" or "over".
    attempt,  \* The number of the current or latest request.
    silence,  \* How long its connection has been silent.
    wake,     \* When the back-off ends.
    open,     \* The requests whose connections are open.
    outcome   \* "none", "reply", "refused", "empty", "exhausted" or "deadline":
              \* but for the first two, the service sees an LLMError.

vars == <<now, phase, attempt, silence, wake, open, outcome>>

\* The timeout given to the client: the same setting as the deadline's.
AttemptTimeout == Deadline

Init ==
    /\ now = 0
    /\ phase = "request"
    /\ attempt = 1
    /\ silence = 0
    /\ wake = 0
    /\ open = {1}
    /\ outcome = "none"

Over(how) == phase' = "over" /\ outcome' = how

-----------------------------------------------------------------------------
(* The server, with the network before it.  It may also do nothing at all. *)

\* A part of the response: the timeout of the HTTP client is one of silence.
BytesArrive ==
    /\ phase = "request"
    /\ silence' = 0
    /\ UNCHANGED <<now, phase, attempt, wake, open, outcome>>

\* A completion: without choices, or blank, it is as good as an error.
Completes ==
    /\ phase = "request"
    /\ \E how \in {"reply", "empty"} : Over(how)
    /\ open' = open \ {attempt}
    /\ UNCHANGED <<now, attempt, silence, wake>>

\* A status that no retry would change, such as 401.
Refused ==
    /\ phase = "request"
    /\ Over("refused")
    /\ open' = open \ {attempt}
    /\ UNCHANGED <<now, attempt, silence, wake>>

-----------------------------------------------------------------------------
(* The SDK. *)

Smaller(a, b) == IF a < b THEN a ELSE b

\* 0.5 s, doubled each time up to 8 s, less a random quarter at most.
BackOffs == LET longest == <<1, 2, 4, 8, 16>>[Smaller(attempt, 5)]
            IN  (longest - longest \div 4) .. longest

\* The waits before the next request after one that failed like this.
Waits(cause) == BackOffs \cup IF cause = "status" THEN {s \in RetryAfters : s <= 120} ELSE {}

\* Mistake: one retry too many.
PastTheRetries == attempt > MaxRetries + 1

NoRetryLeft == attempt > MaxRetries

\* A status such as 429 or 503, a broken connection, or a silence that is too
\* long; the timer of wait_for was set before any of the SDK's.
AttemptFails ==
    /\ phase = "request"
    /\ \E cause \in {"status", "connection", "timeout"} :
           /\ cause = "timeout" => silence >= AttemptTimeout /\ now < Deadline
           /\ IF NoRetryLeft
              THEN Over("exhausted") /\ UNCHANGED wake
              ELSE /\ phase' = "backoff"
                   /\ wake' \in {now + s : s \in Waits(cause)}
                   /\ UNCHANGED outcome
    /\ open' = open \ {attempt}
    /\ UNCHANGED <<now, attempt, silence>>

Retry ==
    /\ phase = "backoff"
    /\ now >= wake
    /\ phase' = "request"
    /\ attempt' = attempt + 1
    /\ silence' = 0
    /\ open' = open \cup {attempt + 1}
    /\ UNCHANGED <<now, wake, outcome>>

-----------------------------------------------------------------------------
(* The event loop. *)

\* Mistake: wait_for is not used.
WaitsForever == FALSE /\ UNCHANGED vars

\* Mistake: the call is shielded from the cancellation.
Shielded ==
    /\ phase # "over"
    /\ now >= Deadline
    /\ Over("deadline")
    /\ UNCHANGED <<now, attempt, silence, wake, open>>

\* wait_for cancels what it waits for, which closes the connection.
DeadlinePasses ==
    /\ phase # "over"
    /\ now >= Deadline
    /\ Over("deadline")
    /\ open' = {}
    /\ UNCHANGED <<now, attempt, silence, wake>>

\* Time passes, but over no timer that is due.
Tick ==
    /\ phase # "over"
    /\ now < Deadline
    /\ phase = "backoff" => now < wake
    /\ phase = "request" => silence < AttemptTimeout
    /\ now' = now + 1
    /\ silence' = IF phase = "request" THEN silence + 1 ELSE silence
    /\ UNCHANGED <<phase, attempt, wake, open, outcome>>

\* The SDK's timer goes off.
TimedOut == AttemptFails /\ silence >= AttemptTimeout /\ now < Deadline

Next ==
    \/ BytesArrive \/ Completes \/ Refused
    \/ AttemptFails \/ Retry
    \/ DeadlinePasses \/ Tick

\* The event loop runs and time passes; nothing is assumed of the server.
Spec == Init /\ [][Next]_vars /\ WF_vars(Tick) /\ WF_vars(Retry)
             /\ WF_vars(DeadlinePasses) /\ WF_vars(TimedOut)

-----------------------------------------------------------------------------
(* Properties. *)

\* Every variable has its type; nothing is later than the deadline.
GenerationTypeOK ==
    /\ now \in 0 .. Deadline
    /\ phase \in {"request", "backoff", "over"}
    /\ attempt \in 1 .. MaxRetries + 1
    /\ silence \in 0 .. now
    /\ wake \in Nat
    /\ open \subseteq 1 .. attempt
    /\ outcome \in {"none", "reply", "refused", "empty", "exhausted", "deadline"}

(***************************************************************************)
(* No request is left running, and paid for, that nobody waits for: not    *)
(* beside its retry, not during a back-off, and not after the fallback.    *)
(***************************************************************************)
NothingLeftRunning ==
    IF phase = "request" THEN open = {attempt} ELSE open = {}

(***************************************************************************)
(* _generate_reply returns, whatever the server does and however it is     *)
(* combined with retries: the comment at the wait_for.                     *)
(***************************************************************************)
EveryGenerationEnds == <>(phase = "over")

(***************************************************************************)
(* A server that says nothing at all is tried more than once: "timeouts    *)
(* and retries are delegated to the SDK".                                  *)
(***************************************************************************)
SilentServerIsRetried ==
    outcome = "deadline" /\ silence = now /\ MaxRetries > 0 => attempt > 1
=============================================================================
