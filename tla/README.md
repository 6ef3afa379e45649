# sms-llm-chat: a TLA+ verification project

The repository is a small asynchronous web service. A carrier posts inbound SMS to a webhook;
the service stores each one, asks an LLM for an answer and sends the answer back by SMS, or, in
TwiML mode, in the response of the webhook. A one-token SMS ("1", "no", a thumb) is a rating of
the last conversation instead of a question. Carriers retry webhooks, the LLM hangs, the carrier
refuses messages, the database fails, and several requests of one user overlap. What the service
promises under all of that is what this project states and model-checks; its safety is proved.

Paths such as `app/db/repository.py` are relative to the repository.

## 1. Inventory

| Component | State it keeps | Operations | What makes it correct |
| --- | --- | --- | --- |
| Conversation service (`app/services/conversation_service.py`) | none of its own; locals of coroutines | `accept`, `process`, `handle_inbound`, `send_reply`, the two `_in_background` wrappers | a question is stored once, answered at most once, and never said to be answered otherwise than its row says; every request ends |
| Conversation repository (`app/db/repository.py`) | the `conversations` table; a dictionary and a lock in the variant of the tests | `create`, `update`, lookups by id, by inbound message, by rating message, by number | uniqueness of both message ids; an update changes its columns only; both variants behave alike |
| Models and session (`app/db/models.py`, `app/db/session.py`) | schema, engine | table creation, sessions | unique constraints are there |
| Domain (`app/domain`) | none | defaults, enums | statuses move forward only |
| Webhooks (`app/api/webhooks.py`) | none | two routes, two reply modes, scheduling of the background task | one response per request; background work only after the row exists |
| Feedback classifier (`app/services/feedback.py`) | none | `classify_feedback` | a message is a rating only if it is nothing but a token |
| Phone normalisation (`app/core/phone.py`) | none | `normalize_phone` | one key per number |
| LLM providers (`app/providers/llm`) | none | `generate`, with the SDK's timeouts and retries | an answer or an `LLMError` within the deadline |
| SMS providers (`app/providers/sms`) | outbox of the mock | `send`, `parse_webhook`, `verify_signature` | a send ends in a status or an `SmsProviderError` |
| Admin API (`app/api/admin.py`) | none | paged listing of one number | reading to the last page shows every conversation |
| Startup (`app/main.py`, `app/config.py`, the two factories) | settings, providers on `app.state` | environment, choice of providers | a configuration that cannot work does not start |
| Authentication (`app/api/deps.py`) | none | `get_current_user`, `require_admin` | the listing is for the admin |
| Errors and logging (`app/core/errors.py`, `app/core/logging.py`) | a context variable | exception handlers, middleware, log filter | every line and every error names its request |
| Debug, health, schemas | none | read-only views, camel case | they answer when they should |

**Interaction.** A webhook route builds an `InboundMessage` and awaits `accept`. `accept` reads
the table, decides between duplicate, rating and question, and writes. For a question in api mode
the route answers `202` and leaves `process` behind as a background task; in TwiML mode the route
awaits `process` itself. `process` and the ratings of later requests update the same row through
separate database sessions. There is no lock in the service: the only things that order two
requests are the two unique constraints and the single-threaded event loop.

**What is hard.** Everything between two awaits is atomic and nothing else is: two deliveries of one
message pass the same lookup; the history of a prompt is read while other questions arrive; a
rating is computed from a row that another session changes before the flush; a process dies after
the `202`. The SQL repository returns rows that are out of date when it returns them; pages are
taken from a list that grows; a deadline and the retries it encloses run on timers of their own; a
request id is ambient state that outlives its request. `PROJECT.json` lists each of these hazards at its line with the properties that watch it.

## 2. Modules

| Module | What it is |
| --- | --- |
| `ConversationStore` | The table as a function from ids to rows, and the queries and writes of the SQL repository as operators on it. |
| `ConversationService` | The system: webhook requests, background tasks, LLM, carrier, failing database, crashes. Extends `ConversationStore`. |
| `ReplyOnce` | The abstract specification: a message is taken in once, decided once, and replied to at most once. |
| `ConversationProperties` | Properties of `ConversationService`, and the mapping under which it implements `ReplyOnce`. |
| `ConversationInvariant`, `ConversationRows` | Its inductive invariants, `IInv`, `RowInv` over it, and `DuplicateInv` over both. |
| `ConversationProofs` | What follows from `IInv`: types, receipts, one reply per question. Checked by TLAPS, like every module of theorems. |
| `RowProofs` | What follows from `RowInv` and `DuplicateInv`: the life of a row, ratings, prompts, TwiML replies, duplicates. |
| `PromiseProofs` | `ConversationService` implements `ReplyOnce`. |
| `StoreTheorems` | The order of the conversations of a number, and pages of it. |
| `MCConversationService` | Scenarios for TLC: which message each webhook request carries. |
| `RepositoryCalls` | The calls of the protocol `ConversationRepository`, and what concurrent callers guarantee (`CallsAssumption`). |
| `AtomicTable` | The abstract specification of the repository: each call takes effect at one moment. |
| `RepositorySessions` | Both repositories: overlapping SQL sessions with load and flush, and the dictionary. Implements `AtomicTable`. |
| `AdminListing` | The admin reading page after page from `RepositorySessions`. |
| `MCRepository` | Concurrent callers for TLC. |
| `RepositoryProofs` | The invariants of the repository and of the listing, and the refinement of `AtomicTable`. |
| `Generation` | One call of the LLM: deadline, SDK attempts, back-offs and timeouts against a clock. |
| `GenerationProofs` | Its safety. |
| `Gateway` | The HTTP layer: startup, request ids, checks, parsers, exception handlers. |
| `MCGateway` | Configurations and requests for TLC. |
| `GatewayProofs` | Request ids, signatures and types. |
| `TextRules` | `normalize_phone`, `classify_feedback` and `_fit_sms` as functions of a text. |
| `TypedText` | A text typed one character at a time: every input of `TextRules` up to a length, and its properties. |
| `TextProofs` | The same properties for texts of every length over every alphabet. |

How they fit together. `ConversationService` is the centre. It takes a request where `Gateway`
leaves it (`CallReturns`: the message is valid and the service has been called), treats an update of
`process` as one step, which `RepositorySessions` justifies, and takes the outcome of a generation
from three actions, `LlmAnswers`, `LlmFails` and `LlmDeadline`, which `Generation` looks into: its
outcomes "reply", "refused"/"empty"/"exhausted" and "deadline". Phones and bodies are abstract
everywhere but in `TextRules`. The models are composed by these interfaces and not run together.

A definition whose comment begins with *Mistake* is a wrong version of the definition that follows
it. Nothing in the specification uses it; each one shows that some property would notice that
mistake in the code (`PROJECT.json`, "mutants").

### 2.1 ConversationService and the code

A request `r` is one coroutine. `pc[r]` names the await it is about to pass, and an action is the
code from one await to the next *including the statement it awaited*: `Create` is the construction
of the row up to the commit of the INSERT and what follows it in the same breath, the `202`. The
other variables per request are the locals that survive an await: `stamp` (the `created_at` taken
before the INSERT), `target` and `loaded` (the row a rating is computed from), `prompt`, `reply`,
`receipt`. `outbox[r]` is what the carrier has been handed, `response[r]` what it was told.

| Actions | Code |
| --- | --- |
| `Post` | the two routes receive a valid payload |
| `LookupDuplicate`, `LookupRating`, `LookupQuestion` | `accept` up to its first decision |
| `Create`, `CreateConflict`, `Refetch` | INSERT, the unique constraint, the refetch of the winner |
| `FeedbackDuplicate`, `FeedbackFresh`, `NothingToRate`, `PickLatest` | the guards of a rating, `_record_feedback` |
| `LoadRating`, `CommitRating`, `CommitConflict` | `update`: `session.get`, then flush and commit |
| `Begin`, `ReadHistory`, `LlmAnswers`, `LlmFails`, `LlmDeadline` | `process` and `_generate_reply` |
| `StoreAnswer`, `StoreFailure` | the two outcomes of `process`, stored before anything is sent |
| `SendSucceeds`, `SendRejected`, `SendLeaks`, `RecordSent`, `RecordFailed` | `_deliver` and the ways a send ends |
| `Queue` | TwiML mode: the reply goes into the response |
| `SendAck` | the acknowledgement of a rating, sent in the background |
| `AcceptFails`, `HistoryFails`, `ProcessFails` | a `StorageError`, by where it is caught |
| `Crash` | the process dies; rows and sent messages stay, coroutines do not |
| `Quiet` | all webhooks are dealt with (a stuttering step, so that any other stop is a deadlock) |

Decisions of the model, and why they are faithful:

- *The id of a conversation is the number of the request that constructs it.* The code draws a
  random id; only uniqueness and the tie-break of equal timestamps use it, and requests are
  numbered in no particular order relative to their posting.
- *Texts are abstract.* `llm_response` holds the conversation whose question the text answers, which
  is what tells a right answer from a crossed one; the fixed replies are three more values.
  `incoming_message` is left out because `provider_message_id` identifies it, `updated_at` because
  nothing reads it.
- *The updates of `process` are one step, that of a rating is two.* `update` loads the row and then
  flushes the columns whose assigned value differs from the loaded one. The columns `process` writes
  have no other writer, so its load and flush cannot be told apart; the two rating columns have
  several writers, so `LoadRating` and `CommitRating` are separate and `WithFeedback` compares
  against what was loaded. `error_message` and `delivery_status` are written by one task only.
  `RepositoryRefines` (section 5) is the theorem behind this.
- *A failing database operation has no effect.* A commit that reports failure after having been
  applied is not modelled.
- *A rejected payload* (bad signature, missing field, bad number) changes no state and is not a
  request of this model; `Gateway` decides what is rejected.
- *Rows are never deleted*, as in the code, so the refetch after a conflict always finds the winner.
- *Both routes are one.* They make the same calls; `response` holds the fields of the JSON route,
  which the Twilio route renders as TwiML.
- *A send that raises something other than a `TwilioException`* (the SDK's HTTP client does on a
  network failure) may have left or not: `SendLeaks` chooses.

### 2.2 TextRules and the code

The three functions are translated call by call over sequences of characters (`Strip`, `Without`,
`UpTo`, ... are the `str` methods, `Only` is the substitution of `_NON_DIGITS`), because their properties are about single characters. The token
sets are complete. `MinDigits` and `MaxDigits` stand for the 7 and 15 digits of the pattern;
`OtherDigits` for the digits that `\d` matches outside ASCII. A state of `TypedText` is an input,
a step appends a character; it may stop anywhere, so its configurations do not check deadlock.

### 2.3 RepositorySessions, AdminListing and the code

`update` of the SQL repository is `Load` (`session.get`) and `Commit` (the end of `session.begin()`),
with the commits of other sessions between them. `Commit` flushes the columns whose assigned value
differs from the *loaded* one over the row as it is *by then*, and returns the loaded row with its
own changes, which may be out of date in every other column. `Create` is one step in both
repositories, and so is `MemoryUpdate`, which runs under the lock without an await.
`StorageFails` is a `SQLAlchemyError` at any statement.

Tasks make the calls they are given in `Calls`, in any order. `CallsAssumption` says what the code
guarantees of them: two tasks that update one column of one row assign the same value. That is so for
`process`, the only writer of its columns, against ratings and against other conversations, and for
two deliveries of one rating. It *excludes two different ratings of one conversation*, even one after
the other, which the service allows (`test_a_second_rating_from_a_new_message_still_applies`). There the
SQL repository is no atomic table: `ConversationService` models the two phases, and run `audit_trail`
shows what happens. `ImplementsAtomicTable` and `RepositoryRefines` say nothing of that case.

`listing` in `AdminListing` is a client of `list_by_phone`: offset and limit of its next request, what
it has seen, what it has seen twice.

### 2.4 Generation and the code

A unit of time is half a second, the first back-off of the SDK. `Tick` lets time pass up to the next
timer that is due. The server and the network may do anything or nothing: send bytes (the timeout of
the HTTP client is one of silence, so `BytesArrive` restarts it), complete, refuse, fail.
`AttemptTimeout == Deadline` is what `build_llm_provider` and `_generate_reply` make of the one
setting `LLM_TIMEOUT_SECONDS`. The timer of `asyncio.wait_for` is set before any timer of the SDK, so
a timeout of the SDK needs `now < Deadline`; with these settings it can never happen, which is what
run `stalled_attempt` says. The SDK itself (which errors it retries, its back-off, `Retry-After` up to
60 s) is modelled from its documented behaviour and marked external.

### 2.5 Gateway and the code

A request is two tasks, as `BaseHTTPMiddleware` makes it: the one of the server, in which the
middleware and the handler of last resort run, and the one of the handler, which copies the context of
the first and also runs the background tasks. `context[r][task]` is the context variable
`_request_id` in each. `Route` evaluates the checks of a route in their order (`Verdict`): framework
validation, credentials, form, signature, fields. A form that starlette cannot parse is its own 400
(`"malformed_form"`); one that cannot be decoded is the route's `invalid_webhook`. `CallReturns` and `CallFails` are what the service or
the repository does; an exception that is no `AppError` (`"unhandled"`) leaves through the server's
task. Values of a payload are a handful of strings; two alternative fields for the message id, as both
routes have them, are a pair.

## 3. What is checked

Passing runs:

| Run | Instance | Shows |
| --- | --- | --- |
| `retries` | a question delivered twice and a rating, Twilio with refused and leaking sends, one database failure, one crash; 23k states | `TypeOK`; `ConsistentReceipts`: all deliveries are told the one stored conversation; `ReplyAtMostOnce`; `RecordBeforeReply`: an SMS says what the row says; `SettledRecord`: a finished task leaves a complete row; `Lifecycle`: a row only moves forward and ratings and answers do not undo each other; `KeepsPromise`: the service implements `ReplyOnce`; `EveryQuestionSettles` although the LLM may hang |
| `ratings` | a rating delivered twice while two questions are processed, equal timestamps possible, history limit 1; 309k states | `RatingsWellPlaced`: a rating stays on one row, and a row is rated exactly when it names a message that rated; `RatingIsNotStale`: no conversation that was there when the rating came in is newer than that row; `DuplicatesHaveAnOriginal`: also when two deliveries of the rating race for two conversations, the one refused has an acknowledged original; `PromptScope`: the prompt keeps to the limit and never contradicts the rows |
| `twiml` | TwiML mode: a question delivered twice, a rating, a question of another number, one database failure, fair event loop; 140k states | `ConsistentReceipts`, `RepliesInTheResponse`, `RatingsWellPlaced` and `PromptScope` across numbers, `EveryWebhookAnswered` |
| `texts` | every text of up to 5 of 10 characters; 111k states | spellings of a number share a key (`SpellingsAgree`, `SeparatorsIrrelevant`), different numbers do not (`KeepsEveryDigit`), only tokens rate (`OnlyTokensRate`, `RatingSurvives`), replies fit (`RepliesFit`) |
| `repository` | a question and its processing, a retry whose task goes on with two more questions, a rating delivered twice that finds one row or another; both repositories, one failing statement, pages of one; 548k states | `ImplementsAtomicTable`: no update is lost, half applied or reported wrongly; `UniqueIds`; `WriterKnowsItsColumns`: a returned row, out of date as it may be, is right in the caller's own columns; `PagesCoverTheList`: no conversation is missed, and one is repeated only if rows were inserted |
| `generation` | the default settings, 20 s and two retries, `Retry-After` of 1 s and 40 s; 131k states | `EveryGenerationEnds` whatever the server does; `NothingLeftRunning`: no request outlives its attempt; `GenerationTypeOK` bounds attempts and clock |
| `gateway` | twelve configurations, every kind of request next to one of two others; 211k states | `LinesNameTheirRequest`, `ErrorsNameTheirRequest` while requests and background tasks overlap; `TwilioMessagesAreSigned` in every configuration that starts |

Runs that end in a counterexample. Each states what a document, comment or test of the repository
says, and TLC shows a behaviour of the code that does otherwise.

| Run | What happens |
| --- | --- |
| `audit_trail` | A rating loads the row; a second one commits; the first flushes only the columns that differ from what it loaded. The row keeps the second rating under the id of the first message, which said the opposite. |
| `rating_retry` | `feedback_message_id` remembers the last rating only. A rating, its opposite, then a retry of the first: it is applied and acknowledged again, even with one request at a time. (Two overlapping deliveries of one rating are both applied too: the unique constraint compares a row with *other* rows.) |
| `crossed_answers` | The history is whatever is newest when it is read, so the task of the first of two overlapping questions shows the LLM the second one last, and stores and sends the answer to that. |
| `leaked_send` | The HTTP client under the Twilio SDK fails with an exception of its own. `_deliver` catches `SmsProviderError` only, the background task logs and ends, and `delivery_status` stays empty although README.md:370-373 says that failures do not disappear. |
| `stalled_attempt` | A server that says nothing is asked once: the SDK's timeout of one attempt is the deadline of all of them, and the deadline's timer was set first. With half the deadline as timeout the property holds. |

Documented, contradicted by the code, and not stated as a property:

- A rating may land on the newest conversation while that one is still being answered, because
  `get_latest_for_phone` does not look at the status. `test_rating_lands_on_the_conversation_the_user_saw`
  says in its docstring (tests/test_feedback.py:136) "not a half-finished newer record", but sets up no
  newer record. `RatingIsNotStale` therefore says nothing of the status of the row.
- The response to an unexpected exception has the request id in its body and no `X-Request-ID` header,
  because the handler runs outside the middleware; README.md:288 says that the id also comes back in the
  header. `ErrorsNameTheirRequest` is about bodies.

Observed, with no document against it: an update of the background task that fails leaves the user
without any SMS, the fallback included; a digit of another script passes both patterns of `phone.py` and
stays in the key; an `ADMIN_USERNAME` or `ADMIN_PASSWORD` that is not ASCII makes `compare_digest` raise,
so that every attempt to log in is a 500; an empty SMS is accepted from Twilio and refused as JSON; a
`Retry-After` longer than the deadline keeps the user waiting for a fallback that is already certain; a
failed send overwrites the reason of a failed generation; a `MAX_REPLY_LENGTH` below three makes the
slice count from the end; in TwiML mode a duplicate that arrives during processing is answered with the
fallback text, and a retried rating with the answer of the conversation it rated.

### Bounds

- *Requests.* Three or four per scenario, two where a counterexample needs no more. A retry needs two deliveries, a conflicting rating two
  more, and a prompt that must leave something out needs two questions for a limit of one
  (`HistoryLimit = 1`). All properties relate at most two requests and one row.
- *`MaxFaults`, `MaxCrashes`.* One each: a fault ends the operation it hits, and a crash ends
  everything that runs. The theorems of section 5 hold for any number.
- *Clock.* It advances once per constructed conversation, so requests bound it. `CoarseClock` lets
  two conversations share a timestamp.
- *`SendStatuses`.* One success and one failure status where a status matters.
- *Repository.* `MaxCalls` per task and `MaxErrors = 1`: enough for two sessions on one row, two on one
  message, and a call after each; two timestamps for four rows, so that ties occur.
- *Generation.* None besides the settings: the deadline bounds time.
- *Gateway.* Two requests, since an id can only leak from one to another; the second brings its own id.
- *Texts.* `MinDigits = 2`, `MaxDigits = 3`, length 5: room for the prefix `00` or `+`, a separator
  and a channel, and for numbers too short and too long. Limits 3 and 4 are shorter than the texts.

### Fairness

`EventLoop`: asyncio resumes every coroutine whose await has finished, database statements finish,
and `asyncio.wait_for` finishes at its deadline (`LlmDeadline`). That the LLM answers is *not*
assumed, and neither is that a send comes back: the service puts no deadline on it, and no property
depends on it. Nothing forces a fault or a crash: `EveryQuestionSettles` excuses a task that an
exception or a crash has ended, `EveryWebhookAnswered` only a request whose process died under it.

In `Generation` time passes and the timers of the SDK and of `wait_for` go off (`Tick`, `Retry`,
`TimedOut`, `DeadlinePasses`); nothing is assumed of the server.

## 4. Abstract specification

`ReplyOnce` has three variables: which messages are taken in, what became of each, and which SMS
went out for each. `ConversationProperties` maps the table and the outboxes to them: a message is
taken when a row holds it, its verdict is the status of that row, and its letters are pairs of a
request and a position in its outbox, so that two sends of one request and sends by two requests
are both visible as a second letter. Under every retry, fault and crash of run `retries` each step
of the service is a step of `ReplyOnce` or leaves its variables alone.

`AtomicTable` is what the callers of the repository may believe: a table, and per task the answer to
its last call, where a row that was returned counts in the columns that no other task updates.
`RepositorySessions` maps its store to the table and restricts each result to those columns
(`Mine`); `Load` and a failure before it are stutters, and the abstract update happens at `Commit`.

## 5. What is proved

Every invariant and every action property a passing run checks is a theorem, for all values of the
constants, and so are both refinements. `RatingIsNotStale`, which relates two moments, is not one yet. The run shows it on an instance; the theorem has no bound on requests,
rows, tasks, faults, crashes, retries, pages or lengths of texts.

### The service

The theorems hold for every set of requests, every history limit, both modes, both providers and any
number of faults and crashes. Assumptions: `StoreAssumption`, `ServiceAssumption` and
`ResponseAssumption`. The constants
have their types; ids of conversations are numbers, so that ties of timestamps have an order; and
`None` is not a request, a message id, a delivery status, a response or one of the two error messages.

| Module | Theorem | Statement |
| --- | --- | --- |
| `ConversationProofs` | `TypeCorrect` | `Spec => []TypeOK` |
| | `Invariance` | `Spec => []IInv` |
| | `AtMostOneReply` | `Spec => []ReplyAtMostOnce` |
| | `ReceiptsAgree` | `Spec => []ConsistentReceipts` |
| | `RecordPrecedesReply` | `Spec => []RecordBeforeReply` |
| `RowProofs` | `RowInvariance` | `Spec => []RowInv` |
| | `RowsLive` | `Spec => Lifecycle` |
| | `RecordsSettle` | `Spec => []SettledRecord` |
| | `RatingsArePlaced` | `Spec => []RatingsWellPlaced` |
| | `PromptsStayInScope` | `Spec => []PromptScope` |
| | `TwimlReplies` | `Spec => []RepliesInTheResponse` |
| | `DuplicatesAreOfOriginals` | `Spec => []DuplicatesHaveAnOriginal` |
| `PromiseProofs` | `PromiseKept` | `Spec => KeepsPromise`, that is `Promise!Spec` |

None of the properties is inductive: that `r` sends once says nothing about another delivery
of its question, and that a row agrees with an SMS needs to be known before the SMS leaves. `IInv`
adds to `TypeOK`

- `UniqueMessages`: no two rows hold one message. This is the unique constraint, and what turns
  "each request sends once" into "each question is answered once";
- `RowOfRequest`: the row with id `r` is the question of request `r`;
- `Stage`: where `r` stands decides whether its row exists; only the request that created a row
  ever gets to `process`;
- `Progress`: from `StoreAnswer` or `StoreFailure` on, the row agrees with the reply in hand;
- `Mail`: nothing is in the outbox before the send, one SMS after it, and the row agrees with it;
- `Receipt`: a response that names a conversation names a stored one that holds the question.

`Mail` survives the ratings of other requests because a rating changes the two rating columns only
(lemma on `WithFeedback`), and survives a crash because a crash leaves rows and outboxes alone. The
proof has one lemma per action, each split by the conjuncts that action can disturb.

`RowInv` is a second layer, inductive given `IInv`. `Lifecycle` says that no step takes a row back, and
to see that of `StoreAnswer` one must know in which status it finds the row: that is `RowStage`, what
has been written to the row of `r` by the time `pc[r]` is reached. `StatusTells` (a completed row has
the answer, a failed one the reason), `Channel` (only api mode sends, only TwiML mode replies in the
response) and `RowStage` at `"done"` give `SettledRecord` and `RepliesInTheResponse`. `RatingStage` is
what a rating may rely on between its load and its commit: the target is a row of its own number, and
what was set when it loaded is still set, though perhaps to something else. Its two columns are assigned
together or, if equal to what was loaded, left; `RatingStage` is why leaving one of them never leaves a
rating without a message. `InScope` is a statement about the order of a prompt, and needs the row that
is left out of a prompt to rank behind all that are in it: `StoreTheorems` shows that `Newer` orders the
conversations of a number strictly and totally, so that `Rank` numbers them from 0 without gaps, and
that new rows move ranks in one direction only.

`DuplicateInv` is a third layer, for `DuplicatesHaveAnOriginal`: the rating of a row was acknowledged, what
was acknowledged stays so, and a delivery that is called a duplicate has not been taken in itself, so that
the original it found is another.

`PromiseKept` goes step by step. Under the mapping of `ConversationProperties` a commit of `Create` is
`Take`, `StoreAnswer` and `StoreFailure` are `Decide`, `SendSucceeds` and a `SendLeaks` that did leave
are `Reply`, and every other step leaves the mapped variables alone. `VerdictOfRow` is the
point: verdicts are a function of messages because `UniqueMessages` allows one row for each. With `Mail`
it also says that no other delivery of the question has sent anything when `Reply` happens.

### The repository

`RepositoryProofs` holds for any tasks and calls that meet `CallsAssumption`, any rows and any number of
errors, for both repositories. `CallsAssumption` (section 2.3) also gives each column assigned a value
of its type, which is what `ConversationUpdate` validates. `ListingAssumption`: a page size is a
positive number, which the route enforces.

| Theorem | Statement |
| --- | --- |
| `RepositoryInvariance` | `Spec => []RInv` |
| `IdsStayUnique` | `Spec => []UniqueIds` |
| `ReturnedRowsStayTrue` | `Spec => []WriterKnowsItsColumns` |
| `RepositoryRefines` | `Spec => Abstract!Spec`, the atomic table |
| `SessionsAreTyped` | `Spec => []SessionsTypeOK` |
| `PagesCover` | `ListingSpec => []PagesCoverTheList` |

The heart of `RInv` is `Undisturbed(t)`: between the load and the flush of `t`, a column that `t` is
about to write still holds what `t` loaded, or already what `t` will assign. Then flushing the columns
that differ from the *loaded* row gives the same row as assigning them all to the *current* one, which is
the atomic update. A commit of another task keeps it because two tasks that write one column of one row
write one value; this is where `CallsAssumption` is used, and where it would fail for two different
ratings.

`SessionsTypeOK` is not inductive by itself: a commit writes fields of a call over a row that some
session loaded, and both have to be known to be typed (`Held`).

`PagesCover` rests on the ranks of `StoreTheorems`. A page is the conversations whose rank is from the
offset to the offset and the limit (lemma `PageSize`: full, unless the list ends in it). Rows are never
deleted, so ranks only grow: whatever was there at the first page and ranks before the offset has been
shown (`Passed`), and as long as no row joined the list nothing shown ranks behind it (`Ahead`), so
nothing is shown twice.

### A generation, and the HTTP layer

`GenerationProofs` (any deadline, any number of retries, any back-offs `Retry-After` asks for):
`GenerationInvariance`, `GenerationIsTyped`, `NoRequestOutlivesItsAttempt`. The
invariant adds that a back-off is only entered with a retry left.

`GatewayProofs` (any requests, contents and configurations): `GatewayInvariance`, `LinesAreCorrelated`,
`ErrorsAreCorrelated`, `SignedMessagesOnly`, `GatewayIsTyped`. Assumptions
(`GatewayAssumption`): a request is for one of the routes; the payload of a webhook has a body and the
fields the message id may be in, each a string; `None`, which stands for "no error", is no error code
and no value of a field. `WInv` says where a request has its id from `Dispatch` on, and
that what has been called or taken has passed its checks under a configuration that starts; lemma
`OnlyOne` reduces every step to the request that takes it. `SInv`, over it, adds the types and
`TakenAsSent`: a message taken is the message of its payload. The message id is the first field that is
neither missing nor empty, a minimum over positions, found by well-foundedness.

### Texts

`TextProofs` states the six properties of run `texts` for texts of every length, every alphabet, every
`MinDigits` and `MaxDigits` and every reply limit: `EverySpellingAgrees`, `EveryDigitIsKept`,
`SeparatorsDoNotMatter`, `OnlyATokenRates`, `RatingsSurvive`, `EveryReplyFits`. Assumptions:
`TextAssumption` (a number has at least one digit) and `TypingAssumption`. The invariant is that
`text` is a sequence over the alphabet; the work is in what the functions do to any such sequence.

- *Induction.* Induction theorems whose parameter is a predicate cannot be instantiated by the installed
  provers. Lemmas `Induction` and `SeqInduction` therefore speak of a *set* that contains 0, or `<<>>`,
  and is closed under the next step; they follow from the well-foundedness of the natural numbers.
- *`Only`* is a recursive function, of which `OnlyIsKept` shows existence. Then: what it leaves of a
  longer text (`OnlyOfLonger`), of a concatenation, of what is filtered already.
- *`Strip`* and *`AfterChannel`* take the smallest or largest of some positions. `StripIs`,
  `StripSplits`, `ChannelIs` and `ChannelSplits` turn them into statements about texts side by side.
- `NormalizeIs`: `normalize_phone` is `Key` of what is dialled after the first colon, since a blank is
  neither dialled nor a colon. `OneKey` shows that the key of a number is the number, however the plus is
  written; `DigitsStay` that no digit is lost or moved.
- `ConsistsOfItsToken` and `TokenOfWhatConsists` are the two directions of `OnlyATokenRates`. `StripCuts`
  says what `Strip` returns, `CutStays` that a part which neither begins nor ends with what is stripped is
  what is left; `TokenCharacters` that no token has a character that `normalize_feedback_token` removes.
  `TokensDiffer`: no word means yes and no.
- `CutIs`: what is cut off and stripped at the right is a prefix.

### Only model-checked

`EveryQuestionSettles`, `EveryWebhookAnswered` and `EveryGenerationEnds`: liveness rests on fairness, and
TLAPS does not reason about `ENABLED`. Absence of deadlock, for the same reason. `RatingIsNotStale`: it
needs a history of what was stored when a rating came in. The five counterexamples are runs by nature.

## 6. Not modelled

- The SDK and Starlette beyond what the code relies on; the number of seconds a carrier waits.
- Environment parsing, creation of engine and schema, layout of log lines and of JSON: no state and
  no decision a property could be about. `app/core/schemas.py` is field names.
- The status map of Twilio: run `retries` takes its results as a set, `SendStatuses`.
- A commit that is reported as failed after it was applied.
- Isolation of the database beyond one row: each query reads one committed state.

## 7. Plan

Done: the store, the service, its abstract specification and properties; the text rules; the repository
with its abstract table, the admin listing, the generation, the HTTP layer; and the safety of each of
them as theorems.

Next, most important first:

1. `RatingIsNotStale` as a theorem: what a rating has read by each of its awaits, related to the order of
   `StoreTheorems`.
2. That `Generation` implements what `ConversationService` assumes of a generation (`LlmAnswers`,
   `LlmFails`, `LlmDeadline`) as a refinement of a small abstract specification.
3. That the updates of `process` in `ConversationService` meet `CallsAssumption`, as a theorem instead
   of the argument of section 2.3.
4. The safety half of the liveness properties: what must still hold of a question, a reply or a rating
   while it waits (that some step is always left for it).
