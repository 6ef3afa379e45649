-------------------------- MODULE RepositorySessions --------------------------
(***************************************************************************)
(* Both implementations of ConversationRepository (app/db/repository.py):  *)
(* the SQL one, a session per call, and the dictionary of the unit tests,  *)
(* whose writes run under a lock without an await.                         *)
(*                                                                         *)
(* The SQL update is two steps, the SELECT of session.get() and the flush  *)
(* with its commit; other sessions commit in between.  updated_at is left  *)
(* out: every update writes it and nothing reads it.                       *)
(***************************************************************************)
EXTENDS RepositoryCalls

CONSTANTS
    Backends,   \* Which of "sql" and "memory" to look at.
    MaxCalls,   \* Bound: MaxCalls[t] calls of task t.
    MaxErrors   \* Bound: database operations that fail.

ASSUME SessionsAssumption ==
    /\ Backends \subseteq {"sql", "memory"}
    /\ MaxCalls \in [Tasks -> Nat]
    /\ MaxErrors \in Nat

VARIABLES
    backend,  \* The implementation in use.
    store,    \* The table, or the dictionary.
    session,  \* session[t]: the update t is in the middle of and the row it
              \* loaded, or None.
    result,   \* result[t]: what the last call of t returned or raised.
    calls,    \* calls[t]: how many calls t has made.
    errors    \* How many database operations have failed.

vars == <<backend, store, session, result, calls, errors>>

Init ==
    /\ backend \in Backends
    /\ store = <<>>
    /\ session = [t \in Tasks |-> None]
    /\ result = [t \in Tasks |-> [outcome |-> "none"]]
    /\ calls = [t \in Tasks |-> 0]
    /\ errors = 0

-----------------------------------------------------------------------------

CallsNow(t, op, call) ==
    /\ session[t] = None
    /\ calls[t] < MaxCalls[t]
    /\ call.op = op
    /\ calls' = [calls EXCEPT ![t] = @ + 1]

Returns(t, c, row) ==
    result' = [result EXCEPT ![t] = [outcome |-> "stored", id |-> c, row |-> row]]

Raises(t, error) == result' = [result EXCEPT ![t] = [outcome |-> error]]

(***************************************************************************)
(* create, alike in both: the unique provider_message_id, and the search   *)
(* of the dictionary for it.                                               *)
(***************************************************************************)
Create(t, call) ==
    /\ CallsNow(t, "create", call)
    /\ IF ByProviderMessageId(store, call.row["provider_message_id"]) # {}
       THEN Raises(t, "duplicate") /\ UNCHANGED store
       ELSE /\ store' = Inserted(store, call.id, call.row)
            /\ Returns(t, call.id, call.row)
    /\ UNCHANGED <<backend, session, errors>>

\* session.get(ConversationRow, conversation_id)
Load(t, call) ==
    /\ backend = "sql"
    /\ CallsNow(t, "update", call)
    /\ IF call.id \in DOMAIN store
       THEN /\ session' = [session EXCEPT ![t] = [call |-> call, row |-> store[call.id]]]
            /\ UNCHANGED result
       ELSE Raises(t, "not found") /\ UNCHANGED session
    /\ UNCHANGED <<backend, store, errors>>

\* Mistake: every column is written, as session.merge() of a whole row would.
WholeRow(row, loaded, changes) == Assigned(loaded, changes)

\* The columns setattr has changed, over the row as it is by now.
Flushed(row, loaded, changes) ==
    Assigned(row, [k \in {j \in DOMAIN changes : changes[j] # loaded[j]} |-> changes[k]])

\* Mistake: the column is not unique.
NeverTaken(c, messageId) == FALSE

\* Another row than c names this message as its rating.
RatingTaken(c, messageId) == ByFeedbackMessageId(store, messageId) \ {c} # {}

\* The unique feedback_message_id looks at a flush that writes the column.
FlushRefused(call, loaded) ==
    /\ "feedback_message_id" \in DOMAIN call.changes
    /\ call.changes["feedback_message_id"] # loaded["feedback_message_id"]
    /\ RatingTaken(call.id, call.changes["feedback_message_id"])

\* The end of session.begin().
Commit(t) ==
    /\ session[t] # None
    /\ LET call == session[t].call
           loaded == session[t].row
       IN  IF FlushRefused(call, loaded)
           THEN Raises(t, "duplicate") /\ UNCHANGED store
           ELSE /\ store' = [store EXCEPT ![call.id] = Flushed(@, loaded, call.changes)]
                /\ Returns(t, call.id, Assigned(loaded, call.changes))
    /\ session' = [session EXCEPT ![t] = None]
    /\ UNCHANGED <<backend, calls, errors>>

\* Mistake: an unknown id is stored.
MemoryUpdateInserts(t, call) ==
    /\ backend = "memory"
    /\ CallsNow(t, "update", call)
    /\ store' = Inserted(store, call.id, call.changes)
    /\ Returns(t, call.id, call.changes)
    /\ UNCHANGED <<backend, session, errors>>

\* update of the dictionary.
MemoryUpdate(t, call) ==
    /\ backend = "memory"
    /\ CallsNow(t, "update", call)
    /\ IF call.id \notin DOMAIN store
       THEN Raises(t, "not found") /\ UNCHANGED store
       ELSE IF /\ "feedback_message_id" \in DOMAIN call.changes
               /\ RatingTaken(call.id, call.changes["feedback_message_id"])
       THEN Raises(t, "duplicate") /\ UNCHANGED store
       ELSE /\ store' = [store EXCEPT ![call.id] = Assigned(@, call.changes)]
            /\ Returns(t, call.id, Assigned(store[call.id], call.changes))
    /\ UNCHANGED <<backend, session, errors>>

Fails(t) ==
    /\ backend = "sql"
    /\ errors < MaxErrors
    /\ errors' = errors + 1
    /\ Raises(t, "storage error")

\* Mistake: a write has reached the table when its failure is reported.
FailsAfterFlush(t) ==
    /\ Fails(t)
    /\ session[t] # None
    /\ session' = [session EXCEPT ![t] = None]
    /\ store' = [store EXCEPT ![session[t].call.id] =
           Flushed(@, session[t].row, session[t].call.changes)]
    /\ UNCHANGED <<backend, calls>>

\* A SQLAlchemyError at any statement of a session: it is rolled back.
StorageFails(t) ==
    /\ Fails(t)
    /\ \/ session[t] # None /\ UNCHANGED calls
       \/ \E call \in Calls[t] : CallsNow(t, call.op, call)
    /\ session' = [session EXCEPT ![t] = None]
    /\ UNCHANGED <<backend, store>>

Next ==
    \E t \in Tasks :
        \/ Commit(t)
        \/ StorageFails(t)
        \/ \E call \in Calls[t] : Create(t, call) \/ Load(t, call) \/ MemoryUpdate(t, call)

Spec == Init /\ [][Next]_vars

-----------------------------------------------------------------------------
(* Properties. *)

\* Every variable has its type: rows stay whole, whichever columns are written.
SessionsTypeOK ==
    /\ backend \in Backends
    /\ DOMAIN store \subseteq Requests
    /\ \A c \in DOMAIN store : store[c] \in Conversation
    /\ \A t \in Tasks :
           session[t] # None =>
               session[t].call \in Calls[t] /\ session[t].row \in Conversation
    /\ \A t \in Tasks : result[t].outcome = "stored" =>
           result[t].row \in Conversation
    /\ \A t \in Tasks : calls[t] \in 0 .. MaxCalls[t]
    /\ errors \in 0 .. MaxErrors

(***************************************************************************)
(* No two rows hold one message and no two are rated by one: the two       *)
(* unique constraints, with the sessions of retried webhooks overlapping.  *)
(***************************************************************************)
UniqueIds ==
    \A c, d \in DOMAIN store :
        /\ store[c]["provider_message_id"] = store[d]["provider_message_id"] => c = d
        /\ /\ store[c]["feedback_message_id"] = store[d]["feedback_message_id"]
           /\ store[c]["feedback_message_id"] # None
           => c = d

(***************************************************************************)
(* What a call has returned stays true of the columns nobody else updates  *)
(* until the caller's next write, although the row returned was loaded     *)
(* before others committed: process relies on it for the answer it sends.  *)
(***************************************************************************)
WriterKnowsItsColumns ==
    \A t \in Tasks : result[t].outcome = "stored" =>
        /\ result[t].id \in DOMAIN store
        /\ \A k \in Mine[t][result[t].id] : store[result[t].id][k] = result[t].row[k]

Answer(t) ==
    IF result[t].outcome = "stored"
    THEN [outcome |-> "stored", id |-> result[t].id,
          row |-> [k \in Mine[t][result[t].id] |-> result[t].row[k]]]
    ELSE result[t]

Abstract == INSTANCE AtomicTable WITH
    table <- store,
    answer <- [t \in Tasks |-> Answer(t)]

(***************************************************************************)
(* Both implementations are the atomic table: no update is lost, applied   *)
(* in part or reported wrongly, although the SQL one writes after other    *)
(* sessions have committed, from a row it loaded before they did.  This is *)
(* for callers that keep CallsAssumption, which two different ratings of   *)
(* one conversation do not: those can lose a part of an update, and run    *)
(* audit_trail of ConversationService shows how.                           *)
(***************************************************************************)
ImplementsAtomicTable == Abstract!Spec
=============================================================================
