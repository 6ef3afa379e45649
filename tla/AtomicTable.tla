----------------------------- MODULE AtomicTable -----------------------------
(***************************************************************************)
(* What ConversationRepository promises to the tasks that share a table:   *)
(* every call takes effect at one moment, all of it or none of it, and its *)
(* caller is told which.  A caller may rely on the columns of its row that *)
(* no other task updates.                                                  *)
(***************************************************************************)
EXTENDS RepositoryCalls

VARIABLES
    table,   \* The rows.
    answer   \* What the last call of each task came to.

vars == <<table, answer>>

Init == table = <<>> /\ answer = [t \in Tasks |-> [outcome |-> "none"]]

Tell(t, outcome) == answer' = [answer EXCEPT ![t] = [outcome |-> outcome]]

TellRow(t, c, row) ==
    answer' = [answer EXCEPT
        ![t] = [outcome |-> "stored", id |-> c, row |-> [k \in Mine[t][c] |-> row[k]]]]

Create(t, call) ==
    IF ByProviderMessageId(table, call.row["provider_message_id"]) # {}
    THEN Tell(t, "duplicate") /\ UNCHANGED table
    ELSE table' = Inserted(table, call.id, call.row) /\ TellRow(t, call.id, call.row)

\* The message of this rating has rated another row.
RatesElsewhere(call) ==
    /\ "feedback_message_id" \in DOMAIN call.changes
    /\ ByFeedbackMessageId(table, call.changes["feedback_message_id"]) \ {call.id} # {}

Update(t, call) ==
    IF call.id \notin DOMAIN table THEN Tell(t, "not found") /\ UNCHANGED table
    ELSE IF RatesElsewhere(call) THEN Tell(t, "duplicate") /\ UNCHANGED table
    ELSE /\ table' = [table EXCEPT ![call.id] = Assigned(@, call.changes)]
         /\ TellRow(t, call.id, Assigned(table[call.id], call.changes))

\* A StorageError.
Fail(t) == Tell(t, "storage error") /\ UNCHANGED table

Next ==
    \E t \in Tasks :
        \/ Fail(t)
        \/ \E call \in Calls[t] : \/ call.op = "create" /\ Create(t, call)
                                  \/ call.op = "update" /\ Update(t, call)

Spec == Init /\ [][Next]_vars
=============================================================================
