--------------------------- MODULE RepositoryProofs ---------------------------
(***************************************************************************)
(* Theorems about RepositorySessions, for every set of tasks and calls     *)
(* that keeps CallsAssumption, either backend, and any number of calls and *)
(* failing operations.                                                     *)
(***************************************************************************)
EXTENDS AdminListing, StoreTheorems, TLAPS

(***************************************************************************)
(* The inductive invariant.  The heart of it is Undisturbed: a column that *)
(* the flush of a session is going to assign still has the value loaded,   *)
(* or already has the value assigned.  That is why leaving a column out of *)
(* the flush, when the two are equal, loses nothing.                       *)
(***************************************************************************)
WholeRows ==
    /\ DOMAIN store \subseteq Requests
    /\ \A c \in DOMAIN store : DOMAIN store[c] = Columns

\* A row holds the message its id was drawn for.
HoldsItsMessage ==
    \A t \in Tasks : \A call \in Calls[t] :
        call.op = "create" /\ call.id \in DOMAIN store =>
            store[call.id]["provider_message_id"] = call.row["provider_message_id"]

Undisturbed(t) ==
    session[t] # None =>
        LET call == session[t].call
            loaded == session[t].row
        IN  /\ call \in Calls[t]
            /\ call.op = "update"
            /\ call.id \in DOMAIN store
            /\ DOMAIN loaded = Columns
            /\ \A k \in DOMAIN call.changes :
                   store[call.id][k] \in {loaded[k], call.changes[k]}
            /\ \A k \in Mine[t][call.id] : store[call.id][k] = loaded[k]

Knows(t) ==
    result[t].outcome = "stored" =>
        /\ result[t].id \in DOMAIN store
        /\ \A k \in Mine[t][result[t].id] : store[result[t].id][k] = result[t].row[k]

TableInv == WholeRows /\ HoldsItsMessage /\ UniqueIds

RInv ==
    /\ DOMAIN session = Tasks
    /\ DOMAIN result = Tasks
    /\ TableInv
    /\ \A t \in Tasks : Undisturbed(t) /\ Knows(t)

-----------------------------------------------------------------------------
(* The two ways a call changes the table. *)

\* The row of a create call of t goes in.
Inserts(t, call) ==
    /\ call \in Calls[t]
    /\ call.op = "create"
    /\ ByProviderMessageId(store, call.row["provider_message_id"]) = {}
    /\ store' = Inserted(store, call.id, call.row)

\* The fields of an update call of t are assigned, all of them.
Assigns(t, call) ==
    /\ call \in Calls[t]
    /\ call.op = "update"
    /\ call.id \in DOMAIN store
    /\ ~ ( /\ "feedback_message_id" \in DOMAIN call.changes
           /\ RatingTaken(call.id, call.changes["feedback_message_id"]) )
    /\ store' = [store EXCEPT ![call.id] = Assigned(@, call.changes)]

\* What they come to.
InsertEffect(call) ==
    /\ call.id \notin DOMAIN store
    /\ call.id \in Requests
    /\ DOMAIN store' = DOMAIN store \cup {call.id}
    /\ \A c \in DOMAIN store : c # call.id /\ store'[c] = store[c]
    /\ store'[call.id] = call.row

AssignEffect(call) ==
    /\ call.id \in DOMAIN store
    /\ DOMAIN store' = DOMAIN store
    /\ \A c \in DOMAIN store : c # call.id => store'[c] = store[c]
    /\ DOMAIN store'[call.id] = Columns
    /\ \A k \in Columns : store'[call.id][k] =
           IF k \in DOMAIN call.changes THEN call.changes[k] ELSE store[call.id][k]

LEMMA MineMembers ==
    ASSUME NEW t \in Tasks, NEW c \in Requests, NEW k \in Mine[t][c]
    PROVE  /\ k \in Columns
           /\ \A u \in Tasks \ {t} : \A call \in Calls[u] :
                  call.op = "update" /\ call.id = c => k \notin DOMAIN call.changes
BY DEF Mine

\* What CallsAssumption says of one call.
LEMMA CallShape ==
    ASSUME NEW t \in Tasks, NEW call \in Calls[t]
    PROVE  /\ call.id \in Requests
           /\ call.op = "create" =>
                  /\ DOMAIN call.row = Columns
                  /\ call.row \in Conversation
                  /\ call.row["feedback_message_id"] = None
           /\ call.op = "update" =>
                  /\ DOMAIN call.changes \subseteq Columns \ Immutable
                  /\ \A k \in DOMAIN call.changes : call.changes[k] \in FieldType[k]
                  /\ "feedback_message_id" \in DOMAIN call.changes =>
                         call.changes["feedback_message_id"] # None
<1>1. \/ /\ call.op = "create"
         /\ call.row \in Conversation
         /\ call.row["feedback_message_id"] = None
      \/ /\ call.op = "update"
         /\ DOMAIN call.changes \subseteq Columns \ Immutable
         /\ \A k \in DOMAIN call.changes : call.changes[k] \in FieldType[k]
         /\ "feedback_message_id" \in DOMAIN call.changes =>
                call.changes["feedback_message_id"] # None
  BY CallsAssumption
<1>2. call.row \in Conversation => DOMAIN call.row = Columns
  BY DEF Conversation, Columns
<1>3. QED
  BY <1>1, <1>2, CallsAssumption

\* What it says of two calls for one conversation.
LEMMA CallsAgree ==
    ASSUME NEW t \in Tasks, NEW u \in Tasks, NEW a \in Calls[t], NEW b \in Calls[u],
           a.id = b.id
    PROVE  /\ a.op = "create" /\ b.op = "create" =>
                  a.row["provider_message_id"] = b.row["provider_message_id"]
           /\ a.op = "update" /\ b.op = "update" /\ t # u =>
                  \A k \in DOMAIN a.changes \cap DOMAIN b.changes :
                      a.changes[k] = b.changes[k]
BY CallsAssumption

\* A conversation is inserted under an id that is not in the table.
LEMMA InsertIsNew ==
    ASSUME TableInv, NEW t \in Tasks, NEW call, Inserts(t, call)
    PROVE  InsertEffect(call)
<1>1. call \in Calls[t] /\ call.op = "create"
  BY DEF Inserts
<1>2. call.id \notin DOMAIN store
  <2>1. SUFFICES ASSUME call.id \in DOMAIN store PROVE FALSE
    OBVIOUS
  <2>2. store[call.id]["provider_message_id"] = call.row["provider_message_id"]
    BY <1>1, <2>1 DEF TableInv, HoldsItsMessage
  <2>3. QED
    BY <2>1, <2>2 DEF Inserts, ByProviderMessageId
<1>3. QED
  BY <1>1, <1>2, CallShape DEF Inserts, Inserted, InsertEffect

LEMMA InsertKeepsTable ==
    ASSUME TableInv, NEW t \in Tasks, NEW call, Inserts(t, call)
    PROVE  TableInv'
<1>0. InsertEffect(call)
  BY InsertIsNew
<1>1. call \in Calls[t] /\ call.op = "create"
  BY DEF Inserts
<1>2. /\ DOMAIN call.row = Columns
      /\ call.row["feedback_message_id"] = None
  BY <1>1, CallShape
<1>3. WholeRows'
  BY <1>0, <1>2 DEF WholeRows, InsertEffect, TableInv
<1>4. HoldsItsMessage'
  <2>1. SUFFICES ASSUME NEW u \in Tasks, NEW a \in Calls[u], a.op = "create",
                        (a.id \in DOMAIN store)'
                 PROVE  store'[a.id]["provider_message_id"] = a.row["provider_message_id"]
    BY DEF HoldsItsMessage
  <2>2. CASE a.id = call.id
    BY <1>0, <2>1, <2>2, <1>1, CallsAgree DEF InsertEffect, TableInv
  <2>3. CASE a.id # call.id
    BY <1>0, <2>1, <2>3 DEF HoldsItsMessage, InsertEffect, TableInv
  <2>4. QED
    BY <2>2, <2>3
<1>5. UniqueIds'
  <2>1. \A c \in DOMAIN store :
            store[c]["provider_message_id"] # call.row["provider_message_id"]
    BY DEF Inserts, ByProviderMessageId
  <2>2. QED
    BY <1>0, <1>2, <2>1 DEF UniqueIds, InsertEffect, TableInv
<1>6. QED
  BY <1>3, <1>4, <1>5 DEF TableInv

\* An update leaves every other row, and every other column, alone.
LEMMA AssignChangesOneRow ==
    ASSUME TableInv, NEW t \in Tasks, NEW call, Assigns(t, call)
    PROVE  AssignEffect(call)
<1>1. DOMAIN store[call.id] = Columns
  BY DEF Assigns, TableInv, WholeRows
<1>2. store'[call.id] = Assigned(store[call.id], call.changes)
  BY DEF Assigns
<1>3. QED
  BY <1>1, <1>2 DEF Assigns, Assigned, AssignEffect

LEMMA AssignKeepsTable ==
    ASSUME TableInv, NEW t \in Tasks, NEW call, Assigns(t, call)
    PROVE  TableInv'
<1>0. AssignEffect(call)
  BY AssignChangesOneRow
<1> USE DEF AssignEffect, TableInv
<1>1. call \in Calls[t] /\ call.op = "update" /\ call.id \in DOMAIN store
  BY DEF Assigns
<1>2. DOMAIN call.changes \subseteq Columns \ Immutable
  BY <1>1, CallShape
<1>3. \A c \in DOMAIN store :
          store'[c]["provider_message_id"] = store[c]["provider_message_id"]
  BY <1>0, <1>2 DEF Columns, Immutable
<1>4. WholeRows'
  BY <1>0 DEF WholeRows
<1>5. HoldsItsMessage'
  BY <1>0, <1>3 DEF HoldsItsMessage
<1>6. UniqueIds'
  <2>1. SUFFICES ASSUME NEW c \in DOMAIN store, NEW d \in DOMAIN store, c # d,
                        store'[c]["feedback_message_id"] = store'[d]["feedback_message_id"]
                 PROVE  store'[c]["feedback_message_id"] = None
    BY <1>0, <1>3 DEF UniqueIds
  <2>2. \A e \in DOMAIN store \ {call.id} :
            store'[e]["feedback_message_id"] = store[e]["feedback_message_id"]
    BY <1>0
  <2>3. CASE "feedback_message_id" \in DOMAIN call.changes
    <3>1. store'[call.id]["feedback_message_id"] = call.changes["feedback_message_id"]
      BY <1>0, <2>3 DEF Columns
    <3>2. \A e \in DOMAIN store \ {call.id} :
              store[e]["feedback_message_id"] # call.changes["feedback_message_id"]
      BY <2>3 DEF Assigns, RatingTaken, ByFeedbackMessageId
    <3>3. QED
      BY <2>1, <2>2, <3>1, <3>2 DEF UniqueIds
  <2>4. CASE "feedback_message_id" \notin DOMAIN call.changes
    <3>1. store'[call.id]["feedback_message_id"] = store[call.id]["feedback_message_id"]
      BY <1>0, <2>4 DEF Columns
    <3>2. QED
      BY <1>1, <2>1, <2>2, <3>1 DEF UniqueIds
  <2>5. QED
    BY <2>3, <2>4
<1>7. QED
  BY <1>4, <1>5, <1>6 DEF TableInv

-----------------------------------------------------------------------------
(* What the writes of one task mean for the others. *)

LEMMA OthersUndisturbed ==
    ASSUME TableInv, NEW t \in Tasks, NEW u \in Tasks, t # u,
           Undisturbed(u), Knows(u),
           session'[u] = session[u], result'[u] = result[u],
           \/ UNCHANGED store
           \/ \E call \in Calls[t] : Inserts(t, call) \/ Assigns(t, call)
    PROVE  Undisturbed(u)' /\ Knows(u)'
<1>1. CASE UNCHANGED store
  BY <1>1 DEF Undisturbed, Knows
<1>2. ASSUME NEW call \in Calls[t], Inserts(t, call)
      PROVE  Undisturbed(u)' /\ Knows(u)'
  <2>1. InsertEffect(call)
    BY <1>2, InsertIsNew
  <2>2. QED
    BY <2>1 DEF Undisturbed, Knows, InsertEffect
<1>3. ASSUME NEW call \in Calls[t], Assigns(t, call)
      PROVE  Undisturbed(u)' /\ Knows(u)'
  <2>1. AssignEffect(call) /\ call.op = "update"
    BY <1>3, AssignChangesOneRow DEF Assigns
  <2>2. \A c \in DOMAIN store : \A k \in Mine[u][c] : store'[c][k] = store[c][k]
    <3>1. SUFFICES ASSUME NEW c \in DOMAIN store, NEW k \in Mine[u][c]
                   PROVE  store'[c][k] = store[c][k]
      OBVIOUS
    <3>2. c \in Requests
      BY DEF TableInv, WholeRows
    <3>3. k \in Columns /\ (call.id = c => k \notin DOMAIN call.changes)
      BY <2>1, <3>2, MineMembers
    <3>4. QED
      BY <2>1, <3>3 DEF AssignEffect
  <2>3. Knows(u)'
    BY <2>1, <2>2 DEF Knows, AssignEffect
  <2>4. Undisturbed(u)'
    <3>1. SUFFICES ASSUME session[u] # None PROVE Undisturbed(u)'
      BY DEF Undisturbed
    <3> DEFINE own == session[u].call
               loaded == session[u].row
    <3>2. /\ own \in Calls[u]
          /\ own.op = "update"
          /\ own.id \in DOMAIN store
          /\ DOMAIN loaded = Columns
          /\ \A k \in DOMAIN own.changes : store[own.id][k] \in {loaded[k], own.changes[k]}
          /\ \A k \in Mine[u][own.id] : store[own.id][k] = loaded[k]
      BY <3>1 DEF Undisturbed
    <3>3. DOMAIN own.changes \subseteq Columns
      BY <3>2, CallShape
    <3>4. \A k \in DOMAIN own.changes : store'[own.id][k] \in {loaded[k], own.changes[k]}
      <4>1. CASE own.id # call.id
        BY <2>1, <3>2, <4>1 DEF AssignEffect
      <4>2. CASE own.id = call.id
        <5>1. \A k \in DOMAIN own.changes \cap DOMAIN call.changes :
                  own.changes[k] = call.changes[k]
          BY <2>1, <3>2, <4>2, CallsAgree
        <5>2. QED
          BY <2>1, <3>2, <3>3, <4>2, <5>1 DEF AssignEffect
      <4>3. QED
        BY <4>1, <4>2
    <3>5. QED
      BY <2>1, <2>2, <3>2, <3>4 DEF Undisturbed, AssignEffect
  <2>5. QED
    BY <2>3, <2>4
<1>4. QED
  BY <1>1, <1>2, <1>3

(***************************************************************************)
(* A flush assigns every field of the update, as far as anyone can tell,   *)
(* and is refused exactly when the message has rated another row.          *)
(***************************************************************************)
LEMMA FlushAssigns ==
    ASSUME TableInv, NEW t \in Tasks, session[t] # None, Undisturbed(t)
    PROVE  LET call == session[t].call
               loaded == session[t].row
           IN  /\ Flushed(store[call.id], loaded, call.changes)
                      = Assigned(store[call.id], call.changes)
               /\ FlushRefused(call, loaded) <=>
                      /\ "feedback_message_id" \in DOMAIN call.changes
                      /\ RatingTaken(call.id, call.changes["feedback_message_id"])
<1> DEFINE call == session[t].call
           loaded == session[t].row
           row == store[call.id]
           written == {j \in DOMAIN call.changes : call.changes[j] # loaded[j]}
<1>1. /\ call \in Calls[t]
      /\ call.op = "update"
      /\ call.id \in DOMAIN store
      /\ \A k \in DOMAIN call.changes : row[k] \in {loaded[k], call.changes[k]}
  BY DEF Undisturbed
<1>2. Flushed(row, loaded, call.changes) = Assigned(row, call.changes)
  <2>1. \A k \in DOMAIN row :
            (IF k \in written THEN [j \in written |-> call.changes[j]][k] ELSE row[k])
            = (IF k \in DOMAIN call.changes THEN call.changes[k] ELSE row[k])
    BY <1>1
  <2>2. QED
    BY <2>1 DEF Flushed, Assigned
<1>3. ASSUME "feedback_message_id" \in DOMAIN call.changes,
             call.changes["feedback_message_id"] = loaded["feedback_message_id"]
      PROVE  ~RatingTaken(call.id, call.changes["feedback_message_id"])
  <2>1. /\ row["feedback_message_id"] = call.changes["feedback_message_id"]
        /\ row["feedback_message_id"] # None
    BY <1>1, <1>3, CallShape
  <2>2. QED
    BY <1>1, <2>1 DEF TableInv, UniqueIds, RatingTaken, ByFeedbackMessageId
<1>4. QED
  BY <1>2, <1>3 DEF FlushRefused

-----------------------------------------------------------------------------
(* The steps of one task. *)

\* What a step of task t may do, and what holds of t after it.
TaskStep(t) ==
    /\ \/ UNCHANGED store
       \/ \E call \in Calls[t] : Inserts(t, call) \/ Assigns(t, call)
    /\ DOMAIN session' = Tasks
    /\ DOMAIN result' = Tasks
    /\ \A u \in Tasks \ {t} : session'[u] = session[u] /\ result'[u] = result[u]
    /\ Undisturbed(t)'
    /\ Knows(t)'

LEMMA TaskStepKeepsRInv ==
    ASSUME RInv, NEW t \in Tasks, TaskStep(t)
    PROVE  RInv'
<1>1. TableInv'
  <2>1. CASE UNCHANGED store
    BY <2>1 DEF RInv, TableInv, WholeRows, HoldsItsMessage, UniqueIds
  <2>2. ASSUME NEW call \in Calls[t], Inserts(t, call) \/ Assigns(t, call)
        PROVE  TableInv'
    BY <2>2, InsertKeepsTable, AssignKeepsTable DEF RInv
  <2>3. QED
    BY <2>1, <2>2 DEF TaskStep
<1>2. ASSUME NEW u \in Tasks PROVE Undisturbed(u)' /\ Knows(u)'
  <2>1. CASE u = t
    BY <2>1 DEF TaskStep
  <2>2. CASE u # t
    BY <2>2, OthersUndisturbed DEF TaskStep, RInv
  <2>3. QED
    BY <2>1, <2>2
<1>3. QED
  BY <1>1, <1>2 DEF TaskStep, RInv

\* Under the mapping, a step that ends a call changes one answer.
LEMMA OneAnswer ==
    ASSUME NEW t \in Tasks, \A u \in Tasks \ {t} : result'[u] = result[u]
    PROVE  [u \in Tasks |-> Answer(u)]' = [[u \in Tasks |-> Answer(u)] EXCEPT ![t] = Answer(t)']
<1>1. \A u \in Tasks \ {t} : Answer(u)' = Answer(u)
  BY DEF Answer
<1>2. QED
  BY <1>1

LEMMA RaisesTells ==
    ASSUME RInv, NEW t \in Tasks, NEW error, error # "stored", Raises(t, error)
    PROVE  /\ Abstract!Tell(t, error)
           /\ DOMAIN result' = Tasks
           /\ \A u \in Tasks \ {t} : result'[u] = result[u]
           /\ Knows(t)'
<1>1. /\ result'[t] = [outcome |-> error]
      /\ DOMAIN result' = Tasks
      /\ \A u \in Tasks \ {t} : result'[u] = result[u]
  BY DEF RInv, Raises
<1>2. Answer(t)' = [outcome |-> error] /\ Knows(t)'
  BY <1>1 DEF Answer, Knows
<1>3. QED
  BY <1>1, <1>2, OneAnswer DEF Abstract!Tell

LEMMA ReturnsTells ==
    ASSUME RInv, NEW t \in Tasks, NEW c, NEW row, Returns(t, c, row)
    PROVE  /\ Abstract!TellRow(t, c, row)
           /\ DOMAIN result' = Tasks
           /\ \A u \in Tasks \ {t} : result'[u] = result[u]
           /\ result'[t] = [outcome |-> "stored", id |-> c, row |-> row]
<1>1. /\ result'[t] = [outcome |-> "stored", id |-> c, row |-> row]
      /\ DOMAIN result' = Tasks
      /\ \A u \in Tasks \ {t} : result'[u] = result[u]
  BY DEF RInv, Returns
<1>2. Answer(t)' = [outcome |-> "stored", id |-> c, row |-> [k \in Mine[t][c] |-> row[k]]]
  BY <1>1 DEF Answer
<1>3. Abstract!Mine = Mine
  BY DEF Abstract!Mine, Mine, Abstract!Columns, Columns
<1>4. QED
  BY <1>1, <1>2, <1>3, OneAnswer DEF Abstract!TellRow

LEMMA CreateStep ==
    ASSUME RInv, NEW t \in Tasks, NEW call \in Calls[t], Create(t, call)
    PROVE  TaskStep(t) /\ Abstract!Next
<1>1. call.op = "create" /\ UNCHANGED session
  BY DEF Create, CallsNow
<1>2. CASE ByProviderMessageId(store, call.row["provider_message_id"]) # {}
  <2>1. Raises(t, "duplicate") /\ UNCHANGED store
    BY <1>2 DEF Create
  <2>2. Undisturbed(t)'
    BY <1>1, <2>1 DEF RInv, Undisturbed
  <2>3. TaskStep(t)
    BY <1>1, <2>1, <2>2, RaisesTells DEF TaskStep, RInv
  <2>4. Abstract!Create(t, call)
    BY <1>2, <2>1, RaisesTells
       DEF Abstract!Create, Abstract!ByProviderMessageId, ByProviderMessageId
  <2>5. QED
    BY <1>1, <2>3, <2>4 DEF Abstract!Next
<1>3. CASE ByProviderMessageId(store, call.row["provider_message_id"]) = {}
  <2>1. /\ store' = Inserted(store, call.id, call.row)
        /\ Returns(t, call.id, call.row)
    BY <1>3 DEF Create
  <2>2. Inserts(t, call)
    BY <1>1, <1>3, <2>1 DEF Inserts
  <2>3. InsertEffect(call)
    BY <2>2, InsertIsNew DEF RInv
  <2>4. Undisturbed(t)'
    BY <1>1, <2>3 DEF RInv, Undisturbed, InsertEffect
  <2>5. Knows(t)'
    <3>1. result'[t] = [outcome |-> "stored", id |-> call.id, row |-> call.row]
      BY <2>1, ReturnsTells
    <3>2. QED
      BY <2>3, <3>1 DEF Knows, InsertEffect
  <2>6. TaskStep(t)
    BY <1>1, <2>1, <2>2, <2>4, <2>5, ReturnsTells DEF TaskStep, RInv
  <2>7. Abstract!Create(t, call)
    BY <1>3, <2>1, ReturnsTells
       DEF Abstract!Create, Abstract!ByProviderMessageId, ByProviderMessageId,
           Abstract!Inserted, Inserted
  <2>8. QED
    BY <1>1, <2>6, <2>7 DEF Abstract!Next
<1>4. QED
  BY <1>2, <1>3

LEMMA LoadStep ==
    ASSUME RInv, NEW t \in Tasks, NEW call \in Calls[t], Load(t, call)
    PROVE  TaskStep(t) /\ (Abstract!Next \/ UNCHANGED Abstract!vars)
<1>1. call.op = "update" /\ UNCHANGED store
  BY DEF Load, CallsNow
<1>2. CASE call.id \in DOMAIN store
  <2>1. /\ UNCHANGED result
        /\ session' = [session EXCEPT ![t] = [call |-> call, row |-> store[call.id]]]
    BY <1>2 DEF Load
  <2>2. Undisturbed(t)'
    BY <1>1, <1>2, <2>1 DEF RInv, TableInv, WholeRows, Undisturbed
  <2>3. TaskStep(t)
    BY <1>1, <2>1, <2>2 DEF TaskStep, RInv, Knows
  <2>4. UNCHANGED Abstract!vars
    BY <1>1, <2>1 DEF Abstract!vars, Answer
  <2>5. QED
    BY <2>3, <2>4
<1>3. CASE call.id \notin DOMAIN store
  <2>1. Raises(t, "not found") /\ UNCHANGED session
    BY <1>3 DEF Load
  <2>2. Undisturbed(t)'
    BY <1>1, <2>1 DEF RInv, Undisturbed
  <2>3. TaskStep(t)
    BY <1>1, <2>1, <2>2, RaisesTells DEF TaskStep, RInv
  <2>4. Abstract!Update(t, call)
    BY <1>1, <1>3, <2>1, RaisesTells DEF Abstract!Update
  <2>5. QED
    BY <1>1, <2>3, <2>4 DEF Abstract!Next
<1>4. QED
  BY <1>2, <1>3

\* An update of t takes effect, or is refused.
LEMMA UpdateStep ==
    ASSUME RInv, NEW t \in Tasks, NEW call \in Calls[t], call.op = "update",
           call.id \in DOMAIN store,
           IF /\ "feedback_message_id" \in DOMAIN call.changes
              /\ RatingTaken(call.id, call.changes["feedback_message_id"])
           THEN Raises(t, "duplicate") /\ UNCHANGED store
           ELSE /\ store' = [store EXCEPT ![call.id] = Assigned(@, call.changes)]
                /\ \E row : /\ \A k \in Mine[t][call.id] :
                                   row[k] = Assigned(store[call.id], call.changes)[k]
                            /\ Returns(t, call.id, row),
           DOMAIN session' = Tasks, session'[t] = None,
           \A u \in Tasks \ {t} : session'[u] = session[u]
    PROVE  TaskStep(t) /\ Abstract!Next
<1> DEFINE refused == /\ "feedback_message_id" \in DOMAIN call.changes
                      /\ RatingTaken(call.id, call.changes["feedback_message_id"])
<1>1. refused <=> Abstract!RatesElsewhere(call)
  BY DEF Abstract!RatesElsewhere, Abstract!ByFeedbackMessageId, RatingTaken, ByFeedbackMessageId
<1>2. Undisturbed(t)'
  BY DEF Undisturbed
<1>3. CASE refused
  <2>1. Raises(t, "duplicate") /\ UNCHANGED store
    BY <1>3
  <2>2. TaskStep(t)
    BY <1>2, <2>1, RaisesTells DEF TaskStep
  <2>3. Abstract!Update(t, call)
    BY <1>1, <1>3, <2>1, RaisesTells DEF Abstract!Update
  <2>4. QED
    BY <2>2, <2>3 DEF Abstract!Next
<1>4. CASE ~refused
  <2>1. PICK row : /\ \A k \in Mine[t][call.id] :
                          row[k] = Assigned(store[call.id], call.changes)[k]
                   /\ Returns(t, call.id, row)
    BY <1>4
  <2>2. store' = [store EXCEPT ![call.id] = Assigned(@, call.changes)]
    BY <1>4
  <2>3. Assigns(t, call)
    BY <1>4, <2>2 DEF Assigns
  <2>4. /\ DOMAIN store' = DOMAIN store
        /\ store'[call.id] = Assigned(store[call.id], call.changes)
    BY <2>2
  <2>5. Knows(t)'
    <3>1. result'[t] = [outcome |-> "stored", id |-> call.id, row |-> row]
      BY <2>1, ReturnsTells
    <3>2. QED
      BY <2>1, <2>4, <3>1 DEF Knows
  <2>6. TaskStep(t)
    BY <1>2, <2>1, <2>3, <2>5, ReturnsTells DEF TaskStep
  <2>7. Abstract!TellRow(t, call.id, Assigned(store[call.id], call.changes))
    <3>1. Abstract!Mine = Mine
      BY DEF Abstract!Mine, Mine, Abstract!Columns, Columns
    <3>2. [k \in Mine[t][call.id] |-> row[k]]
          = [k \in Mine[t][call.id] |-> Assigned(store[call.id], call.changes)[k]]
      BY <2>1
    <3>3. Abstract!TellRow(t, call.id, row)
      BY <2>1, ReturnsTells
    <3>4. QED
      BY <3>1, <3>2, <3>3 DEF Abstract!TellRow
  <2>8. Abstract!Update(t, call)
    BY <1>1, <1>4, <2>2, <2>7 DEF Abstract!Update, Abstract!Assigned, Assigned
  <2>9. QED
    BY <2>6, <2>8 DEF Abstract!Next
<1>5. QED
  BY <1>3, <1>4

LEMMA CommitStep ==
    ASSUME RInv, NEW t \in Tasks, Commit(t)
    PROVE  TaskStep(t) /\ Abstract!Next
<1> DEFINE call == session[t].call
           loaded == session[t].row
<1>1. /\ session[t] # None
      /\ session' = [session EXCEPT ![t] = None]
      /\ DOMAIN session = Tasks
  BY DEF Commit, RInv
<1>2. /\ TableInv
      /\ Undisturbed(t)
  BY DEF RInv
<1>3. /\ call \in Calls[t]
      /\ call.op = "update"
      /\ call.id \in DOMAIN store
      /\ DOMAIN loaded = Columns
      /\ \A k \in Mine[t][call.id] : store[call.id][k] = loaded[k]
  BY <1>1, <1>2 DEF Undisturbed
<1>4. /\ Flushed(store[call.id], loaded, call.changes) = Assigned(store[call.id], call.changes)
      /\ FlushRefused(call, loaded) <=>
             /\ "feedback_message_id" \in DOMAIN call.changes
             /\ RatingTaken(call.id, call.changes["feedback_message_id"])
  BY <1>1, <1>2, FlushAssigns
<1>5. \A k \in Mine[t][call.id] :
          Assigned(loaded, call.changes)[k] = Assigned(store[call.id], call.changes)[k]
  <2>1. SUFFICES ASSUME NEW k \in Mine[t][call.id]
                 PROVE  Assigned(loaded, call.changes)[k]
                            = Assigned(store[call.id], call.changes)[k]
    OBVIOUS
  <2>2. /\ DOMAIN store[call.id] = Columns
        /\ call.id \in Requests
    BY <1>2, <1>3 DEF TableInv, WholeRows
  <2>3. k \in Columns
    BY <2>2, MineMembers
  <2>4. QED
    BY <1>3, <2>2, <2>3 DEF Assigned
<1>6. CASE FlushRefused(call, loaded)
  <2>1. Raises(t, "duplicate") /\ UNCHANGED store
    BY <1>6 DEF Commit
  <2>2. QED
    BY <1>1, <1>3, <1>4, <1>6, <2>1, UpdateStep
<1>7. CASE ~FlushRefused(call, loaded)
  <2>1. /\ store' = [store EXCEPT ![call.id] = Flushed(@, loaded, call.changes)]
        /\ Returns(t, call.id, Assigned(loaded, call.changes))
    BY <1>7 DEF Commit
  <2>2. store' = [store EXCEPT ![call.id] = Assigned(@, call.changes)]
    BY <1>4, <2>1
  <2>3. \E row : /\ \A k \in Mine[t][call.id] :
                        row[k] = Assigned(store[call.id], call.changes)[k]
                 /\ Returns(t, call.id, row)
    BY <1>5, <2>1
  <2>4. QED
    BY <1>1, <1>3, <1>4, <1>7, <2>2, <2>3, UpdateStep
<1>8. QED
  BY <1>6, <1>7

LEMMA MemoryUpdateStep ==
    ASSUME RInv, NEW t \in Tasks, NEW call \in Calls[t], MemoryUpdate(t, call)
    PROVE  TaskStep(t) /\ Abstract!Next
<1>1. /\ call.op = "update"
      /\ session[t] = None
      /\ UNCHANGED session
      /\ DOMAIN session = Tasks
  BY DEF MemoryUpdate, CallsNow, RInv
<1>2. CASE call.id \notin DOMAIN store
  <2>1. Raises(t, "not found") /\ UNCHANGED store
    BY <1>2 DEF MemoryUpdate
  <2>2. Undisturbed(t)'
    BY <1>1 DEF Undisturbed
  <2>3. TaskStep(t)
    BY <1>1, <2>1, <2>2, RaisesTells DEF TaskStep
  <2>4. Abstract!Update(t, call)
    BY <1>2, <2>1, RaisesTells DEF Abstract!Update
  <2>5. QED
    BY <1>1, <2>3, <2>4 DEF Abstract!Next
<1>3. CASE call.id \in DOMAIN store
  <2> DEFINE refused == /\ "feedback_message_id" \in DOMAIN call.changes
                        /\ RatingTaken(call.id, call.changes["feedback_message_id"])
  <2>1. IF refused THEN Raises(t, "duplicate") /\ UNCHANGED store
        ELSE /\ store' = [store EXCEPT ![call.id] = Assigned(@, call.changes)]
             /\ Returns(t, call.id, Assigned(store[call.id], call.changes))
    BY <1>3 DEF MemoryUpdate
  <2>2. QED
    BY <1>1, <1>3, <2>1, UpdateStep
<1>4. QED
  BY <1>2, <1>3

LEMMA StorageFailsStep ==
    ASSUME RInv, NEW t \in Tasks, StorageFails(t)
    PROVE  TaskStep(t) /\ Abstract!Next
<1>1. /\ Raises(t, "storage error")
      /\ session' = [session EXCEPT ![t] = None]
      /\ UNCHANGED store
      /\ DOMAIN session = Tasks
  BY DEF StorageFails, Fails, RInv
<1>2. Undisturbed(t)'
  BY <1>1 DEF Undisturbed
<1>3. TaskStep(t)
  BY <1>1, <1>2, RaisesTells DEF TaskStep
<1>4. Abstract!Fail(t)
  BY <1>1, RaisesTells DEF Abstract!Fail
<1>5. QED
  BY <1>3, <1>4 DEF Abstract!Next

-----------------------------------------------------------------------------

LEMMA RInvInit == Init => RInv
BY DEF Init, RInv, TableInv, WholeRows, HoldsItsMessage, UniqueIds, Undisturbed, Knows

LEMMA RInvStep ==
    ASSUME RInv, [Next]_vars
    PROVE  RInv' /\ [Abstract!Next]_Abstract!vars
<1>1. ASSUME NEW t \in Tasks, Commit(t) \/ StorageFails(t)
      PROVE  RInv' /\ Abstract!Next
  BY <1>1, CommitStep, StorageFailsStep, TaskStepKeepsRInv
<1>2. ASSUME NEW t \in Tasks, NEW call \in Calls[t],
             Create(t, call) \/ Load(t, call) \/ MemoryUpdate(t, call)
      PROVE  RInv' /\ (Abstract!Next \/ UNCHANGED Abstract!vars)
  BY <1>2, CreateStep, LoadStep, MemoryUpdateStep, TaskStepKeepsRInv
<1>3. CASE UNCHANGED vars
  <2>1. RInv'
    BY <1>3 DEF vars, RInv, TableInv, WholeRows, HoldsItsMessage, UniqueIds,
                Undisturbed, Knows
  <2>2. UNCHANGED Abstract!vars
    BY <1>3 DEF vars, Abstract!vars, Answer
  <2>3. QED
    BY <2>1, <2>2
<1>4. QED
  BY <1>1, <1>2, <1>3 DEF Next

-----------------------------------------------------------------------------
(* Types.  RInv is needed for them: a session holds an update call of its  *)
(* task, whose fields are assigned to a row that is whole.                 *)

\* Fields of their types make a row of a row.
LEMMA AssignedRow ==
    ASSUME NEW row \in Conversation, NEW t \in Tasks, NEW call \in Calls[t],
           call.op = "update"
    PROVE  Assigned(row, call.changes) \in Conversation
<1> DEFINE new == Assigned(row, call.changes)
<1>1. DOMAIN row = Columns
  BY DEF Conversation, Columns
<1>2. /\ DOMAIN call.changes \subseteq Columns \ Immutable
      /\ \A k \in DOMAIN call.changes : call.changes[k] \in FieldType[k]
  BY CallShape
<1>3. new = [k \in Columns |-> IF k \in DOMAIN call.changes THEN call.changes[k] ELSE row[k]]
  BY <1>1 DEF Assigned
<1>4. \A k \in Columns : new[k] = row[k] \/ (k \notin Immutable /\ new[k] \in FieldType[k])
  BY <1>2, <1>3
<1>5. new = [ phone_number |-> new["phone_number"],
              provider_message_id |-> new["provider_message_id"],
              created_at |-> new["created_at"],
              status |-> new["status"],
              llm_response |-> new["llm_response"],
              error_message |-> new["error_message"],
              delivery_status |-> new["delivery_status"],
              provider_response_id |-> new["provider_response_id"],
              feedback |-> new["feedback"],
              feedback_message_id |-> new["feedback_message_id"] ]
  BY <1>3 DEF Columns
<1> HIDE DEF new
<1>6. /\ new["phone_number"] \in Phones
      /\ new["provider_message_id"] \in MessageIds
      /\ new["created_at"] \in Nat
  BY <1>4 DEF Columns, Immutable, Conversation
<1>7. /\ new["status"] \in ConversationStatus
      /\ new["llm_response"] \in Requests \cup {None}
      /\ new["error_message"] \in {"llm", "sms", None}
      /\ new["delivery_status"] \in DeliveryStatus \cup {None}
  BY <1>4 DEF Columns, Conversation, FieldType
<1>8. /\ new["provider_response_id"] \in Requests \cup {None}
      /\ new["feedback"] \in Feedback
      /\ new["feedback_message_id"] \in MessageIds \cup {None}
  BY <1>4 DEF Columns, Conversation, FieldType
<1>9. QED
  BY <1>5, <1>6, <1>7, <1>8 DEF new, Conversation

\* A table of rows stays one.
LEMMA RowsStayTyped ==
    ASSUME RInv, SessionsTypeOK, NEW t \in Tasks, TaskStep(t)
    PROVE  /\ DOMAIN store' \subseteq Requests
           /\ \A c \in DOMAIN store' : store'[c] \in Conversation
<1> USE DEF SessionsTypeOK
<1>1. CASE UNCHANGED store
  BY <1>1
<1>2. ASSUME NEW call \in Calls[t], Inserts(t, call)
      PROVE  /\ DOMAIN store' \subseteq Requests
             /\ \A c \in DOMAIN store' : store'[c] \in Conversation
  <2>1. InsertEffect(call)
    BY <1>2, InsertIsNew DEF RInv
  <2>2. call.row \in Conversation
    BY <1>2, CallShape DEF Inserts
  <2>3. QED
    BY <2>1, <2>2 DEF InsertEffect
<1>3. ASSUME NEW call \in Calls[t], Assigns(t, call)
      PROVE  /\ DOMAIN store' \subseteq Requests
             /\ \A c \in DOMAIN store' : store'[c] \in Conversation
  <2>1. /\ call.op = "update" /\ call.id \in DOMAIN store
        /\ store' = [store EXCEPT ![call.id] = Assigned(store[call.id], call.changes)]
    BY <1>3 DEF Assigns
  <2>2. Assigned(store[call.id], call.changes) \in Conversation
    BY <2>1, AssignedRow
  <2>3. QED
    BY <2>1, <2>2
<1>4. QED
  BY <1>1, <1>2, <1>3 DEF TaskStep

\* A step of the sessions is a step of one task.
LEMMA StepsAreTaskSteps ==
    ASSUME RInv, Next
    PROVE  \E t \in Tasks : TaskStep(t)
BY CommitStep, StorageFailsStep, CreateStep, LoadStep, MemoryUpdateStep DEF Next

\* The rest of the type: what each task holds, and how much it has called.
Held ==
    /\ backend \in Backends
    /\ DOMAIN calls = Tasks
    /\ \A t \in Tasks :
           /\ session[t] # None => session[t].call \in Calls[t] /\ session[t].row \in Conversation
           /\ result[t].outcome = "stored" => result[t].row \in Conversation
           /\ calls[t] \in 0 .. MaxCalls[t]
    /\ errors \in 0 .. MaxErrors

TInv == RInv /\ SessionsTypeOK /\ Held

\* What a call returns, and what a session loads, is a row; calls are counted.
LEMMA HeldStays ==
    ASSUME TInv, [Next]_vars
    PROVE  Held'
<1> USE DEF TInv, RInv, SessionsTypeOK, Held
<1>1. ASSUME NEW t \in Tasks, NEW op, NEW call, CallsNow(t, op, call)
      PROVE  /\ DOMAIN calls' = Tasks
             /\ \A u \in Tasks : calls'[u] \in 0 .. MaxCalls[u]
  <2>1. calls[t] < MaxCalls[t] /\ calls' = [calls EXCEPT ![t] = calls[t] + 1]
    BY <1>1 DEF CallsNow
  <2>2. DOMAIN calls = Tasks /\ calls[t] \in Nat /\ MaxCalls[t] \in Nat
    BY SessionsAssumption
  <2>3. calls'[t] \in 0 .. MaxCalls[t] /\ \A u \in Tasks \ {t} : calls'[u] = calls[u]
    BY <2>1, <2>2
  <2>4. QED
    BY <2>1, <2>2, <2>3
<1>2. ASSUME NEW t \in Tasks, NEW c, NEW row \in Conversation, Returns(t, c, row)
      PROVE  \A u \in Tasks : result'[u].outcome = "stored" => result'[u].row \in Conversation
  BY <1>2 DEF Returns
<1>3. ASSUME NEW t \in Tasks, NEW error, error # "stored", Raises(t, error)
      PROVE  \A u \in Tasks : result'[u].outcome = "stored" => result'[u].row \in Conversation
  BY <1>3 DEF Raises
<1>4. ASSUME NEW t \in Tasks, NEW call \in Calls[t], Create(t, call) PROVE Held'
  <2>1. CallsNow(t, "create", call) /\ UNCHANGED <<backend, session, errors>>
    BY <1>4 DEF Create
  <2>2. call.row \in Conversation
    BY <2>1, CallShape DEF CallsNow
  <2>3. Raises(t, "duplicate") \/ Returns(t, call.id, call.row)
    BY <1>4 DEF Create
  <2>4. QED
    BY <1>1, <1>2, <1>3, <2>1, <2>2, <2>3
<1>5. ASSUME NEW t \in Tasks, NEW call \in Calls[t], Load(t, call) PROVE Held'
  <2>1. CallsNow(t, "update", call) /\ UNCHANGED <<backend, errors>>
    BY <1>5 DEF Load
  <2>2. Raises(t, "not found") \/ UNCHANGED result
    BY <1>5 DEF Load
  <2>3. \/ UNCHANGED session
        \/ /\ call.id \in DOMAIN store
           /\ session' = [session EXCEPT ![t] = [call |-> call, row |-> store[call.id]]]
    BY <1>5 DEF Load
  <2>4. \A u \in Tasks : session'[u] # None =>
            session'[u].call \in Calls[u] /\ session'[u].row \in Conversation
    BY <2>3
  <2>5. \A u \in Tasks : result'[u].outcome = "stored" => result'[u].row \in Conversation
    BY <1>3, <2>2
  <2>6. QED
    BY <1>1, <2>1, <2>4, <2>5
<1>6. ASSUME NEW t \in Tasks, NEW call \in Calls[t], MemoryUpdate(t, call) PROVE Held'
  <2>1. CallsNow(t, "update", call) /\ UNCHANGED <<backend, session, errors>>
    BY <1>6 DEF MemoryUpdate
  <2>2. call.op = "update"
    BY <2>1 DEF CallsNow
  <2>3. \/ Raises(t, "not found") \/ Raises(t, "duplicate")
        \/ /\ call.id \in DOMAIN store
           /\ Returns(t, call.id, Assigned(store[call.id], call.changes))
    BY <1>6 DEF MemoryUpdate
  <2>4. \A u \in Tasks : result'[u].outcome = "stored" => result'[u].row \in Conversation
    BY <1>2, <1>3, <2>2, <2>3, AssignedRow
  <2>5. QED
    BY <1>1, <2>1, <2>4
<1>7. ASSUME NEW t \in Tasks, Commit(t) PROVE Held'
  <2> DEFINE call == session[t].call
             loaded == session[t].row
  <2>1. /\ session[t] # None /\ session' = [session EXCEPT ![t] = None]
        /\ UNCHANGED <<backend, calls, errors>>
    BY <1>7 DEF Commit
  <2>2. call \in Calls[t] /\ call.op = "update" /\ loaded \in Conversation
    BY <2>1 DEF Undisturbed
  <2>3. Raises(t, "duplicate") \/ Returns(t, call.id, Assigned(loaded, call.changes))
    BY <1>7 DEF Commit
  <2>4. \A u \in Tasks : session'[u] # None =>
            session'[u].call \in Calls[u] /\ session'[u].row \in Conversation
    BY <2>1
  <2>5. \A u \in Tasks : result'[u].outcome = "stored" => result'[u].row \in Conversation
    BY <1>2, <1>3, <2>2, <2>3, AssignedRow
  <2>6. QED
    BY <2>1, <2>4, <2>5
<1>8. ASSUME NEW t \in Tasks, StorageFails(t) PROVE Held'
  <2>1. /\ Raises(t, "storage error") /\ errors < MaxErrors /\ errors' = errors + 1
        /\ session' = [session EXCEPT ![t] = None] /\ UNCHANGED backend
    BY <1>8 DEF StorageFails, Fails
  <2>2. UNCHANGED calls \/ \E call \in Calls[t] : CallsNow(t, call.op, call)
    BY <1>8 DEF StorageFails
  <2>3. DOMAIN calls' = Tasks /\ \A u \in Tasks : calls'[u] \in 0 .. MaxCalls[u]
    BY <1>1, <2>2
  <2>4. \A u \in Tasks : result'[u].outcome = "stored" => result'[u].row \in Conversation
    BY <1>3, <2>1
  <2>5. errors' \in 0 .. MaxErrors
    <3>1. errors \in Nat /\ MaxErrors \in Nat
      BY SessionsAssumption
    <3>2. errors < MaxErrors /\ errors' = errors + 1
      BY <2>1
    <3> HIDE DEF TInv, RInv, SessionsTypeOK, Held
    <3>3. QED
      BY <3>1, <3>2
  <2>6. QED
    BY <2>1, <2>3, <2>4, <2>5
<1>9. CASE UNCHANGED vars
  BY <1>9 DEF vars
<1>10. QED
  BY <1>4, <1>5, <1>6, <1>7, <1>8, <1>9 DEF Next

\* RInv and the types are inductive together.
LEMMA TypesStay ==
    ASSUME TInv, [Next]_vars
    PROVE  TInv'
<1>1. RInv' /\ Held'
  BY RInvStep, HeldStays DEF TInv
<1>2. /\ DOMAIN store' \subseteq Requests
      /\ \A c \in DOMAIN store' : store'[c] \in Conversation
  <2>1. CASE UNCHANGED vars
    BY <2>1 DEF vars, TInv, SessionsTypeOK
  <2>2. CASE Next
    BY <2>2, StepsAreTaskSteps, RowsStayTyped DEF TInv
  <2>3. QED
    BY <2>1, <2>2
<1>3. SessionsTypeOK'
  BY <1>1, <1>2 DEF Held, SessionsTypeOK
<1>4. QED
  BY <1>1, <1>3 DEF TInv

\* They hold at first.
LEMMA TypesStart == Init => TInv
<1>1. Init => SessionsTypeOK /\ Held
  BY SessionsAssumption DEF Init, SessionsTypeOK, Held
<1>2. QED
  BY <1>1, RInvInit DEF TInv

-----------------------------------------------------------------------------

(***************************************************************************)
(* The inductive invariant holds in every reachable state.                 *)
(***************************************************************************)
THEOREM RepositoryInvariance == Spec => []RInv
<1>1. RInv /\ [Next]_vars => RInv'
  BY RInvStep
<1>2. QED
  BY RInvInit, <1>1, PTL DEF Spec

(***************************************************************************)
(* Rows stay whole and typed, in the table, in the sessions and in what    *)
(* the callers get, whichever columns are written (SessionsTypeOK).        *)
(***************************************************************************)
THEOREM SessionsAreTyped == Spec => []SessionsTypeOK
<1>1. TInv /\ [Next]_vars => TInv'
  BY TypesStay
<1>2. TInv => SessionsTypeOK
  BY DEF TInv
<1>3. QED
  BY TypesStart, <1>1, <1>2, PTL DEF Spec

(***************************************************************************)
(* Neither message id is ever held twice: update and create under          *)
(* overlapping sessions, the two unique constraints.                       *)
(***************************************************************************)
THEOREM IdsStayUnique == Spec => []UniqueIds
<1>1. RInv => UniqueIds
  BY DEF RInv, TableInv
<1>2. QED
  BY RepositoryInvariance, <1>1, PTL

(***************************************************************************)
(* A task may go on working with the row a call returned, as process does: *)
(* the columns that nobody else updates are in the table as returned.      *)
(***************************************************************************)
THEOREM ReturnedRowsStayTrue == Spec => []WriterKnowsItsColumns
<1>1. RInv => WriterKnowsItsColumns
  BY DEF RInv, Knows, WriterKnowsItsColumns
<1>2. QED
  BY RepositoryInvariance, <1>1, PTL

(***************************************************************************)
(* Both repositories implement the atomic table: although the SQL update   *)
(* loads, is overtaken, and then flushes some columns only.                *)
(***************************************************************************)
THEOREM RepositoryRefines == Spec => ImplementsAtomicTable
<1>1. Init => Abstract!Init
  BY DEF Init, Abstract!Init, Answer
<1>2. RInv /\ [Next]_vars => [Abstract!Next]_Abstract!vars
  BY RInvStep
<1>3. QED
  BY <1>1, <1>2, RepositoryInvariance, PTL DEF Spec, ImplementsAtomicTable, Abstract!Spec

-----------------------------------------------------------------------------
(* The listing, page after page, while the repository is being written. *)

\* A table of typed rows has an order.
LEMMA TableListable ==
    ASSUME NEW s, IsFiniteSet(DOMAIN s), DOMAIN s \subseteq Requests,
           \A c \in DOMAIN s : s[c] \in Conversation
    PROVE  Listable(s)
BY StoreAssumption DEF Listable, Conversation

\* A call adds one row at most, and no call touches what the order is made of.
LEMMA TableGrows ==
    ASSUME RInv, [Next]_vars, IsFiniteSet(DOMAIN store)
    PROVE  Grows(store, store') /\ IsFiniteSet(DOMAIN store')
<1>1. CASE UNCHANGED store
  BY <1>1 DEF Grows
<1>2. ASSUME NEW t \in Tasks, NEW call \in Calls[t], Inserts(t, call)
      PROVE  Grows(store, store') /\ IsFiniteSet(DOMAIN store')
  <2>1. InsertEffect(call)
    BY <1>2, InsertIsNew DEF RInv
  <2>2. IsFiniteSet(DOMAIN store \cup {call.id})
    BY FS_AddElement
  <2>3. QED
    BY <2>1, <2>2 DEF InsertEffect, Grows
<1>3. ASSUME NEW t \in Tasks, NEW call \in Calls[t], Assigns(t, call)
      PROVE  Grows(store, store') /\ IsFiniteSet(DOMAIN store')
  <2>1. AssignEffect(call)
    BY <1>3, AssignChangesOneRow DEF RInv
  <2>2. call.op = "update"
    BY <1>3 DEF Assigns
  <2>3. DOMAIN call.changes \subseteq Columns \ Immutable
    BY <2>2, CallShape
  <2>4. /\ store'[call.id]["phone_number"] = store[call.id]["phone_number"]
        /\ store'[call.id]["created_at"] = store[call.id]["created_at"]
    BY <2>1, <2>3 DEF AssignEffect, Columns, Immutable
  <2>5. QED
    BY <2>1, <2>4 DEF AssignEffect, Grows
<1>4. QED
  <2>1. CASE UNCHANGED vars
    BY <1>1, <2>1 DEF vars
  <2>2. CASE Next
    BY <1>1, <1>2, <1>3, <2>2, StepsAreTaskSteps DEF TaskStep
  <2>3. QED
    BY <2>1, <2>2

\* What has been asked for, and what has been seen, is of the number.
Asked ==
    /\ listing.limit \in Nat \ {0}
    /\ listing.offset \in Nat
    /\ listing.atStart \cup listing.seen \subseteq OfPhone(store, listing.phone)
    /\ listing.offset = 0 =>
           /\ listing.atStart = {} /\ listing.seen = {} /\ listing.repeated = {}
           /\ ~listing.over
    /\ listing \in [phone: {listing.phone}, limit: {listing.limit}, offset: {listing.offset},
                    atStart: {listing.atStart}, seen: {listing.seen},
                    repeated: {listing.repeated}, over: {listing.over}]

\* What the pages so far have passed, they have shown.
Passed ==
    \A c \in listing.atStart :
        listing.over \/ Rank(store, c) < listing.offset => c \in listing.seen

\* As long as no row has joined the list, nothing seen is ahead of the admin.
Ahead ==
    OfPhone(store, listing.phone) = listing.atStart =>
        /\ listing.repeated = {}
        /\ \A c \in listing.seen : Rank(store, c) < listing.offset

LInv == TInv /\ IsFiniteSet(DOMAIN store) /\ Asked /\ Passed /\ Ahead

\* Nothing has been asked for yet.
LEMMA ListingStarts == ListingInit => LInv
<1> SUFFICES ASSUME ListingInit PROVE LInv
  OBVIOUS
<1>1. TInv
  BY TypesStart DEF ListingInit
<1>2. DOMAIN store = {}
  BY DEF ListingInit, Init
<1>3. IsFiniteSet(DOMAIN store)
  BY <1>2, FS_EmptySet
<1>4. Asked /\ Passed /\ Ahead
  <2>1. /\ listing.limit \in PageSizes /\ listing.offset = 0
        /\ listing.atStart = {} /\ listing.seen = {} /\ listing.repeated = {}
        /\ listing.over = FALSE
    BY DEF ListingInit
  <2>2. listing \in [phone: {listing.phone}, limit: {listing.limit}, offset: {listing.offset},
                     atStart: {listing.atStart}, seen: {listing.seen},
                     repeated: {listing.repeated}, over: {listing.over}]
    BY DEF ListingInit
  <2>3. QED
    BY <2>1, <2>2, ListingAssumption DEF Asked, Passed, Ahead
<1>5. QED
  BY <1>1, <1>3, <1>4 DEF LInv

\* One page, of a table nobody writes to meanwhile.
LEMMA PageShows ==
    ASSUME LInv, NextPage
    PROVE  LInv'
<1> DEFINE phone == listing.phone
           limit == listing.limit
           offset == listing.offset
           list == OfPhone(store, phone)
           page == ListByPhone(store, phone, limit, offset)
<1>1. /\ limit \in Nat \ {0} /\ offset \in Nat /\ ~listing.over /\ UNCHANGED vars
      /\ listing'.phone = phone
      /\ listing'.limit = limit
      /\ listing'.offset = offset + limit
      /\ listing'.atStart = IF offset = 0 THEN list ELSE listing.atStart
      /\ listing'.seen = listing.seen \cup page
      /\ listing'.repeated = listing.repeated \cup (page \cap listing.seen)
      /\ listing'.over = (Cardinality(page) < limit)
      /\ listing' \in [phone: {listing'.phone}, limit: {listing'.limit},
                       offset: {listing'.offset}, atStart: {listing'.atStart},
                       seen: {listing'.seen}, repeated: {listing'.repeated},
                       over: {listing'.over}]
  BY DEF LInv, Asked, NextPage, ListConversations
<1>2. Listable(store)
  BY TableListable DEF LInv, TInv, SessionsTypeOK
<1>3. /\ \A c \in list : Rank(store, c) \in Nat
      /\ page = {c \in list : offset <= Rank(store, c) /\ Rank(store, c) < offset + limit}
      /\ Cardinality(page) < limit => \A c \in list : Rank(store, c) < offset + limit
  BY <1>1, <1>2, RankBound, PageSize DEF OfPhone, ListByPhone
<1>4. UNCHANGED store
  BY <1>1 DEF vars
<1> HIDE DEF page, list
<1>5. TInv' /\ IsFiniteSet(DOMAIN store')
  BY <1>1, <1>4, TypesStay DEF LInv
<1>6. listing'.atStart \subseteq list /\ list = OfPhone(store, phone)'
  BY <1>1, <1>4 DEF LInv, Asked, list
<1>7. Asked'
  BY <1>1, <1>3, <1>4, <1>6 DEF LInv, Asked, list
<1>8. Passed'
  <2> SUFFICES ASSUME NEW c \in listing'.atStart,
                      listing'.over \/ Rank(store, c) < offset + limit
               PROVE  c \in listing.seen \cup page
    BY <1>1, <1>4 DEF Passed
  <2>1. c \in list /\ Rank(store, c) \in Nat /\ Rank(store, c) < offset + limit
    BY <1>1, <1>3, <1>6
  <2>2. CASE offset <= Rank(store, c)
    BY <1>3, <2>1, <2>2
  <2>3. CASE Rank(store, c) < offset
    BY <1>1, <2>1, <2>3 DEF LInv, Passed
  <2>4. QED
    BY <1>1, <2>1, <2>2, <2>3
<1>9. Ahead'
  <2> SUFFICES ASSUME list = listing'.atStart
               PROVE  /\ listing'.repeated = {}
                      /\ \A c \in listing'.seen : Rank(store, c) < offset + limit
    BY <1>1, <1>4 DEF Ahead, list
  <2>1. /\ listing.repeated = {}
        /\ \A c \in listing.seen : c \in list /\ Rank(store, c) < offset
    BY <1>1 DEF LInv, Asked, Ahead, list
  <2>2. page \cap listing.seen = {}
    BY <1>1, <1>3, <2>1
  <2>3. QED
    BY <1>1, <1>3, <2>1, <2>2
<1>10. QED
  BY <1>5, <1>7, <1>8, <1>9 DEF LInv

\* Between two pages the list grows, and the admin is no further ahead in it.
LEMMA ListingWaits ==
    ASSUME LInv, [Next]_vars, UNCHANGED listing
    PROVE  LInv'
<1>1. TInv' /\ Grows(store, store') /\ IsFiniteSet(DOMAIN store')
  BY TypesStay, TableGrows DEF LInv, TInv
<1>2. Listable(store) /\ Listable(store')
  BY <1>1, TableListable DEF LInv, TInv, SessionsTypeOK
<1>3. OfPhone(store, listing.phone) \subseteq OfPhone(store', listing.phone)
  BY <1>1, ListsGrow
<1>4. \A c \in OfPhone(store, listing.phone) :
          /\ Rank(store, c) \in Nat /\ Rank(store', c) \in Nat
          /\ Rank(store, c) <= Rank(store', c)
          /\ OfPhone(store', listing.phone) = OfPhone(store, listing.phone) =>
                 Rank(store', c) = Rank(store, c)
  <2> SUFFICES ASSUME NEW c \in OfPhone(store, listing.phone)
               PROVE  /\ Rank(store, c) \in Nat /\ Rank(store', c) \in Nat
                      /\ Rank(store, c) <= Rank(store', c)
                      /\ OfPhone(store', listing.phone) = OfPhone(store, listing.phone) =>
                             Rank(store', c) = Rank(store, c)
    OBVIOUS
  <2>1. c \in DOMAIN store /\ c \in DOMAIN store' /\ store[c].phone_number = listing.phone
    BY <1>1 DEF OfPhone, Grows
  <2>2. Rank(store, c) \in Nat /\ Rank(store', c) \in Nat
    BY <1>2, <2>1, RankBound
  <2>3. QED
    BY <1>1, <1>2, <2>1, <2>2, RanksGrow
<1>5. Asked'
  BY <1>3 DEF LInv, Asked
<1>6. Passed'
  BY <1>4 DEF LInv, Asked, Passed
<1>7. Ahead'
  BY <1>3, <1>4 DEF LInv, Asked, Ahead
<1>8. QED
  BY <1>1, <1>5, <1>6, <1>7 DEF LInv

(***************************************************************************)
(* Reading page after page to the last shows every conversation there was  *)
(* at the first, and one twice only if a row was inserted: for every       *)
(* number, every page size, and whatever is written between two pages      *)
(* (PagesCoverTheList).                                                    *)
(***************************************************************************)
THEOREM PagesCover == ListingSpec => []PagesCoverTheList
<1>1. LInv /\ [ListingNext]_<<vars, listing>> => LInv'
  BY PageShows, ListingWaits DEF ListingNext
<1>2. LInv => PagesCoverTheList
  BY DEF LInv, Passed, Ahead, PagesCoverTheList
<1>3. QED
  BY ListingStarts, <1>1, <1>2, PTL DEF ListingSpec
=============================================================================
