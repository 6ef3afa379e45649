------------------------------ MODULE ReplyOnce ------------------------------
(***************************************************************************)
(* What the SMS service promises a user who texts a question, whatever the *)
(* carrier retries: the message is taken in at most once, it is answered   *)
(* or apologised for, and then at most one SMS goes out.                   *)
(***************************************************************************)
CONSTANTS
    Messages,  \* The ids of the inbound questions.
    Letters    \* The outgoing SMS, each an identity of its own.

VARIABLES
    taken,    \* The messages stored.
    verdict,  \* What became of each message.
    letters   \* letters[m]: the SMS sent in reply to message m.

vars == <<taken, verdict, letters>>

Init ==
    /\ taken = {}
    /\ verdict = [m \in Messages |-> "open"]
    /\ letters = [m \in Messages |-> {}]

Take(m) ==
    /\ m \notin taken
    /\ taken' = taken \cup {m}
    /\ UNCHANGED <<verdict, letters>>

Decide(m, outcome) ==
    /\ m \in taken
    /\ verdict[m] = "open"
    /\ verdict' = [verdict EXCEPT ![m] = outcome]
    /\ UNCHANGED <<taken, letters>>

Reply(m) ==
    /\ verdict[m] # "open"
    /\ letters[m] = {}
    /\ \E letter \in Letters : letters' = [letters EXCEPT ![m] = {letter}]
    /\ UNCHANGED <<taken, verdict>>

Next ==
    \E m \in Messages :
        \/ Take(m)
        \/ Decide(m, "answered") \/ Decide(m, "apologised")
        \/ Reply(m)

Spec == Init /\ [][Next]_vars
=============================================================================
