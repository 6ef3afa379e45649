---------------------------- MODULE GenerationProofs ----------------------------
(***************************************************************************)
(* The safety of one generation, for every deadline, every number of       *)
(* retries and every Retry-After.                                          *)
(***************************************************************************)
EXTENDS Generation, TLAPS

(***************************************************************************)
(* A back-off is followed by a request, so a retry is left in it.          *)
(***************************************************************************)
Attempts ==
    /\ attempt \in 1 .. MaxRetries + 1
    /\ phase \in {"request", "backoff", "over"}
    /\ phase = "backoff" => attempt <= MaxRetries

GInv == Attempts /\ NothingLeftRunning

\* The first request is the only one.
LEMMA GenerationStarts == Init => GInv
  BY GenerationAssumption DEF Init, GInv, Attempts, NothingLeftRunning

\* A request that is over leaves no connection behind; a retry opens the next.
LEMMA GenerationSteps == GInv /\ [Next]_vars => GInv'
<1> SUFFICES ASSUME GInv, [Next]_vars PROVE GInv'
  OBVIOUS
<1> USE GenerationAssumption DEF GInv, Attempts, NothingLeftRunning
<1>1. CASE BytesArrive
  BY <1>1 DEF BytesArrive
<1>2. CASE Completes
  BY <1>2 DEF Completes, Over
<1>3. CASE Refused
  BY <1>3 DEF Refused, Over
<1>4. CASE AttemptFails
  <2>1. phase = "request" /\ open = {attempt} /\ attempt' = attempt /\ open' = {}
    BY <1>4 DEF AttemptFails
  <2>2. CASE NoRetryLeft
    <3>1. phase' = "over"
      BY <1>4, <2>2 DEF AttemptFails, Over
    <3> QED
      BY <2>1, <2>2, <3>1 DEF NoRetryLeft
  <2>3. CASE ~NoRetryLeft
    <3>1. phase' = "backoff"
      BY <1>4, <2>3 DEF AttemptFails
    <3> QED
      BY <2>1, <2>3, <3>1 DEF NoRetryLeft
  <2> QED
    BY <2>2, <2>3
<1>5. CASE Retry
  BY <1>5 DEF Retry
<1>6. CASE DeadlinePasses
  BY <1>6 DEF DeadlinePasses, Over
<1>7. CASE Tick
  BY <1>7 DEF Tick
<1>8. CASE UNCHANGED vars
  BY <1>8 DEF vars
<1> QED
  BY <1>1, <1>2, <1>3, <1>4, <1>5, <1>6, <1>7, <1>8 DEF Next

\* GInv holds in every reachable state.
THEOREM GenerationInvariance == Spec => []GInv
<1>1. Init => GInv
  BY GenerationStarts
<1>2. GInv /\ [Next]_vars => GInv'
  BY GenerationSteps
<1> QED
  BY <1>1, <1>2, PTL DEF Spec

(***************************************************************************)
(* Types.  GInv is needed for them: a retry is one of those configured,    *)
(* because no back-off is entered without one left.                        *)
(***************************************************************************)

\* A wait is a number, and not a moment of the past.
LEMMA WaitsAreNumbers ==
    ASSUME attempt \in Nat \ {0}, NEW cause PROVE Waits(cause) \subseteq Nat
<1> DEFINE longest == <<1, 2, 4, 8, 16>>[Smaller(attempt, 5)]
<1>1. Smaller(attempt, 5) \in 1 .. 5
  BY DEF Smaller
<1>2. longest \in {1, 2, 4, 8, 16}
  BY <1>1
<1> HIDE DEF longest
<1>3. longest - longest \div 4 \in Nat
  BY <1>2
<1>4. (longest - longest \div 4) .. longest \subseteq Nat
  BY <1>2, <1>3
<1>5. BackOffs \subseteq Nat
  BY <1>4 DEF BackOffs, longest
<1> QED
  BY <1>5, GenerationAssumption DEF Waits

\* Time passes up to the deadline, and a connection is silent no longer than that.
LEMMA TypesHold == GInv /\ GenerationTypeOK /\ [Next]_vars => GenerationTypeOK'
<1> SUFFICES ASSUME GInv, GenerationTypeOK, [Next]_vars PROVE GenerationTypeOK'
  OBVIOUS
<1> USE GenerationAssumption DEF GenerationTypeOK
<1>1. CASE BytesArrive
  BY <1>1 DEF BytesArrive
<1>2. CASE Completes
  BY <1>2 DEF Completes, Over
<1>3. CASE Refused
  BY <1>3 DEF Refused, Over
<1>4. CASE AttemptFails
  <2>1. UNCHANGED <<now, attempt, silence>> /\ open' \subseteq open
    BY <1>4 DEF AttemptFails
  <2>2. PICK cause : \/ Over("exhausted") /\ UNCHANGED wake
                     \/ /\ phase' = "backoff" /\ UNCHANGED outcome
                        /\ wake' \in {now + s : s \in Waits(cause)}
    BY <1>4 DEF AttemptFails
  <2>3. wake' \in Nat
    BY <2>2, WaitsAreNumbers
  <2>4. phase' \in {"backoff", "over"} /\ outcome' \in {outcome, "exhausted"}
    BY <2>2 DEF Over
  <2> QED
    BY <2>1, <2>3, <2>4
<1>5. CASE Retry
  BY <1>5 DEF Retry, GInv, Attempts
<1>6. CASE DeadlinePasses
  BY <1>6 DEF DeadlinePasses, Over
<1>7. CASE Tick
  BY <1>7 DEF Tick
<1>8. CASE UNCHANGED vars
  BY <1>8 DEF vars
<1> QED
  BY <1>1, <1>2, <1>3, <1>4, <1>5, <1>6, <1>7, <1>8 DEF Next

(***************************************************************************)
(* Every variable has its type: no clock runs past the deadline, and no    *)
(* attempt is made beyond the retries configured (GenerationTypeOK).       *)
(***************************************************************************)
THEOREM GenerationIsTyped == Spec => []GenerationTypeOK
<1>1. Init => GenerationTypeOK
  BY GenerationAssumption DEF Init, GenerationTypeOK
<1> QED
  BY <1>1, TypesHold, GenerationInvariance, PTL DEF Spec

(***************************************************************************)
(* No request outlives the attempt it belongs to, whatever the server does *)
(* and whenever the deadline passes (NothingLeftRunning).                  *)
(***************************************************************************)
THEOREM NoRequestOutlivesItsAttempt == Spec => []NothingLeftRunning
<1>1. GInv => NothingLeftRunning
  BY DEF GInv
<1> QED
  BY <1>1, GenerationInvariance, PTL
=============================================================================
