------------------------ MODULE GatewayRuntime_proofs -----------------------
(***************************************************************************)
(* The gateway's circuit, for any number of concurrent requests, any       *)
(* threshold and any window:                                               *)
(*   Typing          the state stays in its type;                          *)
(*   NothingAdmitted no external call is begun while the circuit is open;  *)
(*   Prolongation    only calls already in flight can prolong an outage;   *)
(*   Refinement      the circuit implements the abstract breaker.          *)
(* TypeOK is inductive; each of the two invariants is inductive relative   *)
(* to it.                                                                  *)
(***************************************************************************)
EXTENDS GatewayRuntime, FiniteSetTheorems, TLAPS

(* One request's stage decides whether it is in flight. *)
LEMMA InFlightStep ==
  ASSUME TypeOK, NEW r \in Requests, NEW s,
         stage' = [stage EXCEPT ![r] = s]
  PROVE  InFlight' = IF s = "external" THEN InFlight \cup {r} ELSE InFlight \ {r}
BY DEF TypeOK, InFlight

LEMMA Leaves ==
  ASSUME TypeOK, NEW r \in Requests,
         \/ stage' = [stage EXCEPT ![r] = "idle"]
         \/ stage' = [stage EXCEPT ![r] = "local"]
  PROVE  InFlight' = InFlight \ {r}
<1>1. CASE stage' = [stage EXCEPT ![r] = "idle"]
  BY <1>1 DEF TypeOK, InFlight
<1>2. CASE stage' = [stage EXCEPT ![r] = "local"]
  BY <1>2 DEF TypeOK, InFlight
<1> QED BY <1>1, <1>2

(* What the two providers may say is a set of traits. *)
LEMMA TextsAreTraits == ProviderTexts \subseteq SUBSET Traits
BY RuntimeAssumption DEF Texts

(* Every step of a request is one of the named steps. *)
LEMMA NextCases ==
  ASSUME Next
  PROVE  \/ \E r \in Requests : Start(r)
         \/ \E r \in Requests, text \in ProviderTexts : ExternalAnswered(r, text)
         \/ \E r \in Requests, text \in ProviderTexts : LocalAnswered(r, text)
         \/ \E r \in Requests : ExternalFailed(r)
         \/ \E r \in Requests : ExternalErrorPanics(r)
         \/ \E r \in Requests : LocalFailed(r)
         \/ \E r \in Requests : ClientGone(r)
         \/ Tick
BY RuntimeAssumption DEF Next, generate, generate_stream, Serve

(* Recording a failure keeps the circuit in its type. *)
LEMMA FailureTyped ==
  ASSUME TypeOK, NEW r \in Requests, mark_external_failure(r)
  PROVE  /\ consecutive_failures' \in 0 .. Threshold - 1
         /\ open_for' \in NoWindow .. OpenSecs
         /\ late' \in Nat
         /\ predates' \in SUBSET Requests
BY RuntimeAssumption DEF TypeOK, mark_external_failure, NoWindow, Blocked, InFlight

-----------------------------------------------------------------------------
(* Type correctness: in particular the count of failures always stays below
   the threshold, so the next failure that reaches it is the one that trips. *)
THEOREM Typing == Spec => []TypeOK
<1>1. Init => TypeOK
  BY RuntimeAssumption
  DEF Init, TypeOK, NoWindow, NoReply, Replies, Routes, Reasons
<1>2. TypeOK /\ [Next]_vars => TypeOK'
  <2> SUFFICES ASSUME TypeOK, [Next]_vars PROVE TypeOK'
    OBVIOUS
  <2> USE RuntimeAssumption, TextsAreTraits
  <2>1. ASSUME NEW r \in Requests, Start(r) PROVE TypeOK'
    BY <2>1 DEF TypeOK, Start, Send, ClearExpired, circuit, NoWindow, Reasons
  <2>2. ASSUME NEW r \in Requests, NEW text \in ProviderTexts, ExternalAnswered(r, text)
        PROVE  TypeOK'
    <3>1. CASE Passed(text, r \in ExpectJson)
      <4>1. /\ mark_external_success
            /\ stage' = [stage EXCEPT ![r] = "idle"]
            /\ reason' = [reason EXCEPT ![r] = "disabled"]
        BY <2>2, <3>1 DEF ExternalAnswered, Return
      <4>2. PICK json \in BOOLEAN, route \in Routes :
              reply' = [provider |-> "external", route |-> route, text |-> text, json |-> json]
        <5> DEFINE route == IF r \in Streaming THEN "external_direct_buffered_stream"
                            ELSE "external_direct"
        <5>1. route \in Routes
          BY DEF Routes
        <5>2. (r \in ExpectJson) \in BOOLEAN
          OBVIOUS
        <5>3. reply' = [provider |-> "external", route |-> route, text |-> text,
                        json |-> r \in ExpectJson]
          BY <2>2, <3>1, Zenon DEF ExternalAnswered, Return
        <5> QED BY <5>1, <5>2, <5>3, Zenon
      <4>3. reply' \in Replies
        BY <4>2 DEF Replies
      <4> QED BY <4>1, <4>3 DEF TypeOK, mark_external_success, NoWindow, Reasons
    <3>2. CASE ~Passed(text, r \in ExpectJson)
      <4>1. mark_external_failure(r) /\ Send(r, "local", "critic_reject")
        BY <2>2, <3>2 DEF ExternalAnswered
      <4> QED BY <4>1, FailureTyped DEF TypeOK, Send, Reasons
    <3> QED BY <3>1, <3>2
  <2>3. ASSUME NEW r \in Requests, NEW text \in ProviderTexts, LocalAnswered(r, text)
        PROVE  TypeOK'
    BY <2>3 DEF TypeOK, LocalAnswered, Return, circuit, Reasons, Replies, Routes, LocalRoute
  <2>4. ASSUME NEW r \in Requests, ExternalFailed(r) PROVE TypeOK'
    BY <2>4, FailureTyped DEF TypeOK, ExternalFailed, Send, Reasons
  <2>5. ASSUME NEW r \in Requests, ExternalErrorPanics(r) PROVE TypeOK'
    BY <2>5 DEF TypeOK, ExternalErrorPanics, Return, circuit, NoReply, Reasons, Replies, Routes
  <2>6. ASSUME NEW r \in Requests, LocalFailed(r) PROVE TypeOK'
    BY <2>6 DEF TypeOK, LocalFailed, Return, circuit, NoReply, Reasons, Replies, Routes
  <2>7. ASSUME NEW r \in Requests, ClientGone(r) PROVE TypeOK'
    BY <2>7 DEF TypeOK, ClientGone, Return, circuit, NoReply, Reasons, Replies, Routes
  <2>8. CASE Tick
    BY <2>8 DEF TypeOK, Tick, NoWindow
  <2>9. CASE UNCHANGED vars
    BY <2>9 DEF TypeOK, vars
  <2> QED BY <2>1, <2>2, <2>3, <2>4, <2>5, <2>6, <2>7, <2>8, <2>9, NextCases
<1> QED BY <1>1, <1>2, PTL DEF Spec

-----------------------------------------------------------------------------
(* While the circuit is open every external call in flight was begun before
   it tripped: the check in Start and the window it reads cannot come apart. *)
THEOREM NothingAdmitted == Spec => []OpenAdmitsNothing
<1>1. Init => OpenAdmitsNothing
  BY DEF Init, OpenAdmitsNothing, NoWindow
<1>2. TypeOK /\ OpenAdmitsNothing /\ [Next]_vars => OpenAdmitsNothing'
  <2> SUFFICES ASSUME TypeOK, OpenAdmitsNothing, [Next]_vars PROVE OpenAdmitsNothing'
    OBVIOUS
  <2> USE DEF OpenAdmitsNothing
  <2>0. ASSUME NEW r \in Requests, NEW why, mark_external_failure(r), Send(r, "local", why)
        PROVE  OpenAdmitsNothing'
    <3>1. InFlight' = InFlight \ {r}
      BY <2>0, Leaves DEF Send
    <3> QED BY <2>0, <3>1, RuntimeAssumption DEF mark_external_failure, TypeOK
  <2>1. ASSUME NEW r \in Requests, NEW what, Return(r, what), UNCHANGED circuit
        PROVE  OpenAdmitsNothing'
    <3>1. InFlight' = InFlight \ {r}
      BY <2>1, Leaves DEF Return
    <3> QED BY <2>1, <3>1 DEF circuit
  <2>2. ASSUME NEW r \in Requests, Start(r) PROVE OpenAdmitsNothing'
    <3>1. CASE Send(r, "local", "disabled") \/ Send(r, "local", "circuit_open")
      <4>1. InFlight' = InFlight \ {r}
        BY <3>1, Leaves DEF Send
      <4>2. open_for' > 0 => UNCHANGED circuit
        BY <2>2 DEF Start, ClearExpired, Blocked, NoWindow, TypeOK
      <4> QED BY <4>1, <4>2 DEF circuit
    <3>2. CASE ~Blocked /\ ClearExpired
      BY <3>2 DEF Blocked, ClearExpired, NoWindow, TypeOK
    <3> QED BY <2>2, <3>1, <3>2 DEF Start
  <2>3. ASSUME NEW r \in Requests, NEW text \in ProviderTexts, ExternalAnswered(r, text)
        PROVE  OpenAdmitsNothing'
    <3>1. CASE mark_external_success
      BY <3>1 DEF mark_external_success, NoWindow
    <3> QED BY <2>0, <2>3, <3>1 DEF ExternalAnswered
  <2>4. ASSUME NEW r \in Requests, ExternalFailed(r) PROVE OpenAdmitsNothing'
    BY <2>0, <2>4 DEF ExternalFailed
  <2>5. ASSUME NEW r \in Requests, NEW text \in ProviderTexts, LocalAnswered(r, text)
        PROVE  OpenAdmitsNothing'
    BY <2>1, <2>5 DEF LocalAnswered
  <2>6. ASSUME NEW r \in Requests,
               ExternalErrorPanics(r) \/ LocalFailed(r) \/ ClientGone(r)
        PROVE  OpenAdmitsNothing'
    BY <2>1, <2>6 DEF ExternalErrorPanics, LocalFailed, ClientGone
  <2>7. CASE Tick
    BY <2>7 DEF Tick, TypeOK, NoWindow, InFlight
  <2>8. CASE UNCHANGED vars
    BY <2>8 DEF vars, InFlight
  <2> QED BY <2>2, <2>3, <2>4, <2>5, <2>6, <2>7, <2>8, NextCases
<1> QED BY <1>1, <1>2, Typing, PTL DEF Spec

-----------------------------------------------------------------------------
LEMMA InFlightFinite ==
  ASSUME TypeOK
  PROVE  /\ IsFiniteSet(InFlight)
         /\ Cardinality(InFlight) \in Nat
         /\ Cardinality(InFlight) <= Cardinality(Requests)
         /\ Cardinality(Requests) \in Nat
<1>1. InFlight \subseteq Requests /\ IsFiniteSet(Requests)
  BY RuntimeAssumption DEF InFlight
<1> QED BY <1>1, FS_Subset, FS_CardinalityType

(* A call that leaves the set makes it smaller by one, any other not at all. *)
LEMMA LeavingCounts ==
  ASSUME TypeOK, NEW r \in Requests, InFlight' = InFlight \ {r}
  PROVE  Cardinality(InFlight') =
           IF r \in InFlight THEN Cardinality(InFlight) - 1 ELSE Cardinality(InFlight)
BY InFlightFinite, FS_RemoveElement

LEMMA LeavingShrinks ==
  ASSUME TypeOK, NEW r \in Requests, InFlight' = InFlight \ {r}
  PROVE  /\ Cardinality(InFlight') \in Nat
         /\ Cardinality(InFlight') <= Cardinality(InFlight)
<1>1. CASE r \in InFlight
  <2>1. Cardinality(InFlight) # 0
    BY <1>1, InFlightFinite, FS_EmptySet
  <2> QED BY <1>1, <2>1, LeavingCounts, InFlightFinite
<1>2. CASE r \notin InFlight
  BY <1>2, LeavingCounts, InFlightFinite
<1> QED BY <1>1, <1>2

(* The failures that can still land on an open window are bounded by the
   calls that were in flight when it tripped.  The call that trips it is no
   longer in flight, hence the strict bound. *)
THEOREM Prolongation == Spec => []ProlongationBounded
<1> DEFINE N == Cardinality(Requests)
           K == Cardinality(InFlight)
<1>1. Init => ProlongationBounded
  BY DEF Init, ProlongationBounded, NoWindow
<1>2. TypeOK /\ ProlongationBounded /\ [Next]_vars => ProlongationBounded'
  <2> SUFFICES ASSUME TypeOK, ProlongationBounded, [Next]_vars PROVE ProlongationBounded'
    OBVIOUS
  <2> USE DEF ProlongationBounded
  <2>a. late \in Nat /\ K \in Nat /\ N \in Nat /\ K <= N
    BY InFlightFinite DEF TypeOK
  <2>0. ASSUME NEW r \in Requests, NEW why, mark_external_failure(r), Send(r, "local", why),
               stage[r] = "external"
        PROVE  ProlongationBounded'
    <3>1. InFlight' = InFlight \ {r} /\ r \in InFlight
      BY <2>0, Leaves DEF Send, InFlight
    <3>2. K' = K - 1
      BY <3>1, LeavingCounts
    <3>3. CASE Blocked
      <4>1. late' = late + 1
        BY <2>0, <3>3 DEF mark_external_failure
      <4>2. late + K < N
        BY <3>3 DEF Blocked
      <4> QED BY <4>1, <4>2, <3>2, <2>a
    <3>4. CASE ~Blocked
      <4>1. late' = 0
        BY <2>0, <3>4 DEF mark_external_failure
      <4> QED BY <4>1, <3>2, <2>a
    <3> QED BY <3>3, <3>4
  <2>1. ASSUME NEW r \in Requests, NEW what, Return(r, what), UNCHANGED circuit
        PROVE  ProlongationBounded'
    <3>1. InFlight' = InFlight \ {r}
      BY <2>1, Leaves DEF Return
    <3>2. K' <= K /\ K' \in Nat
      BY <3>1, LeavingShrinks
    <3> QED BY <2>1, <3>2, <2>a DEF circuit
  <2>2. ASSUME NEW r \in Requests, Start(r) PROVE ProlongationBounded'
    <3>1. CASE Send(r, "local", "disabled") \/ Send(r, "local", "circuit_open")
      <4>1. InFlight' = InFlight \ {r}
        BY <3>1, Leaves DEF Send
      <4>2. K' <= K /\ K' \in Nat
        BY <4>1, LeavingShrinks
      <4>3. open_for' > 0 => UNCHANGED circuit
        BY <2>2 DEF Start, ClearExpired, Blocked, NoWindow, TypeOK
      <4> QED BY <4>2, <4>3, <2>a DEF circuit
    <3>2. CASE ~Blocked /\ ClearExpired
      BY <3>2 DEF Blocked, ClearExpired, NoWindow, TypeOK
    <3> QED BY <2>2, <3>1, <3>2 DEF Start
  <2>3. ASSUME NEW r \in Requests, NEW text \in ProviderTexts, ExternalAnswered(r, text)
        PROVE  ProlongationBounded'
    <3>1. CASE mark_external_success
      BY <3>1 DEF mark_external_success, NoWindow
    <3> QED BY <2>0, <2>3, <3>1 DEF ExternalAnswered
  <2>4. ASSUME NEW r \in Requests, ExternalFailed(r) PROVE ProlongationBounded'
    BY <2>0, <2>4 DEF ExternalFailed
  <2>5. ASSUME NEW r \in Requests, NEW text \in ProviderTexts, LocalAnswered(r, text)
        PROVE  ProlongationBounded'
    BY <2>1, <2>5 DEF LocalAnswered
  <2>6. ASSUME NEW r \in Requests,
               ExternalErrorPanics(r) \/ LocalFailed(r) \/ ClientGone(r)
        PROVE  ProlongationBounded'
    BY <2>1, <2>6 DEF ExternalErrorPanics, LocalFailed, ClientGone
  <2>7. CASE Tick
    <3>1. InFlight' = InFlight
      BY <2>7 DEF Tick, InFlight
    <3> QED BY <2>7, <3>1 DEF Tick, TypeOK, NoWindow
  <2>8. CASE UNCHANGED vars
    <3>1. InFlight' = InFlight
      BY <2>8 DEF vars, InFlight
    <3> QED BY <2>8, <3>1 DEF vars
  <2> QED BY <2>2, <2>3, <2>4, <2>5, <2>6, <2>7, <2>8, NextCases
<1> QED BY <1>1, <1>2, Typing, PTL DEF Spec

-----------------------------------------------------------------------------
(* Every step of the runtime is a step of the abstract breaker or leaves the
   breaker as it was. *)
THEOREM Refinement == Spec => IsBreaker
<1> DEFINE st == IF open_for > 0 THEN "open" ELSE IF open_for = 0 THEN "expired" ELSE "closed"
<1>1. Init => breaker!Init
  BY DEF Init, breaker!Init, NoWindow, InFlight
<1>2. TypeOK /\ [Next]_vars => [breaker!Next]_(breaker!vars)
  <2> SUFFICES ASSUME TypeOK, [Next]_vars PROVE [breaker!Next]_(breaker!vars)
    OBVIOUS
  <2>0. ASSUME NEW r \in Requests, NEW why, mark_external_failure(r), Send(r, "local", why),
               stage[r] = "external"
        PROVE  breaker!Failure(r)
    <3>1. InFlight' = InFlight \ {r} /\ r \in InFlight
      BY <2>0, Leaves DEF Send, InFlight
    <3>2. CASE consecutive_failures + 1 >= Threshold
      BY <2>0, <3>1, <3>2, RuntimeAssumption
      DEF breaker!Failure, mark_external_failure, TypeOK
    <3>3. CASE ~(consecutive_failures + 1 >= Threshold)
      BY <2>0, <3>1, <3>3, RuntimeAssumption
      DEF breaker!Failure, mark_external_failure, TypeOK
    <3> QED BY <3>2, <3>3
  <2>1. ASSUME NEW r \in Requests, NEW what, Return(r, what), UNCHANGED circuit
        PROVE  breaker!Vanish(r) \/ UNCHANGED breaker!vars
    <3>1. InFlight' = InFlight \ {r}
      BY <2>1, Leaves DEF Return
    <3> QED BY <2>1, <3>1 DEF circuit, breaker!Vanish, breaker!vars
  <2>2. ASSUME NEW r \in Requests, Start(r)
        PROVE  breaker!Admit(r) \/ UNCHANGED breaker!vars
    <3>0. r \notin InFlight
      BY <2>2 DEF Start, InFlight
    <3>1. CASE UNCHANGED circuit /\ (Send(r, "local", "disabled") \/ Send(r, "local", "circuit_open"))
      <4>1. InFlight' = InFlight
        BY <3>0, <3>1, Leaves DEF Send
      <4> QED BY <3>1, <4>1 DEF circuit, breaker!vars
    <3>2. CASE ~Blocked /\ ClearExpired /\ Send(r, "external", "disabled")
      <4>1. InFlight' = InFlight \cup {r}
        BY <3>2, InFlightStep DEF Send
      <4> QED BY <3>0, <3>2, <4>1
              DEF Blocked, ClearExpired, NoWindow, TypeOK, breaker!Admit, breaker!Readmit
    <3> QED BY <2>2, <3>1, <3>2 DEF Start
  <2>3. ASSUME NEW r \in Requests, NEW text \in ProviderTexts, ExternalAnswered(r, text)
        PROVE  breaker!Success(r) \/ breaker!Failure(r)
    <3>1. CASE Passed(text, r \in ExpectJson)
      <4>1. mark_external_success /\ stage' = [stage EXCEPT ![r] = "idle"]
        BY <2>3, <3>1 DEF ExternalAnswered, Return
      <4>2. InFlight' = InFlight \ {r} /\ r \in InFlight
        BY <2>3, <4>1, Leaves DEF ExternalAnswered, InFlight
      <4> QED BY <4>1, <4>2 DEF mark_external_success, NoWindow, breaker!Success
    <3>2. CASE ~Passed(text, r \in ExpectJson)
      BY <2>0, <2>3, <3>2 DEF ExternalAnswered
    <3> QED BY <3>1, <3>2
  <2>4. ASSUME NEW r \in Requests, ExternalFailed(r) PROVE breaker!Failure(r)
    BY <2>0, <2>4 DEF ExternalFailed
  <2>5. ASSUME NEW r \in Requests, NEW text \in ProviderTexts, LocalAnswered(r, text)
        PROVE  breaker!Vanish(r) \/ UNCHANGED breaker!vars
    BY <2>1, <2>5 DEF LocalAnswered
  <2>6. ASSUME NEW r \in Requests,
               ExternalErrorPanics(r) \/ LocalFailed(r) \/ ClientGone(r)
        PROVE  breaker!Vanish(r) \/ UNCHANGED breaker!vars
    BY <2>1, <2>6 DEF ExternalErrorPanics, LocalFailed, ClientGone
  <2>7. CASE Tick
    <3>1. InFlight' = InFlight
      BY <2>7 DEF Tick, InFlight
    <3> QED BY <2>7, <3>1 DEF Tick, TypeOK, NoWindow, breaker!Next, breaker!Expire, breaker!vars
  <2>8. CASE UNCHANGED vars
    BY <2>8 DEF vars, InFlight, breaker!vars
  <2> QED BY <2>2, <2>3, <2>4, <2>5, <2>6, <2>7, <2>8, NextCases DEF breaker!Next
<1> QED BY <1>1, <1>2, Typing, PTL DEF Spec, IsBreaker, breaker!Spec
=============================================================================
