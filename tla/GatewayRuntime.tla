--------------------------- MODULE GatewayRuntime ---------------------------
(***************************************************************************)
(* HttpInferenceRuntime of crates/eidolon-gateway/src/lib.rs: concurrent   *)
(* requests that share one circuit in front of the external provider, the  *)
(* output guard on what that provider says, and the local provider every   *)
(* request falls back to.                                                  *)
(*                                                                         *)
(* The circuit's mutex is held only inside external_circuit_block_reason   *)
(* and mark_external_*; the provider calls are awaited without it, so a    *)
(* request is a sequence of three steps that interleave with the others'.  *)
(* Time is the remaining length of the open window, so no clock needs a    *)
(* bound.                                                                  *)
(***************************************************************************)
EXTENDS OutputCritic

CONSTANTS
  Requests,         \* request slots: how many requests run at once
  Streaming,        \* those with "stream": true, served by generate_stream
  ExpectJson,       \* those whose messages ask for JSON
  Threshold,        \* external_circuit_failure_threshold
  OpenSecs,         \* external_circuit_open_secs
  ExternalEnabled,  \* external_enabled
  ProviderTexts     \* the texts the two providers may answer with

ASSUME RuntimeAssumption ==
  /\ IsFiniteSet(Requests)
  /\ Streaming \subseteq Requests
  /\ ExpectJson \subseteq Requests
  /\ Threshold \in Nat \ {0}
  /\ OpenSecs \in Nat \ {0}
  /\ ExternalEnabled \in BOOLEAN
  /\ ProviderTexts \subseteq (Texts \ {{"empty", "not_json"}})

Reasons == {"circuit_open", "critic_reject", "external_error", "disabled"}

NoWindow == -1                  \* open_until = None
NoReply  == [provider |-> "none", route |-> "none", text |-> {}, json |-> FALSE]

VARIABLES
  stage,     \* per request: "idle", or which provider it awaits
  reason,    \* per request: why it was sent to the local provider
  reply,     \* the InferenceOutcome returned last, with its expect_json
  consecutive_failures,
  open_for,  \* time left of the open window: 0 = passed, NoWindow = None
  late,      \* history: verdicts of failure that hit the window while open
  predates   \* history: requests whose external call began before the trip

vars == <<stage, reason, reply, consecutive_failures, open_for, late, predates>>
circuit == <<consecutive_failures, open_for, late, predates>>

Routes == {"none", "failed", "external_direct", "external_direct_buffered_stream",
           "external_circuit_open_local_fallback", "external_with_local_fallback",
           "external_error_local_fallback", "local_only"}
Replies == [provider : {"none", "external", "local"}, route : Routes,
            text : SUBSET Traits, json : BOOLEAN]

TypeOK ==
  /\ stage \in [Requests -> {"idle", "external", "local"}]
  /\ reason \in [Requests -> Reasons]
  /\ reply \in Replies
  /\ consecutive_failures \in 0 .. Threshold - 1
  /\ open_for \in NoWindow .. OpenSecs
  /\ late \in Nat
  /\ predates \in SUBSET Requests

InFlight == {r \in Requests : stage[r] = "external"}

Init ==
  /\ stage = [r \in Requests |-> "idle"]
  /\ reason = [r \in Requests |-> "disabled"]
  /\ reply = NoReply
  /\ consecutive_failures = 0
  /\ open_for = NoWindow
  /\ late = 0
  /\ predates = {}

-----------------------------------------------------------------------------
(* The three critical sections on the circuit. *)

(* mutant: the last second of the window is already treated as passed *)
BlockedButLastSecond == open_for > 1

Blocked == open_for > 0         \* open_until > now

(* mutant: every admitted call starts a new count *)
ClearAlways == open_for' = NoWindow /\ consecutive_failures' = 0

(* external_circuit_block_reason finding no open window: a window that has
   passed is cleared together with the count *)
ClearExpired ==
  IF open_for = 0
    THEN open_for' = NoWindow /\ consecutive_failures' = 0
    ELSE UNCHANGED <<open_for, consecutive_failures>>

(* A success clears the circuit whatever its state, an open window included. *)
mark_external_success ==
  /\ consecutive_failures' = 0
  /\ open_for' = NoWindow
  /\ late' = 0
  /\ predates' = {}

mark_external_failure(r) ==
  IF consecutive_failures + 1 >= Threshold
    THEN /\ consecutive_failures' = 0
         /\ open_for' = OpenSecs
         /\ late' = IF Blocked THEN late + 1 ELSE 0
         /\ predates' = InFlight \ {r}
    ELSE /\ consecutive_failures' = consecutive_failures + 1
         /\ late' = IF Blocked THEN late + 1 ELSE 0
         /\ UNCHANGED <<open_for, predates>>

-----------------------------------------------------------------------------
(* The requests. *)

Send(r, provider, why) ==
  /\ stage' = [stage EXCEPT ![r] = provider]
  /\ reason' = [reason EXCEPT ![r] = why]
  /\ UNCHANGED reply

Return(r, what) ==
  /\ stage' = [stage EXCEPT ![r] = "idle"]
  /\ reason' = [reason EXCEPT ![r] = "disabled"]
  /\ reply' = what

(* mutant: a request turned away by the circuit starts its window again *)
StartRestartingWindow(r) ==
  /\ stage[r] = "idle"
  /\ \/ /\ Blocked
        /\ Send(r, "local", "circuit_open")
        /\ open_for' = OpenSecs
        /\ UNCHANGED <<consecutive_failures, predates>>
     \/ /\ ~Blocked
        /\ ClearExpired
        /\ Send(r, "external", "disabled")
        /\ predates' = predates \ {r}
  /\ UNCHANGED late

(* A request arrives and asks the circuit; blocked, or with no external
   provider configured, it goes to the local one. *)
Start(r) ==
  /\ stage[r] = "idle"
  /\ \/ /\ ~ExternalEnabled
        /\ Send(r, "local", "disabled")
        /\ UNCHANGED circuit
     \/ /\ ExternalEnabled /\ Blocked
        /\ Send(r, "local", "circuit_open")
        /\ UNCHANGED circuit
     \/ /\ ExternalEnabled /\ ~Blocked
        /\ ClearExpired
        /\ Send(r, "external", "disabled")
        /\ predates' = predates \ {r}
        /\ UNCHANGED late

(* The external provider answered; the guard decides. *)
ExternalAnswered(r, text) ==
  /\ stage[r] = "external"
  /\ IF Passed(text, r \in ExpectJson)
       THEN /\ mark_external_success
            /\ Return(r, [provider |-> "external",
                          route |-> IF r \in Streaming THEN "external_direct_buffered_stream"
                                    ELSE "external_direct",
                          text |-> text, json |-> r \in ExpectJson])
       ELSE /\ mark_external_failure(r)
            /\ Send(r, "local", "critic_reject")

(* mutant: a failed external call is tried again before going local *)
ExternalRetried(r) ==
  /\ stage[r] = "external"
  /\ mark_external_failure(r)
  /\ UNCHANGED <<stage, reason, reply>>

(* The external call failed: transport error, timeout, bad status, no content. *)
ExternalFailed(r) ==
  /\ stage[r] = "external"
  /\ mark_external_failure(r)
  /\ Send(r, "local", "external_error")

(* compact_reason cuts the error text at byte 180.  A body whose character
   lies across that byte makes truncate panic, and the argument is evaluated
   before mark_external_failure runs: the request dies with no verdict. *)
ExternalErrorPanics(r) ==
  /\ stage[r] = "external"
  /\ Return(r, NoReply)
  /\ UNCHANGED circuit

LocalRoute(why) ==
  CASE why = "circuit_open"   -> "external_circuit_open_local_fallback"
    [] why = "critic_reject"  -> "external_with_local_fallback"
    [] why = "external_error" -> "external_error_local_fallback"
    [] OTHER                  -> "local_only"

(* What the local provider says is returned as it is. *)
LocalAnswered(r, text) ==
  /\ stage[r] = "local"
  /\ Return(r, [provider |-> "local", route |-> LocalRoute(reason[r]),
                text |-> text, json |-> r \in ExpectJson])
  /\ UNCHANGED circuit

(* The local provider failed too (or its error text panicked): no answer. *)
LocalFailed(r) ==
  /\ stage[r] = "local"
  /\ Return(r, [NoReply EXCEPT !.route = "failed"])
  /\ UNCHANGED circuit

(* The client went away: the server drops the handler's future at its await,
   and whatever it still had to do to the circuit is not done. *)
ClientGone(r) ==
  /\ stage[r] # "idle"
  /\ Return(r, NoReply)
  /\ UNCHANGED circuit

Tick ==
  /\ open_for > 0
  /\ open_for' = open_for - 1
  /\ UNCHANGED <<stage, reason, reply, consecutive_failures, late, predates>>

-----------------------------------------------------------------------------
Serve(r) ==
  \/ Start(r)
  \/ \E text \in ProviderTexts : ExternalAnswered(r, text) \/ LocalAnswered(r, text)
  \/ ExternalFailed(r) \/ ExternalErrorPanics(r)
  \/ LocalFailed(r)

(* generate(): the answer comes back as one text *)
generate(r) == Serve(r)

(* generate_stream(): the external answer is still awaited and judged whole,
   only the local one is passed on as a stream *)
generate_stream(r) == Serve(r)

Next ==
  \/ \E r \in Requests \ Streaming : generate(r)
  \/ \E r \in Streaming : generate_stream(r)
  \/ \E r \in Requests : ClientGone(r)
  \/ Tick

(* Time passes.  Nothing else is assumed: providers may hang until their
   timeout and clients may send nothing. *)
Spec == Init /\ [][Next]_vars /\ WF_vars(Tick)

-----------------------------------------------------------------------------
(* Properties *)

(* While the circuit is open no external call is begun: every call still in
   flight was sent before the last trip. *)
OpenAdmitsNothing == open_for > 0 => InFlight \subseteq predates

(* Failures of calls already in flight can restart an open window, but only
   as many can land as calls were in flight when it tripped: an outage is
   never prolonged by traffic that arrives during it. *)
ProlongationBounded ==
  open_for > 0 => late + Cardinality(InFlight) < Cardinality(Requests)

(* However the late failures fall, an open window ends: the external
   provider is tried again without anyone resetting the circuit. *)
WindowEnds == open_for > 0 ~> open_for <= 0

(* The circuit is a circuit breaker in the sense of module Breaker. *)
breaker == INSTANCE Breaker WITH
  Calls    <- Requests,
  state    <- IF open_for > 0 THEN "open" ELSE IF open_for = 0 THEN "expired" ELSE "closed",
  run      <- consecutive_failures,
  inFlight <- InFlight
IsBreaker == breaker!Spec

(* README.md:46: the guard blocks NaN, Infinity and invalid JSON.  No answer
   of the external provider reaches a client with a marker in it. *)
MarkersBlocked ==
  reply.provider = "external" =>
    Violations(reply.text, reply.json) \cap {"nan", "infinity", "not_json"} = {}
=============================================================================
