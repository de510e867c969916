----------------------------- MODULE McpRouting -----------------------------
(***************************************************************************)
(* RoutingPolicyEngine (crates/mcp-server/src/routing.rs) under the        *)
(* concurrent requests of the MCP server, each of them a run of            *)
(* routed_generate (reasoning.rs): ask the three circuits one after the    *)
(* other, choose a provider by the seven rules, call it with no lock held, *)
(* record its verdict, and fall back to the tensor model when the output   *)
(* guard rejects an external answer.                                       *)
(*                                                                         *)
(* Time is what remains of each cooldown.  A count that has reached the    *)
(* threshold acts like any larger one, so it is kept at the threshold.     *)
(***************************************************************************)
EXTENDS Integers, FiniteSets

CONSTANTS
  Requests,         \* request slots
  Contexts,         \* kinds of request that arrive
  ExternalEnabled,  \* external_enabled, with a URL
  Threshold,        \* failure_threshold
  CooldownSecs      \* cooldown_secs

LocalOnly == {"privacy", "action", "trauma"}     \* rules 1 to 3
AllContexts == LocalOnly \cup {"low_entropy", "high_entropy"}

ASSUME RoutingAssumption ==
  /\ IsFiniteSet(Requests)
  /\ Contexts \subseteq AllContexts
  /\ ExternalEnabled \in BOOLEAN
  /\ Threshold \in Nat \ {0}
  /\ CooldownSecs \in Nat \ {0}

Providers == {"tensor", "ollama", "external"}
Closed == -1                    \* circuit_open = false

VARIABLES
  stage,     \* per request: the circuit it asks next, or the call it awaits
  context,   \* per request: its RoutingContext
  seen,      \* per request: the circuits decide() found open
  failures_recent,
  cooldown,  \* per provider: time left while circuit_open, else Closed
  predates   \* history, per provider: requests let through before its last trip

vars == <<stage, context, seen, failures_recent, cooldown, predates>>
circuits == <<failures_recent, cooldown, predates>>

Stages == {"idle", "ask_tensor", "ask_ollama", "ask_external",
           "tensor", "ollama", "external", "fallback"}

TypeOK ==
  /\ stage \in [Requests -> Stages]
  /\ context \in [Requests -> AllContexts]
  /\ seen \in [Requests -> SUBSET Providers]
  /\ failures_recent \in [Providers -> 0 .. Threshold]
  /\ cooldown \in [Providers -> Closed .. CooldownSecs]
  /\ predates \in [Providers -> SUBSET Requests]

Init ==
  /\ stage = [r \in Requests |-> "idle"]
  /\ context = [r \in Requests |-> "low_entropy"]
  /\ seen = [r \in Requests |-> {}]
  /\ failures_recent = [p \in Providers |-> 0]
  /\ cooldown = [p \in Providers |-> Closed]
  /\ predates = [p \in Providers |-> {}]

-----------------------------------------------------------------------------
(* The rules of decide(), given the circuits found open. *)

LocalChoice(open) ==
  CASE "tensor" \notin open -> "tensor"
    [] "tensor" \in open /\ "ollama" \notin open -> "ollama"
    [] OTHER -> "unavailable"

(* mutant: the last local resort is used whatever its circuit says *)
decideOllamaUnchecked(ctx, open) ==
  IF ctx = "high_entropy" /\ ExternalEnabled /\ "external" \notin open THEN "external"
  ELSE IF "tensor" \notin open THEN "tensor" ELSE "ollama"

(* mutant: the external route is tried before the gates *)
decideExternalFirst(ctx, open) ==
  IF ctx # "low_entropy" /\ ExternalEnabled /\ "external" \notin open
    THEN "external" ELSE LocalChoice(open)

(* Rules 1 to 3 keep a request local, rule 4 sends an uncertain one out, rules
   5 to 7 are the local chain again. *)
decide(ctx, open) ==
  IF ctx \notin LocalOnly /\ ctx = "high_entropy" /\ ExternalEnabled /\ "external" \notin open
    THEN "external"
    ELSE LocalChoice(open)

-----------------------------------------------------------------------------
(* The critical sections on one provider's health. *)

(* Requests whose question about p's circuit was answered "closed" and that
   can still call p, or are calling it. *)
Admitted(p) ==
  {r \in Requests :
     \/ stage[r] = p
     \/ /\ p \notin seen[r]
        /\ \/ p = "tensor" /\ stage[r] \in {"ask_ollama", "ask_external"}
           \/ p = "ollama" /\ stage[r] = "ask_external"}

(* mutant: asking an open circuit starts its cooldown again *)
is_circuit_open_restarting(p) ==
  cooldown' = [cooldown EXCEPT ![p] = IF @ > 0 THEN CooldownSecs ELSE Closed]

(* is_circuit_open: a cooldown that is over closes the circuit and keeps the
   count.  half_open_probe_sent is only ever set to false. *)
is_circuit_open(p) ==
  cooldown' = [cooldown EXCEPT ![p] = IF @ > 0 THEN @ ELSE Closed]

(* mutant: a success resets the count and leaves the circuit open *)
record_success_keeping_open(p) ==
  /\ failures_recent' = [failures_recent EXCEPT ![p] = 0]
  /\ UNCHANGED cooldown
  /\ predates' = [predates EXCEPT ![p] = {}]

record_success(p) ==
  /\ failures_recent' = [failures_recent EXCEPT ![p] = 0]
  /\ cooldown' = [cooldown EXCEPT ![p] = Closed]
  /\ predates' = [predates EXCEPT ![p] = {}]

record_failure(p, r) ==
  IF failures_recent[p] + 1 >= Threshold
    THEN /\ failures_recent' = [failures_recent EXCEPT ![p] = Threshold]
         /\ cooldown' = [cooldown EXCEPT ![p] = CooldownSecs]
         /\ predates' = [predates EXCEPT ![p] = Admitted(p) \ {r}]
    ELSE /\ failures_recent' = [failures_recent EXCEPT ![p] = @ + 1]
         /\ UNCHANGED <<cooldown, predates>>

-----------------------------------------------------------------------------
(* One run of routed_generate. *)

Go(r, to) == stage' = [stage EXCEPT ![r] = to]

(* A request with its routing context, built before any circuit is asked. *)
Begin(r, ctx) ==
  /\ stage[r] = "idle"
  /\ Go(r, "ask_tensor")
  /\ context' = [context EXCEPT ![r] = ctx]
  /\ UNCHANGED <<seen, circuits>>

Ask(p, r) ==
  /\ is_circuit_open(p)
  /\ predates' = [predates EXCEPT ![p] = @ \ {r}]
  /\ UNCHANGED <<failures_recent, context>>

Found(p, r) == IF cooldown[p] > 0 THEN seen[r] \cup {p} ELSE seen[r]

AskTensor(r) ==
  /\ stage[r] = "ask_tensor"
  /\ Ask("tensor", r)
  /\ seen' = [seen EXCEPT ![r] = Found("tensor", r)]
  /\ Go(r, "ask_ollama")

AskOllama(r) ==
  /\ stage[r] = "ask_ollama"
  /\ Ask("ollama", r)
  /\ seen' = [seen EXCEPT ![r] = Found("ollama", r)]
  /\ Go(r, "ask_external")

(* The last question; the rules need nothing more.  "unavailable" is an error
   to the caller. *)
AskExternal(r) ==
  LET choice == decide(context[r], Found("external", r))
  IN  /\ stage[r] = "ask_external"
      /\ Ask("external", r)
      /\ seen' = [seen EXCEPT ![r] = {}]
      /\ Go(r, IF choice = "unavailable" THEN "idle" ELSE choice)

(* A provider answered.  Ollama's HTTP status is not looked at and its text
   may be empty: every parsed body is a success. *)
Answered(r) ==
  /\ \/ stage[r] = "fallback" /\ record_success("tensor")
     \/ stage[r] \in Providers /\ record_success(stage[r])
  /\ Go(r, "idle")
  /\ UNCHANGED <<context, seen>>

(* Error or timeout. *)
Failed(r) ==
  /\ \/ stage[r] = "fallback" /\ record_failure("tensor", r)
     \/ stage[r] \in Providers /\ record_failure(stage[r], r)
  /\ Go(r, "idle")
  /\ UNCHANGED <<context, seen>>

(* The guard rejects the external text: a failure of the external provider,
   and the tensor model is called without asking its circuit. *)
Rejected(r) ==
  /\ stage[r] = "external"
  /\ record_failure("external", r)
  /\ Go(r, "fallback")
  /\ UNCHANGED <<context, seen>>

routed_generate(r) ==
  \/ \E ctx \in Contexts : Begin(r, ctx)
  \/ AskTensor(r) \/ AskOllama(r) \/ AskExternal(r)
  \/ Answered(r) \/ Failed(r) \/ Rejected(r)

(* One tick of the wall clock, for all cooldowns at once. *)
Tick ==
  /\ \E p \in Providers : cooldown[p] > 0
  /\ cooldown' = [p \in Providers |-> IF cooldown[p] > 0 THEN cooldown[p] - 1 ELSE cooldown[p]]
  /\ UNCHANGED <<stage, context, seen, failures_recent, predates>>

Next == (\E r \in Requests : routed_generate(r)) \/ Tick

(* Time passes; providers and callers owe nothing. *)
Spec == Init /\ [][Next]_vars /\ WF_vars(Tick)

-----------------------------------------------------------------------------
(* Properties *)

(* routing.rs, rules 1 to 3: a request under the privacy, action or trauma
   gate never waits for the external provider, however the circuits change
   between the three questions. *)
LocalOnlyStaysLocal ==
  \A r \in Requests : stage[r] = "external" => context[r] \notin LocalOnly

(* The circuits are asked one by one and the call follows later.  Still, a
   call that runs while its circuit is open was let through before the trip,
   or is the guard's fallback, which asks nothing. *)
OpenAdmitsOnlyFallback ==
  \A p \in Providers : cooldown[p] > 0 => Admitted(p) \subseteq predates[p]

(* The circuits of Ollama and of the external provider are circuit breakers:
   a call is let through at its question, and a request that then goes
   elsewhere gives its admission up.  The tensor circuit is not one. *)
State(p) == IF cooldown[p] > 0 THEN "open" ELSE IF cooldown[p] = 0 THEN "expired" ELSE "closed"
Run(p) == IF failures_recent[p] < Threshold THEN failures_recent[p] ELSE Threshold - 1

ollama == INSTANCE Breaker WITH
  Calls <- Requests, state <- State("ollama"), run <- Run("ollama"), inFlight <- Admitted("ollama")
OllamaIsBreaker == ollama!Spec

(* The same of the external provider's circuit. *)
external == INSTANCE Breaker WITH
  Calls <- Requests, state <- State("external"), run <- Run("external"), inFlight <- Admitted("external")
ExternalIsBreaker == external!Spec

(* However late failures fall, the cooldown of these two providers runs out. *)
CooldownEnds ==
  \A p \in {"ollama", "external"} : cooldown[p] > 0 ~> cooldown[p] <= 0

(* routing.rs:183: after a cooldown the circuit is half open and lets one
   probe request through until its verdict is in. *)
HalfOpenSingleProbe ==
  \A p \in Providers :
    (cooldown[p] = Closed /\ failures_recent[p] = Threshold)
      => Cardinality(Admitted(p) \ predates[p]) <= 1
=============================================================================
