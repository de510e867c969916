-------------------------- MODULE McpRouting_proofs -------------------------
(***************************************************************************)
(* What routing.rs guarantees to any number of concurrent requests: the    *)
(* gates of rules 1 to 3 hold, and an open circuit lets no new call        *)
(* through but the guard's fallback, although decide() asks the circuits   *)
(* one after the other and the call follows later.                         *)
(***************************************************************************)
EXTENDS MC_McpRouting, TLAPS

LEMMA InitTyping == Init => TypeOK
BY RoutingAssumption DEF Init, TypeOK, AllContexts, LocalOnly, Stages, Providers, Closed

(* decide() returns a provider to call, or none. *)
LEMMA Decision ==
  ASSUME NEW ctx, NEW open
  PROVE  /\ decide(ctx, open) \in Providers \cup {"unavailable"}
         /\ decide(ctx, open) = "external" => ctx \notin LocalOnly
         /\ decide(ctx, open) \in Providers => decide(ctx, open) \notin open
BY DEF decide, LocalChoice, Providers

(* The critical sections keep the types of the circuits. *)
LEMMA AskTyping ==
  ASSUME TypeOK, NEW p \in Providers, NEW r \in Requests, Ask(p, r)
  PROVE  /\ cooldown' \in [Providers -> Closed .. CooldownSecs]
         /\ predates' \in [Providers -> SUBSET Requests]
         /\ failures_recent' = failures_recent /\ context' = context
<1>1. cooldown' \in [Providers -> Closed .. CooldownSecs]
  BY RoutingAssumption DEF TypeOK, Ask, is_circuit_open, Closed
<1>2. predates' \in [Providers -> SUBSET Requests]
  BY DEF TypeOK, Ask
<1> QED BY <1>1, <1>2 DEF Ask

LEMMA FailureTyping ==
  ASSUME TypeOK, NEW p \in Providers, NEW r \in Requests, record_failure(p, r)
  PROVE  /\ failures_recent' \in [Providers -> 0 .. Threshold]
         /\ cooldown' \in [Providers -> Closed .. CooldownSecs]
         /\ predates' \in [Providers -> SUBSET Requests]
<1>1. Admitted(p) \ {r} \in SUBSET Requests
  BY DEF Admitted
<1>2. CASE failures_recent[p] + 1 >= Threshold
  BY <1>1, <1>2, RoutingAssumption DEF TypeOK, record_failure, Closed
<1>3. CASE ~(failures_recent[p] + 1 >= Threshold)
  BY <1>3, RoutingAssumption DEF TypeOK, record_failure
<1> QED BY <1>2, <1>3

LEMMA SuccessTyping ==
  ASSUME TypeOK, NEW p \in Providers, record_success(p)
  PROVE  /\ failures_recent' \in [Providers -> 0 .. Threshold]
         /\ cooldown' \in [Providers -> Closed .. CooldownSecs]
         /\ predates' \in [Providers -> SUBSET Requests]
BY RoutingAssumption DEF TypeOK, record_success, Closed

(* The provider a call in flight counts for. *)
LEMMA CalledProvider ==
  ASSUME NEW r \in Requests, Answered(r) \/ Failed(r)
  PROVE  \E p \in Providers : /\ p = stage[r] \/ (p = "tensor" /\ stage[r] = "fallback")
                              /\ record_success(p) \/ record_failure(p, r)
                              /\ Answered(r) => record_success(p)
                              /\ Failed(r) => record_failure(p, r)
BY DEF Answered, Failed, Providers

LEMMA TypingStep ==
  ASSUME TypeOK, [Next]_vars
  PROVE  TypeOK'
<1>1. ASSUME NEW r \in Requests, NEW ctx \in Contexts, Begin(r, ctx)  PROVE TypeOK'
  BY <1>1, RoutingAssumption DEF Begin, Go, circuits, TypeOK, Stages
<1>2. ASSUME NEW r \in Requests, AskTensor(r)  PROVE TypeOK'
  <2>1. Ask("tensor", r) /\ "tensor" \in Providers
    BY <1>2 DEF AskTensor, Providers
  <2>2. Found("tensor", r) \in SUBSET Providers
    BY <2>1 DEF Found, TypeOK
  <2> QED BY <1>2, <2>1, <2>2, AskTyping DEF AskTensor, Go, TypeOK, Stages
<1>3. ASSUME NEW r \in Requests, AskOllama(r)  PROVE TypeOK'
  <2>1. Ask("ollama", r) /\ "ollama" \in Providers
    BY <1>3 DEF AskOllama, Providers
  <2>2. Found("ollama", r) \in SUBSET Providers
    BY <2>1 DEF Found, TypeOK
  <2> QED BY <1>3, <2>1, <2>2, AskTyping DEF AskOllama, Go, TypeOK, Stages
<1>4. ASSUME NEW r \in Requests, AskExternal(r)  PROVE TypeOK'
  <2> DEFINE choice == decide(context[r], Found("external", r))
             to == IF choice = "unavailable" THEN "idle" ELSE choice
  <2>1. Ask("external", r) /\ "external" \in Providers
    BY <1>4 DEF AskExternal, Providers
  <2>2. to \in Stages
    BY Decision DEF Providers, Stages
  <2>3. stage' = [stage EXCEPT ![r] = to] /\ seen' = [seen EXCEPT ![r] = {}]
    BY <1>4 DEF AskExternal, Go
  <2> QED BY <2>1, <2>2, <2>3, AskTyping DEF TypeOK
<1>5. ASSUME NEW r \in Requests, Answered(r)  PROVE TypeOK'
  <2>1. PICK p \in Providers : record_success(p)
    BY <1>5, CalledProvider
  <2> QED BY <1>5, <2>1, SuccessTyping DEF Answered, Go, TypeOK, Stages
<1>6. ASSUME NEW r \in Requests, Failed(r)  PROVE TypeOK'
  <2>1. PICK p \in Providers : record_failure(p, r)
    BY <1>6, CalledProvider
  <2> QED BY <1>6, <2>1, FailureTyping DEF Failed, Go, TypeOK, Stages
<1>7. ASSUME NEW r \in Requests, Rejected(r)  PROVE TypeOK'
  <2>1. record_failure("external", r) /\ "external" \in Providers
    BY <1>7 DEF Rejected, Providers
  <2> QED BY <1>7, <2>1, FailureTyping DEF Rejected, Go, TypeOK, Stages
<1>8. CASE Tick
  BY <1>8, RoutingAssumption DEF Tick, TypeOK, Closed
<1>9. CASE UNCHANGED vars
  BY <1>9 DEF vars, TypeOK
<1> QED BY <1>1, <1>2, <1>3, <1>4, <1>5, <1>6, <1>7, <1>8, <1>9 DEF Next, routed_generate

LEMMA TypingInv == Spec => []TypeOK
<1>1. TypeOK /\ [Next]_vars => TypeOK'
  BY TypingStep
<1> QED BY <1>1, InitTyping, PTL DEF Spec

-----------------------------------------------------------------------------
(* The gates. *)

LEMMA GateStep ==
  ASSUME TypeOK, LocalOnlyStaysLocal, [Next]_vars
  PROVE  LocalOnlyStaysLocal'
<1> SUFFICES ASSUME NEW q \in Requests, stage'[q] = "external"  PROVE context'[q] \notin LocalOnly
  BY DEF LocalOnlyStaysLocal
<1>1. ASSUME NEW r \in Requests, AskExternal(r)  PROVE context'[q] \notin LocalOnly
  <2> DEFINE choice == decide(context[r], Found("external", r))
             to == IF choice = "unavailable" THEN "idle" ELSE choice
  <2>1. stage' = [stage EXCEPT ![r] = to] /\ context' = context
    BY <1>1 DEF AskExternal, Go, Ask
  <2>2. to = "external" => context[r] \notin LocalOnly
    BY Decision
  <2> HIDE DEF to
  <2> QED BY <2>1, <2>2 DEF TypeOK, LocalOnlyStaysLocal
<1>2. ASSUME NEW r \in Requests,
             \/ \E ctx \in Contexts : Begin(r, ctx)
             \/ AskTensor(r) \/ AskOllama(r) \/ Answered(r) \/ Failed(r) \/ Rejected(r)
      PROVE  context'[q] \notin LocalOnly
  BY <1>2 DEF Begin, AskTensor, AskOllama, Ask, Answered, Failed, Rejected, Go,
              TypeOK, LocalOnlyStaysLocal
<1>3. CASE Tick \/ UNCHANGED vars
  BY <1>3 DEF Tick, vars, LocalOnlyStaysLocal
<1> QED BY <1>1, <1>2, <1>3 DEF Next, routed_generate

-----------------------------------------------------------------------------
(* Open circuits.  The property is inductive together with the types; each
   action moves one request q and changes one circuit p at most. *)

LEMMA AskAdmits ==
  ASSUME TypeOK, OpenAdmitsOnlyFallback, NEW a \in Providers, NEW r \in Requests, Ask(a, r),
         NEW p \in Providers, cooldown'[p] > 0
  PROVE  /\ cooldown[p] > 0
         /\ Admitted(p) \subseteq predates[p]
         /\ predates'[p] = IF p = a THEN predates[p] \ {r} ELSE predates[p]
<1>1. cooldown[p] > 0
  BY DEF Ask, is_circuit_open, TypeOK, Closed
<1>2. predates'[p] = IF p = a THEN predates[p] \ {r} ELSE predates[p]
  BY DEF Ask, TypeOK
<1> QED BY <1>1, <1>2 DEF OpenAdmitsOnlyFallback

LEMMA VerdictAdmits ==
  ASSUME TypeOK, OpenAdmitsOnlyFallback, NEW a \in Providers, NEW r \in Requests,
         record_success(a) \/ record_failure(a, r),
         NEW p \in Providers, cooldown'[p] > 0
  PROVE  Admitted(p) \ {r} \subseteq predates'[p]
<1>1. CASE record_success(a)
  <2>1. p # a
    BY <1>1 DEF record_success, TypeOK, Closed
  <2>2. cooldown'[p] = cooldown[p] /\ predates'[p] = predates[p]
    BY <1>1, <2>1 DEF record_success, TypeOK
  <2> QED BY <2>2 DEF OpenAdmitsOnlyFallback
<1>2. CASE record_failure(a, r)
  <2>1. CASE p = a /\ failures_recent[a] + 1 >= Threshold
    BY <1>2, <2>1 DEF record_failure, TypeOK
  <2>2. CASE ~(p = a /\ failures_recent[a] + 1 >= Threshold)
    <3>1. cooldown'[p] = cooldown[p] /\ predates'[p] = predates[p]
      BY <1>2, <2>2 DEF record_failure, TypeOK
    <3> QED BY <3>1 DEF OpenAdmitsOnlyFallback
  <2> QED BY <2>1, <2>2
<1> QED BY <1>1, <1>2

(* Who is admitted after r has moved to stage `to' having found `open'. *)
LEMMA AdmittedNext ==
  ASSUME TypeOK, NEW r \in Requests, NEW to \in Stages, NEW open \in SUBSET Providers,
         stage' = [stage EXCEPT ![r] = to], seen' = [seen EXCEPT ![r] = open],
         NEW p \in Providers, NEW q \in Requests, q \in Admitted(p)'
  PROVE  /\ q # r => q \in Admitted(p)
         /\ q = r => \/ to = p
                     \/ /\ p \notin open
                        /\ \/ p = "tensor" /\ to \in {"ask_ollama", "ask_external"}
                           \/ p = "ollama" /\ to = "ask_external"
<1>1. q # r => stage'[q] = stage[q] /\ seen'[q] = seen[q]
  BY DEF TypeOK
<1>2. q = r => stage'[q] = to /\ seen'[q] = open
  BY DEF TypeOK
<1> QED BY <1>1, <1>2 DEF Admitted

LEMMA OpenStep ==
  ASSUME TypeOK, OpenAdmitsOnlyFallback, [Next]_vars
  PROVE  OpenAdmitsOnlyFallback'
<1> SUFFICES ASSUME NEW p \in Providers, cooldown'[p] > 0, NEW q \in Requests, q \in Admitted(p)'
             PROVE  q \in predates'[p]
  BY DEF OpenAdmitsOnlyFallback, Admitted
<1> USE DEF Go
<1>1. ASSUME NEW r \in Requests, NEW ctx \in Contexts, Begin(r, ctx)  PROVE q \in predates'[p]
  <2>1. /\ stage' = [stage EXCEPT ![r] = "ask_tensor"] /\ seen' = [seen EXCEPT ![r] = seen[r]]
        /\ cooldown' = cooldown /\ predates' = predates
    BY <1>1 DEF Begin, circuits, TypeOK
  <2>2. q # r /\ q \in Admitted(p)
    <3>1. stage'[r] = "ask_tensor" /\ p # "ask_tensor"
      BY <2>1 DEF Providers, TypeOK
    <3>2. q # r
      BY <3>1 DEF Admitted
    <3>3. stage'[q] = stage[q] /\ seen'[q] = seen[q]
      BY <2>1, <3>2 DEF TypeOK
    <3> QED BY <3>2, <3>3 DEF Admitted
  <2> QED BY <2>1, <2>2 DEF OpenAdmitsOnlyFallback
<1>2. ASSUME NEW r \in Requests, AskTensor(r)  PROVE q \in predates'[p]
  <2>1. /\ Ask("tensor", r) /\ "tensor" \in Providers /\ stage[r] = "ask_tensor"
        /\ stage' = [stage EXCEPT ![r] = "ask_ollama"]
        /\ seen' = [seen EXCEPT ![r] = Found("tensor", r)]
    BY <1>2 DEF AskTensor, Providers
  <2>2. /\ cooldown[p] > 0 /\ Admitted(p) \subseteq predates[p]
        /\ predates'[p] = IF p = "tensor" THEN predates[p] \ {r} ELSE predates[p]
    BY <2>1, AskAdmits
  <2>3. "ask_ollama" \in Stages /\ Found("tensor", r) \in SUBSET Providers
    BY <2>1 DEF Stages, Found, TypeOK
  <2>4. q # r
    <3>1. p = "tensor" => p \in Found("tensor", r)
      BY <2>2 DEF Found
    <3>2. stage'[r] = "ask_ollama" /\ seen'[r] = Found("tensor", r) /\ p # "ask_ollama"
      BY <2>1 DEF Providers, TypeOK
    <3> QED BY <3>1, <3>2 DEF Admitted
  <2>5. q \in Admitted(p)
    BY <2>1, <2>3, <2>4, AdmittedNext DEF Admitted
  <2> QED BY <2>2, <2>4, <2>5
<1>3. ASSUME NEW r \in Requests, AskOllama(r)  PROVE q \in predates'[p]
  <2>1. /\ Ask("ollama", r) /\ "ollama" \in Providers /\ stage[r] = "ask_ollama"
        /\ stage' = [stage EXCEPT ![r] = "ask_external"]
        /\ seen' = [seen EXCEPT ![r] = Found("ollama", r)]
    BY <1>3 DEF AskOllama, Providers
  <2>2. /\ cooldown[p] > 0 /\ Admitted(p) \subseteq predates[p]
        /\ predates'[p] = IF p = "ollama" THEN predates[p] \ {r} ELSE predates[p]
    BY <2>1, AskAdmits
  <2>3. "ask_external" \in Stages /\ Found("ollama", r) \in SUBSET Providers
    BY <2>1 DEF Stages, Found, TypeOK
  <2>4. CASE q = r
    <3>0. stage'[r] = "ask_external" /\ seen'[r] = Found("ollama", r) /\ p # "ask_external"
      BY <2>1 DEF Providers, TypeOK
    <3>1. p \notin Found("ollama", r) /\ p \in {"tensor", "ollama"}
      BY <2>4, <3>0 DEF Admitted
    <3>2. p = "tensor" /\ p \notin seen[r]
      BY <2>2, <3>1 DEF Found
    <3>3. q \in Admitted(p)
      BY <2>1, <2>4, <3>2 DEF Admitted
    <3> QED BY <2>2, <3>2, <3>3
  <2>5. CASE q # r
    <3>1. q \in Admitted(p)
      BY <2>1, <2>3, <2>5, AdmittedNext DEF Admitted
    <3> QED BY <2>2, <2>5, <3>1
  <2> QED BY <2>4, <2>5
<1>4. ASSUME NEW r \in Requests, AskExternal(r)  PROVE q \in predates'[p]
  <2> DEFINE choice == decide(context[r], Found("external", r))
             to == IF choice = "unavailable" THEN "idle" ELSE choice
  <2>1. /\ Ask("external", r) /\ "external" \in Providers /\ stage[r] = "ask_external"
        /\ stage' = [stage EXCEPT ![r] = to]
        /\ seen' = [seen EXCEPT ![r] = {}]
    BY <1>4 DEF AskExternal, Providers
  <2>2. /\ cooldown[p] > 0 /\ Admitted(p) \subseteq predates[p]
        /\ predates'[p] = IF p = "external" THEN predates[p] \ {r} ELSE predates[p]
    BY <2>1, AskAdmits
  <2>3. /\ to \in Stages /\ {} \in SUBSET Providers
        /\ to \notin {"ask_ollama", "ask_external"}
        /\ to = p => p \notin Found("external", r)
    BY Decision DEF Providers, Stages
  <2> HIDE DEF to
  <2>4. CASE q = r
    <3>1. stage'[r] = to /\ seen'[r] = {}
      BY <2>1 DEF TypeOK
    <3>2. stage'[r] = p
      BY <2>3, <2>4, <3>1 DEF Admitted
    <3>3. p \notin Found("external", r)
      BY <2>3, <3>1, <3>2
    <3>4. p \in {"tensor", "ollama"} /\ p \notin seen[r]
      BY <2>2, <3>3 DEF Found, Providers
    <3>5. q \in Admitted(p)
      BY <2>1, <2>4, <3>4 DEF Admitted
    <3> QED BY <2>2, <3>4, <3>5
  <2>5. CASE q # r
    <3>1. q \in Admitted(p)
      BY <2>1, <2>3, <2>5, AdmittedNext DEF Admitted
    <3> QED BY <2>2, <2>5, <3>1
  <2> QED BY <2>4, <2>5
<1>5. ASSUME NEW r \in Requests, Answered(r) \/ Failed(r) \/ Rejected(r)  PROVE q \in predates'[p]
  <2>1. PICK a \in Providers : record_success(a) \/ record_failure(a, r)
    BY <1>5, CalledProvider DEF Rejected, Providers
  <2>2. PICK to \in {"idle", "fallback"} :
          stage' = [stage EXCEPT ![r] = to] /\ seen' = [seen EXCEPT ![r] = seen[r]]
    BY <1>5 DEF Answered, Failed, Rejected, TypeOK
  <2>3. /\ to \in Stages /\ to \notin Providers \cup {"ask_ollama", "ask_external"}
        /\ seen[r] \in SUBSET Providers
    BY DEF Stages, Providers, TypeOK
  <2>4. q # r /\ q \in Admitted(p)
    <3>1. stage'[r] = to /\ p # to
      BY <2>2, <2>3 DEF TypeOK
    <3>2. q # r
      BY <2>3, <3>1 DEF Admitted
    <3>3. stage'[q] = stage[q] /\ seen'[q] = seen[q]
      BY <2>2, <3>2 DEF TypeOK
    <3> QED BY <3>2, <3>3 DEF Admitted
  <2> QED BY <2>1, <2>4, VerdictAdmits
<1>6. CASE Tick
  <2>1. cooldown[p] > 0 /\ predates' = predates /\ stage' = stage /\ seen' = seen
    BY <1>6 DEF Tick, TypeOK, Closed
  <2> QED BY <2>1 DEF OpenAdmitsOnlyFallback, Admitted
<1>7. CASE UNCHANGED vars
  BY <1>7 DEF vars, OpenAdmitsOnlyFallback, Admitted
<1> QED BY <1>1, <1>2, <1>3, <1>4, <1>5, <1>6, <1>7 DEF Next, routed_generate

-----------------------------------------------------------------------------
(* The theorems. *)

(* The state keeps its types: counts stop at the threshold, cooldowns at their
   length. *)
THEOREM Typing == Spec => []TypeOK
BY TypingInv

(* A request under a local-only gate never waits for the external provider,
   for any number of requests and any interleaving of their questions. *)
THEOREM Gates == Spec => []LocalOnlyStaysLocal
<1>1. Init => LocalOnlyStaysLocal
  BY DEF Init, LocalOnlyStaysLocal
<1>2. TypeOK /\ LocalOnlyStaysLocal /\ [Next]_vars => LocalOnlyStaysLocal'
  BY GateStep
<1> QED BY <1>1, <1>2, TypingInv, PTL DEF Spec

(* Every call that runs while its circuit is open was let through before the
   trip, or is the guard's fallback. *)
THEOREM OpenAdmits == Spec => []OpenAdmitsOnlyFallback
<1>1. Init => OpenAdmitsOnlyFallback
  BY DEF Init, OpenAdmitsOnlyFallback, Closed
<1>2. TypeOK /\ OpenAdmitsOnlyFallback /\ [Next]_vars => OpenAdmitsOnlyFallback'
  BY OpenStep
<1> QED BY <1>1, <1>2, TypingInv, PTL DEF Spec

-----------------------------------------------------------------------------
(* The refinement: what each step does to one of the two breakers. *)
Counts(p, at, open) == at = p \/ (p = "ollama" /\ "ollama" \notin open /\ at = "ask_external")

Puts(r, to, open) == stage' = [stage EXCEPT ![r] = to] /\ seen' = [seen EXCEPT ![r] = open]
After(p, r, to, open) == IF Counts(p, to, open) THEN Admitted(p) \cup {r} ELSE Admitted(p) \ {r}

LEMMA AdmittedBy ==
  ASSUME TypeOK, NEW p \in {"ollama", "external"}, NEW r \in Requests
  PROVE  r \in Admitted(p) <=> Counts(p, stage[r], seen[r])
BY DEF Admitted, Counts

LEMMA AdmittedAfter ==
  ASSUME TypeOK, NEW p \in {"ollama", "external"}, NEW r \in Requests, NEW to \in Stages,
         NEW open \in SUBSET Providers,
         Puts(r, to, open)
  PROVE  Admitted(p)' = After(p, r, to, open)
<1>1. ASSUME NEW q \in Requests
      PROVE  q \in Admitted(p)' <=> IF q = r THEN Counts(p, to, open) ELSE q \in Admitted(p)
  <2>1. q \in Admitted(p)' <=> Counts(p, stage'[q], seen'[q])
    BY DEF Admitted, Counts
  <2>2. CASE q = r
    <3>1. stage'[q] = to /\ seen'[q] = open
      BY <2>2 DEF TypeOK, Puts
    <3> QED BY <2>1, <2>2, <3>1
  <2>3. CASE q # r
    <3>1. stage'[q] = stage[q] /\ seen'[q] = seen[q]
      BY <2>3 DEF TypeOK, Puts
    <3> QED BY <2>1, <2>3, <3>1, AdmittedBy
  <2> QED BY <2>2, <2>3
<1>2. Admitted(p)' \subseteq Requests /\ Admitted(p) \subseteq Requests
  BY DEF Admitted
<1> QED BY <1>1, <1>2 DEF After

(* The moves of the abstract breaker, of provider p. *)
Stays(p) == State(p)' = State(p) /\ Run(p)' = Run(p)
Closes(p) ==
  \/ State(p) = "closed" /\ Stays(p)
  \/ State(p) = "expired" /\ State(p)' = "closed" /\ Run(p)' = Run(p)
Fails(p) ==
  IF Run(p) + 1 >= Threshold THEN State(p)' = "open" /\ Run(p)' \in {0, Run(p)}
  ELSE State(p)' = State(p) /\ Run(p)' = Run(p) + 1
Moves(p) ==
  \/ Stays(p) /\ Admitted(p)' = Admitted(p)
  \/ \E r \in Requests : r \notin Admitted(p) /\ Admitted(p)' = Admitted(p) \cup {r} /\ Closes(p)
  \/ \E r \in Requests : /\ r \in Admitted(p) /\ Admitted(p)' = Admitted(p) \ {r}
                         /\ \/ State(p)' = "closed" /\ Run(p)' = 0
                            \/ Fails(p)
                            \/ Stays(p)
  \/ State(p) = "open" /\ State(p)' = "expired" /\ Run(p)' = Run(p) /\ Admitted(p)' = Admitted(p)
  \/ State(p) = "expired" /\ State(p)' = "closed" /\ Run(p)' = Run(p) /\ Admitted(p)' = Admitted(p)

(* A question to circuit a changes nothing but an expired a. *)
LEMMA AskMoves ==
  ASSUME TypeOK, NEW a \in Providers, NEW r \in Requests, Ask(a, r), NEW p \in {"ollama", "external"}
  PROVE  /\ p # a => Stays(p)
         /\ cooldown[a] > 0 => Stays(p)
         /\ ~(cooldown[p] > 0) => Closes(p) \/ Stays(p)
         /\ p = a /\ ~(cooldown[p] > 0) => Closes(p)
<1>1. p \in Providers
  BY DEF Providers
<1>2. cooldown'[p] = IF p = a THEN (IF cooldown[p] > 0 THEN cooldown[p] ELSE Closed) ELSE cooldown[p]
  BY <1>1 DEF Ask, is_circuit_open, TypeOK
<1>3. cooldown[p] \in Closed .. CooldownSecs /\ cooldown[p] \in Int
  BY <1>1, RoutingAssumption DEF TypeOK, Closed
<1>4. Run(p)' = Run(p)
  BY DEF Ask, Run
<1> QED BY <1>2, <1>3, <1>4 DEF Stays, Closes, State, Closed

LEMMA VerdictMoves ==
  ASSUME TypeOK, NEW a \in Providers, NEW r \in Requests, NEW p \in {"ollama", "external"}
  PROVE  /\ record_success(a) => IF p = a THEN State(p)' = "closed" /\ Run(p)' = 0 ELSE Stays(p)
         /\ record_failure(a, r) => IF p = a THEN Fails(p) ELSE Stays(p)
<1>1. p \in Providers /\ failures_recent[p] \in 0 .. Threshold /\ Threshold \in Nat \ {0} /\ CooldownSecs \in Nat \ {0}
  BY RoutingAssumption DEF Providers, TypeOK
<1>2. ASSUME record_success(a) PROVE IF p = a THEN State(p)' = "closed" /\ Run(p)' = 0 ELSE Stays(p)
  BY <1>1, <1>2 DEF record_success, TypeOK, State, Run, Stays, Closed
<1>3. ASSUME record_failure(a, r) PROVE IF p = a THEN Fails(p) ELSE Stays(p)
  <2>1. CASE p # a
    BY <1>1, <1>3, <2>1 DEF record_failure, TypeOK, State, Run, Stays
  <2>2. CASE p = a /\ failures_recent[p] + 1 >= Threshold
    <3>1. failures_recent'[p] = Threshold /\ cooldown'[p] = CooldownSecs
      BY <1>1, <1>3, <2>2 DEF record_failure, TypeOK
    <3> QED BY <1>1, <2>2, <3>1 DEF State, Run, Fails
  <2>3. CASE p = a /\ ~(failures_recent[p] + 1 >= Threshold)
    <3>1. failures_recent'[p] = failures_recent[p] + 1 /\ cooldown' = cooldown
      BY <1>1, <1>3, <2>3 DEF record_failure, TypeOK
    <3> QED BY <1>1, <2>3, <3>1 DEF State, Run, Fails
  <2> QED BY <2>1, <2>2, <2>3
<1> QED BY <1>2, <1>3

LEMMA RoutingMoves ==
  ASSUME TypeOK, [Next]_vars, NEW p \in {"ollama", "external"}
  PROVE  Moves(p)
<1> USE DEF Go
<1>1. ASSUME NEW r \in Requests, NEW ctx \in Contexts, Begin(r, ctx) PROVE Moves(p)
  <2>1. /\ stage' = [stage EXCEPT ![r] = "ask_tensor"] /\ seen' = [seen EXCEPT ![r] = seen[r]]
        /\ stage[r] = "idle" /\ Stays(p)
    BY <1>1 DEF Begin, circuits, TypeOK, Stays, State, Run
  <2>2. Puts(r, "ask_tensor", seen[r]) /\ "ask_tensor" \in Stages /\ seen[r] \in SUBSET Providers
    BY <2>1 DEF Puts, Stages, TypeOK
  <2>3. Admitted(p)' = After(p, r, "ask_tensor", seen[r])
    BY <2>2, AdmittedAfter
  <2>4. Admitted(p)' = Admitted(p)
    BY <2>1, <2>3, AdmittedBy DEF Counts, After
  <2> QED BY <2>1, <2>4 DEF Moves
<1>2. ASSUME NEW r \in Requests, AskTensor(r) PROVE Moves(p)
  <2>1. /\ stage' = [stage EXCEPT ![r] = "ask_ollama"] /\ seen' = [seen EXCEPT ![r] = Found("tensor", r)]
        /\ stage[r] = "ask_tensor" /\ Ask("tensor", r) /\ Found("tensor", r) \in SUBSET Providers
    BY <1>2 DEF AskTensor, Found, TypeOK, Providers
  <2>2. Puts(r, "ask_ollama", Found("tensor", r)) /\ "ask_ollama" \in Stages
    BY <2>1 DEF Puts, Stages
  <2>3. Admitted(p)' = After(p, r, "ask_ollama", Found("tensor", r))
    BY <2>1, <2>2, AdmittedAfter
  <2>4. Admitted(p)' = Admitted(p)
    BY <2>1, <2>3, AdmittedBy DEF Counts, After
  <2>5. Stays(p)
    BY <2>1, AskMoves DEF Providers
  <2> QED BY <2>4, <2>5 DEF Moves
<1>3. ASSUME NEW r \in Requests, AskOllama(r) PROVE Moves(p)
  <2>1. /\ stage' = [stage EXCEPT ![r] = "ask_external"] /\ seen' = [seen EXCEPT ![r] = Found("ollama", r)]
        /\ stage[r] = "ask_ollama" /\ Ask("ollama", r) /\ Found("ollama", r) \in SUBSET Providers
    BY <1>3 DEF AskOllama, Found, TypeOK, Providers
  <2>2. r \notin Admitted(p)
    BY <2>1, AdmittedBy DEF Counts
  <2>3. Puts(r, "ask_external", Found("ollama", r)) /\ "ask_external" \in Stages
    BY <2>1 DEF Puts, Stages
  <2>4. Admitted(p)' = After(p, r, "ask_external", Found("ollama", r))
    BY <2>1, <2>3, AdmittedAfter
  <2>5. CASE p = "external"
    <3>1. Admitted(p)' = Admitted(p)
      BY <2>2, <2>5, <2>4 DEF Counts, After
    <3> QED BY <2>1, <2>5, <3>1, AskMoves DEF Providers, Moves
  <2>6. CASE p = "ollama" /\ "ollama" \in Found("ollama", r)
    <3>1. Admitted(p)' = Admitted(p)
      BY <2>2, <2>6, <2>4 DEF Counts, After
    <3>2. Stays(p) \/ Closes(p)
      BY <2>1, <2>6, AskMoves DEF Providers
    <3> QED BY <3>1, <3>2 DEF Moves, Closes
  <2>7. CASE p = "ollama" /\ "ollama" \notin Found("ollama", r)
    <3>1. Admitted(p)' = Admitted(p) \cup {r}
      BY <2>7, <2>4 DEF Counts, After
    <3>2. ~(cooldown["ollama"] > 0)
      BY <2>7 DEF Found
    <3>3. Closes(p)
      BY <2>1, <2>7, <3>2, AskMoves DEF Providers
    <3> QED BY <2>2, <3>1, <3>3 DEF Moves
  <2> QED BY <2>5, <2>6, <2>7
<1>4. ASSUME NEW r \in Requests, AskExternal(r) PROVE Moves(p)
  <2> DEFINE choice == decide(context[r], Found("external", r))
             to == IF choice = "unavailable" THEN "idle" ELSE choice
  <2>1. /\ stage' = [stage EXCEPT ![r] = to] /\ seen' = [seen EXCEPT ![r] = {}]
        /\ stage[r] = "ask_external" /\ Ask("external", r)
    BY <1>4 DEF AskExternal
  <2>2. /\ choice \in Providers \cup {"unavailable"} /\ to \in Stages /\ to # "ask_external"
        /\ choice \in Providers => choice \notin Found("external", r)
        /\ to \in Providers => to = choice
    BY Decision DEF Providers, Stages
  <2>3. Puts(r, to, {}) /\ {} \in SUBSET Providers
    BY <2>1 DEF Puts
  <2>4. Admitted(p)' = After(p, r, to, {})
    BY <2>2, <2>3, AdmittedAfter
  <2>5. Admitted(p)' = IF to = p THEN Admitted(p) \cup {r} ELSE Admitted(p) \ {r}
    BY <2>2, <2>4 DEF Counts, After
  <2>6. CASE p = "ollama"
    <3>1. Stays(p)
      BY <2>1, <2>6, AskMoves DEF Providers
    <3>2. to = p => r \in Admitted(p)
      BY <2>1, <2>2, <2>6, AdmittedBy DEF Counts, Found, Providers
    <3> QED BY <2>5, <3>1, <3>2 DEF Moves
  <2>7. CASE p = "external"
    <3>1. r \notin Admitted(p)
      BY <2>1, <2>7, AdmittedBy DEF Counts
    <3>2. CASE to = p
      <4>1. ~(cooldown[p] > 0)
        BY <2>2, <2>7, <3>2 DEF Found, Providers
      <4>2. Closes(p)
        BY <2>1, <2>7, <4>1, AskMoves DEF Providers
      <4> QED BY <2>5, <3>1, <3>2, <4>2 DEF Moves
    <3>3. CASE to # p
      <4>1. Admitted(p)' = Admitted(p)
        BY <2>5, <3>1, <3>3
      <4>2. Stays(p) \/ Closes(p)
        BY <2>1, <2>7, AskMoves DEF Providers
      <4> QED BY <4>1, <4>2 DEF Moves, Closes
    <3> QED BY <3>2, <3>3
  <2> QED BY <2>6, <2>7
<1>5. ASSUME NEW r \in Requests, Answered(r) \/ Failed(r) PROVE Moves(p)
  <2>1. PICK a \in Providers : /\ a = stage[r] \/ (a = "tensor" /\ stage[r] = "fallback")
                               /\ record_success(a) \/ record_failure(a, r)
    BY <1>5, CalledProvider
  <2>2. stage' = [stage EXCEPT ![r] = "idle"] /\ seen' = [seen EXCEPT ![r] = seen[r]]
    BY <1>5 DEF Answered, Failed, TypeOK
  <2>3. Puts(r, "idle", seen[r]) /\ "idle" \in Stages /\ seen[r] \in SUBSET Providers
    BY <2>2 DEF Puts, Stages, TypeOK
  <2>4. Admitted(p)' = After(p, r, "idle", seen[r])
    BY <2>3, AdmittedAfter
  <2>5. Admitted(p)' = Admitted(p) \ {r}
    BY <2>4 DEF Counts, After
  <2>6. r \in Admitted(p) <=> a = p
    BY <2>1, AdmittedBy DEF Counts, Providers
  <2>7. CASE a = p
    BY <2>1, <2>5, <2>6, <2>7, VerdictMoves DEF Moves
  <2>8. CASE a # p
    BY <2>1, <2>5, <2>6, <2>8, VerdictMoves DEF Moves
  <2> QED BY <2>7, <2>8
<1>6. ASSUME NEW r \in Requests, Rejected(r) PROVE Moves(p)
  <2>1. /\ stage[r] = "external" /\ record_failure("external", r) /\ "external" \in Providers
        /\ stage' = [stage EXCEPT ![r] = "fallback"] /\ seen' = [seen EXCEPT ![r] = seen[r]]
    BY <1>6 DEF Rejected, TypeOK, Providers
  <2>2. Puts(r, "fallback", seen[r]) /\ "fallback" \in Stages /\ seen[r] \in SUBSET Providers
    BY <2>1 DEF Puts, Stages, TypeOK
  <2>3. Admitted(p)' = After(p, r, "fallback", seen[r])
    BY <2>2, AdmittedAfter
  <2>4. Admitted(p)' = Admitted(p) \ {r}
    BY <2>3 DEF Counts, After
  <2>5. r \in Admitted(p) <=> p = "external"
    BY <2>1, AdmittedBy DEF Counts
  <2> QED BY <2>1, <2>4, <2>5, VerdictMoves DEF Moves
<1>7. CASE Tick
  <2>1. Admitted(p)' = Admitted(p)
    BY <1>7 DEF Tick, Admitted
  <2>2. p \in Providers /\ cooldown[p] \in Int /\ cooldown'[p] = (IF cooldown[p] > 0 THEN cooldown[p] - 1 ELSE cooldown[p])
    BY <1>7, RoutingAssumption DEF Tick, TypeOK, Providers, Closed
  <2>3. Run(p)' = Run(p)
    BY <1>7 DEF Tick, Run
  <2> QED BY <2>1, <2>2, <2>3 DEF Moves, Stays, State
<1>8. CASE UNCHANGED vars
  BY <1>8 DEF vars, Moves, Stays, State, Run, Admitted
<1> QED BY <1>1, <1>2, <1>3, <1>4, <1>5, <1>6, <1>7, <1>8 DEF Next, routed_generate

(* Ollama's circuit and the external provider's are circuit breakers, whatever
   the requests between their three questions and their call do to each other. *)
THEOREM Refinement == Spec => ProvidersAreBreakers
<1>1. Init => ollama!Init /\ external!Init
  BY RoutingAssumption DEF Init, ollama!Init, external!Init, State, Run, Admitted, Closed, Providers
<1>2. TypeOK /\ [Next]_vars => [ollama!Next]_(ollama!vars) /\ [external!Next]_(external!vars)
  <2> SUFFICES ASSUME TypeOK, [Next]_vars PROVE [ollama!Next]_(ollama!vars) /\ [external!Next]_(external!vars)
    OBVIOUS
  <2>1. Moves("ollama") /\ Moves("external")
    BY RoutingMoves
  <2>2. [ollama!Next]_(ollama!vars)
    BY <2>1 DEF Moves, Stays, Closes, Fails, ollama!Next, ollama!vars, ollama!Admit, ollama!Success, ollama!Failure,
               ollama!Vanish, ollama!Expire, ollama!Close, ollama!Readmit
  <2>3. [external!Next]_(external!vars)
    BY <2>1 DEF Moves, Stays, Closes, Fails, external!Next, external!vars, external!Admit, external!Success,
               external!Failure, external!Vanish, external!Expire, external!Close, external!Readmit
  <2> QED BY <2>2, <2>3
<1> QED BY <1>1, <1>2, TypingInv, PTL DEF Spec, ProvidersAreBreakers, OllamaIsBreaker, ExternalIsBreaker, ollama!Spec, external!Spec
=============================================================================
