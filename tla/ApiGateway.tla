----------------------------- MODULE ApiGateway -----------------------------
(***************************************************************************)
(* ExternalAPIGateway of packages/toolkit/src/utils/ApiGateway.ts for one  *)
(* domain: concurrent get() and post() calls that share the domain's       *)
(* circuit and token bucket.                                               *)
(*                                                                         *)
(* JavaScript runs one call at a time up to its next await, so an action   *)
(* is what lies between two awaits: the checks up to the bucket, the end   *)
(* of the bucket's wait, and the end of an HTTP attempt.                   *)
(***************************************************************************)
EXTENDS Integers, FiniteSets, FiniteSetsExt

CONSTANTS
  Requests,      \* call slots
  Retrying,      \* get(), or post() with idempotent: true: three attempts
  Threshold,     \* FAILURE_THRESHOLD
  OpenDuration,  \* CIRCUIT_OPEN_DURATION_MS, in ticks
  Burst,         \* bucket size, refill per tick and the price of a call,
  Refill,        \*   in the same unit
  Price,
  MaxSent        \* bound: calls let through by the bucket

ASSUME ApiAssumption ==
  /\ IsFiniteSet(Requests)
  /\ Retrying \subseteq Requests
  /\ Threshold \in Nat \ {0}
  /\ OpenDuration \in Nat \ {0}
  /\ Burst \in Nat /\ Refill \in Nat \ {0} /\ Price \in Nat \ {0}
  /\ Burst >= Price
  /\ MaxSent \in Nat

MaxAttempts(r) == IF r \in Retrying THEN 3 ELSE 1

VARIABLES
  stage,     \* per call: "idle", "waiting" for a token, or "calling"
  attempt,   \* per call: HTTP attempts that failed so far
  wait,      \* per call: ticks left of its wait for a token
  failures,
  open_for,  \* openUntil - now, never negative
  tokens,
  credit,    \* ticks since lastRefill
  \* history
  run,       \* failures recorded since the last success
  sent,      \* calls the bucket let through
  earned,    \* what the time that passed was worth
  waited     \* waits for a token that ended

vars == <<stage, attempt, wait, failures, open_for, tokens, credit, run, sent, earned, waited>>
circuit == <<failures, open_for, run>>
bucket == <<tokens, credit, sent, earned, waited>>

MaxWait == (Price + Refill - 1) \div Refill

TypeOK ==
  /\ stage \in [Requests -> {"idle", "waiting", "calling"}]
  /\ attempt \in [Requests -> 0 .. 2]
  /\ wait \in [Requests -> 0 .. MaxWait]
  /\ failures \in Nat
  /\ open_for \in 0 .. OpenDuration
  /\ tokens \in 0 .. Burst
  /\ credit \in Nat
  /\ run \in Nat
  /\ sent \in Nat
  /\ earned \in Nat
  /\ waited \in Nat

Init ==
  /\ stage = [r \in Requests |-> "idle"]
  /\ attempt = [r \in Requests |-> 0]
  /\ wait = [r \in Requests |-> 0]
  /\ failures = 0
  /\ open_for = 0
  /\ tokens = Burst
  /\ credit = 0
  /\ run = 0
  /\ sent = 0
  /\ earned = 0
  /\ waited = 0

InFlight == {r \in Requests : stage[r] # "idle"}

-----------------------------------------------------------------------------
(* The circuit. *)

(* mutant: a circuit that is not open keeps its count *)
isCircuitOpenKeepingCount == open_for = 0 /\ UNCHANGED circuit

(* isCircuitOpen() = false.  "Half-open: reset for probe" also meets a circuit
   that never opened, because openUntil is 0 then: the count starts again. *)
isCircuitClosed ==
  /\ open_for = 0
  /\ failures' = 0
  /\ UNCHANGED <<open_for, run>>

(* A success resets the count; an open window stays open. *)
recordSuccess ==
  /\ failures' = 0
  /\ run' = 0
  /\ UNCHANGED open_for

recordFailure ==
  /\ failures' = failures + 1
  /\ run' = IF run < Threshold THEN run + 1 ELSE run
  /\ open_for' = IF failures + 1 >= Threshold THEN OpenDuration ELSE open_for

-----------------------------------------------------------------------------
(* The bucket. *)

AtMost(n, m) == IF n < m THEN n ELSE m

Refilled == AtMost(tokens + credit * Refill, Burst)

(* waitForToken with a token in the bucket: no wait *)
Take(r) ==
  /\ Refilled >= Price
  /\ tokens' = Refilled - Price
  /\ credit' = 0
  /\ earned' = earned + credit * Refill
  /\ sent' = sent + 1
  /\ stage' = [stage EXCEPT ![r] = "calling"]
  /\ UNCHANGED <<wait, waited>>

(* waitForToken with none: sleep until one would have been refilled *)
Sleep(r) ==
  /\ Refilled < Price
  /\ tokens' = Refilled
  /\ credit' = 0
  /\ earned' = earned + credit * Refill
  /\ stage' = [stage EXCEPT ![r] = "waiting"]
  /\ wait' = [wait EXCEPT ![r] = (Price - Refilled + Refill - 1) \div Refill]
  /\ UNCHANGED <<sent, waited>>

(* get() or post() up to its first await: the circuit, then the bucket.  A call
   that meets an open circuit (or privacy mode "strict") throws and changes
   nothing. *)
Start(r) ==
  /\ stage[r] = "idle"
  /\ sent < MaxSent
  /\ isCircuitClosed
  /\ Take(r) \/ Sleep(r)
  /\ UNCHANGED attempt

(* The wait is over: bucket.tokens = 1, then the token is taken.  Whatever
   other calls did to the bucket meanwhile is overwritten. *)
Wake(r) ==
  /\ stage[r] = "waiting" /\ wait[r] = 0
  /\ tokens' = 0
  /\ sent' = sent + 1
  /\ waited' = waited + 1
  /\ stage' = [stage EXCEPT ![r] = "calling"]
  /\ UNCHANGED <<attempt, wait, circuit, credit, earned>>

-----------------------------------------------------------------------------
(* The HTTP attempts.  Retries ask neither the circuit nor the bucket again. *)

Return(r) ==
  /\ stage' = [stage EXCEPT ![r] = "idle"]
  /\ attempt' = [attempt EXCEPT ![r] = 0]

Succeeds(r) ==
  /\ stage[r] = "calling"
  /\ recordSuccess
  /\ Return(r)
  /\ UNCHANGED <<wait, bucket>>

(* A 4xx other than 429 is not tried again. *)
ClientError(r) ==
  /\ stage[r] = "calling"
  /\ recordFailure
  /\ Return(r)
  /\ UNCHANGED <<wait, bucket>>

(* Any other failure: back off and try again, or give up.  Only giving up is
   recorded. *)
Fails(r) ==
  /\ stage[r] = "calling"
  /\ IF attempt[r] + 1 < MaxAttempts(r)
       THEN attempt' = [attempt EXCEPT ![r] = @ + 1] /\ UNCHANGED <<stage, circuit>>
       ELSE recordFailure /\ Return(r)
  /\ UNCHANGED <<wait, bucket>>

Tick ==
  /\ sent < MaxSent \/ open_for > 0 \/ \E r \in Requests : wait[r] > 0
  /\ credit' = AtMost(credit + 1, Burst)     \* more would not fit in the bucket
  /\ open_for' = IF open_for > 0 THEN open_for - 1 ELSE 0
  /\ wait' = [r \in Requests |-> IF wait[r] > 0 THEN wait[r] - 1 ELSE 0]
  /\ UNCHANGED <<stage, attempt, failures, run, tokens, sent, earned, waited>>

get_post(r) ==
  Start(r) \/ Wake(r) \/ Succeeds(r) \/ ClientError(r) \/ Fails(r)

(* The bound on calls is reached and all of them have returned. *)
Exhausted ==
  /\ sent >= MaxSent /\ InFlight = {} /\ open_for = 0
  /\ UNCHANGED vars

Next == (\E r \in Requests : get_post(r)) \/ Tick \/ Exhausted

(* Time passes and timers fire; servers owe nothing. *)
Spec ==
  /\ Init /\ [][Next]_vars
  /\ WF_vars(Tick)
  /\ \A r \in Requests : WF_vars(Wake(r))

-----------------------------------------------------------------------------
(* Properties *)

(* The circuit counts only what overlaps: since every call that is let in
   starts the count again, failures never exceed the calls that ran beside
   each other. *)
CountsOverlapOnly == failures + Cardinality(InFlight) <= Cardinality(Requests)

(* The bucket's books: everything let through was paid by the first burst or
   by time, but for the calls that waited.  They take a token each that nobody
   paid for, so calls that wait beside each other exceed the rate. *)
BucketBooks == sent * Price + tokens <= Burst + earned + waited * Price

(* What circuit and bucket of a domain count: overlapping calls, and calls that
   were paid for or waited. *)
GatewayBooks == CountsOverlapOnly /\ BucketBooks

(* Nobody is forgotten while it waits for a token. *)
WaitEnds == \A r \in Requests : stage[r] = "waiting" ~> stage[r] = "calling"

(* ApiGateway.ts:37: the circuit opens after FAILURE_THRESHOLD consecutive
   failures. *)
OpensAfterThreshold == run >= Threshold => open_for > 0
=============================================================================
