-------------------------- MODULE GatewayAdmission --------------------------
(***************************************************************************)
(* The door of the gateway: what chat_completions (crates/eidolon-gateway/ *)
(* src/lib.rs) does before it asks a model.  A request is authenticated,   *)
(* its tenant_id compared with the principal, then one unit of the daily   *)
(* quota (eidolon-shared/src/quota.rs) and one token of the tenant's       *)
(* bucket (eidolon-shared/src/rate_limit.rs) are taken.                    *)
(*                                                                         *)
(* Quota and bucket have a lock each and no lock covers both.  Moreover    *)
(* each of them reads the clock BEFORE it takes its lock, so a request can *)
(* hold yesterday's day key, or a clock reading older than the one the     *)
(* bucket was last refilled with, when its turn comes.                     *)
(***************************************************************************)
EXTENDS Integers, FiniteSets

CONSTANTS
  Requests,      \* request slots
  Tenants,       \* "default" is one of them
  ApiKeys,       \* function: API key -> tenant
  JwtTenants,    \* function: token that verifies -> tenant it claims
  HasSecret,     \* a JWT secret is configured
  AllowAnonymous,
  OtherTokens,   \* tokens that are neither
  MaxPerDay,     \* max_requests_per_day
  Capacity,      \* bucket size, refill per tick and the price of a request,
  Refill,        \*   in the same unit
  Price,
  DayLength,     \* ticks in a day
  MaxTime        \* bound: the clock stops here

ASSUME AdmissionAssumption ==
  /\ IsFiniteSet(Requests)
  /\ "default" \in Tenants
  /\ ApiKeys \in [DOMAIN ApiKeys -> Tenants]
  /\ JwtTenants \in [DOMAIN JwtTenants -> Tenants]
  /\ HasSecret \in BOOLEAN
  /\ AllowAnonymous \in BOOLEAN
  /\ MaxPerDay \in Nat \ {0}
  /\ Capacity \in Nat \ {0}
  /\ Refill \in Nat \ {0}
  /\ Price \in Nat \ {0}
  /\ DayLength \in Nat \ {0}
  /\ MaxTime \in Nat

NoTenant == "none"         \* no tenant_id in the body, or nobody authenticated
Never == -1
Headers == {"missing", "malformed"} \cup DOMAIN ApiKeys \cup DOMAIN JwtTenants \cup OtherTokens
Time == 0 .. MaxTime
Days == 0 .. MaxTime \div DayLength
DayOf(t) == t \div DayLength

VARIABLES
  now,        \* the wall clock and the monotonic clock
  step,       \* per request: where in the handler it is
  principal,  \* per request: the tenant its credentials belong to
  tenant,     \* per request: the tenant it is charged to
  stamp,      \* per request: the clock reading it took before the next lock
  counters,   \* quota: requests per tenant and day key
  tokens,     \* bucket: what is left
  refilled,   \* bucket: last_refill, Never before the first request
  \* history
  own,        \* requests per principal and day key that passed the quota
  onDay,      \* requests per principal that passed the quota on that real day
  taken,      \* tokens ever taken per tenant
  born,       \* when the tenant's bucket was created
  rewound,    \* time by which last_refill was ever moved back
  promise     \* when the last refusal said to come back, Never after a grant

vars == <<now, step, principal, tenant, stamp, counters, tokens, refilled,
          own, onDay, taken, born, rewound, promise>>
quota == <<counters, own, onDay>>
bucket == <<tokens, refilled, taken, born, rewound, promise>>

TypeOK ==
  /\ now \in Time
  /\ step \in [Requests -> {"out", "quota", "clock", "bucket", "inside"}]
  /\ principal \in [Requests -> Tenants \cup {NoTenant}]
  /\ tenant \in [Requests -> Tenants \cup {NoTenant}]
  /\ stamp \in [Requests -> Time]
  /\ counters \in [Tenants -> [Days -> 0 .. MaxPerDay]]
  /\ tokens \in [Tenants -> 0 .. Capacity]
  /\ refilled \in [Tenants -> Time \cup {Never}]
  /\ own \in [Tenants -> [Days -> Nat]]
  /\ onDay \in [Tenants -> [Days -> Nat]]
  /\ taken \in [Tenants -> Nat]
  /\ born \in [Tenants -> Time]
  /\ rewound \in [Tenants -> Nat]
  /\ promise \in [Tenants -> Nat \cup {Never}]

Init ==
  /\ now = 0
  /\ step = [r \in Requests |-> "out"]
  /\ principal = [r \in Requests |-> NoTenant]
  /\ tenant = [r \in Requests |-> NoTenant]
  /\ stamp = [r \in Requests |-> 0]
  /\ counters = [t \in Tenants |-> [d \in Days |-> 0]]
  /\ tokens = [t \in Tenants |-> Capacity]
  /\ refilled = [t \in Tenants |-> Never]
  /\ own = [t \in Tenants |-> [d \in Days |-> 0]]
  /\ onDay = [t \in Tenants |-> [d \in Days |-> 0]]
  /\ taken = [t \in Tenants |-> 0]
  /\ born = [t \in Tenants |-> 0]
  /\ rewound = [t \in Tenants |-> 0]
  /\ promise = [t \in Tenants |-> Never]

-----------------------------------------------------------------------------
(* authenticate_bearer: the tenant the header proves, or NoTenant. *)
authenticate_bearer(header) ==
  CASE header \in {"missing", "malformed"} ->
         IF AllowAnonymous THEN "default" ELSE NoTenant
    [] header \in DOMAIN ApiKeys -> ApiKeys[header]
    [] OTHER -> IF HasSecret /\ header \in DOMAIN JwtTenants
                  THEN JwtTenants[header] ELSE NoTenant

(* mutant: the body's tenant_id is believed *)
TenantBelieved(who, explicit) ==
  IF explicit = NoTenant THEN who ELSE explicit

(* The tenant to charge, NoTenant when the request is turned away (403). *)
ChargedTenant(who, explicit) ==
  IF explicit \in {NoTenant, who} THEN who ELSE NoTenant

(* The request leaves the handler: an error response or, later, its answer. *)
Leave(r) ==
  /\ step' = [step EXCEPT ![r] = "out"]
  /\ principal' = [principal EXCEPT ![r] = NoTenant]
  /\ tenant' = [tenant EXCEPT ![r] = NoTenant]
  /\ stamp' = [stamp EXCEPT ![r] = 0]

(* A request arrives; one that passes authentication computes its day key. *)
Arrive(r, header, explicit) ==
  LET who == authenticate_bearer(header)
      charged == ChargedTenant(who, explicit)
  IN  /\ step[r] = "out"
      /\ who # NoTenant /\ charged # NoTenant
      /\ step' = [step EXCEPT ![r] = "quota"]
      /\ principal' = [principal EXCEPT ![r] = who]
      /\ tenant' = [tenant EXCEPT ![r] = charged]
      /\ stamp' = [stamp EXCEPT ![r] = now]
      /\ UNCHANGED <<now, quota, bucket>>

(* TenantQuotaManager::consume, inside its lock *)
Consume(r) ==
  LET t == tenant[r]
      d == DayOf(stamp[r])
  IN  /\ step[r] = "quota"
      /\ IF counters[t][d] >= MaxPerDay
           THEN Leave(r) /\ UNCHANGED quota
           ELSE /\ counters' = [counters EXCEPT ![t][d] = @ + 1]
                /\ own' = [own EXCEPT ![principal[r]][d] = @ + 1]
                /\ onDay' = [onDay EXCEPT ![principal[r]][DayOf(now)] = @ + 1]
                /\ step' = [step EXCEPT ![r] = "clock"]
                /\ UNCHANGED <<principal, tenant, stamp>>
      /\ UNCHANGED <<now, bucket>>

(* check_and_consume reads the clock before it locks the buckets. *)
ReadClock(r) ==
  /\ step[r] = "clock"
  /\ step' = [step EXCEPT ![r] = "bucket"]
  /\ stamp' = [stamp EXCEPT ![r] = now]
  /\ UNCHANGED <<now, principal, tenant, quota, bucket>>

AtLeastZero(n) == IF n > 0 THEN n ELSE 0
AtMost(n, m) == IF n < m THEN n ELSE m

(* What the tenant's bucket holds at clock reading t; a reading older than
   last_refill credits nothing (duration_since saturates at zero). *)
Replenished(who, t) ==
  IF refilled[who] = Never THEN Capacity
  ELSE AtMost(tokens[who] + Refill * AtLeastZero(t - refilled[who]), Capacity)

(* mutant: rounded down *)
RetryAfterRoundedDown(n) == (Price - n) \div Refill

(* ticks until a bucket holding n affords a request: needed / refill, rounded up *)
RetryAfter(n) == (Price - n + Refill - 1) \div Refill

(* mutant: last_refill moves only when a request is let in *)
CheckWithoutRefillMark(r) ==
  LET t == tenant[r]
      s == stamp[r]
      held == Replenished(t, s)
  IN  /\ step[r] = "bucket"
      /\ born' = [born EXCEPT ![t] = IF refilled[t] = Never THEN s ELSE @]
      /\ rewound' = rewound
      /\ IF held >= Price
           THEN /\ tokens' = [tokens EXCEPT ![t] = held - Price]
                /\ refilled' = [refilled EXCEPT ![t] = s]
                /\ taken' = [taken EXCEPT ![t] = @ + Price]
                /\ promise' = [promise EXCEPT ![t] = Never]
                /\ step' = [step EXCEPT ![r] = "inside"]
                /\ UNCHANGED <<principal, tenant, stamp>>
           ELSE /\ tokens' = [tokens EXCEPT ![t] = held]
                /\ promise' = [promise EXCEPT ![t] = s + RetryAfter(held)]
                /\ refilled' = refilled
                /\ UNCHANGED taken
                /\ Leave(r)
      /\ UNCHANGED <<now, quota>>

(* TenantRateLimiter::check_and_consume, inside its lock *)
CheckAndConsume(r) ==
  LET t == tenant[r]
      s == stamp[r]
      held == Replenished(t, s)
  IN  /\ step[r] = "bucket"
      /\ refilled' = [refilled EXCEPT ![t] = s]
      /\ born' = [born EXCEPT ![t] = IF refilled[t] = Never THEN s ELSE @]
      /\ rewound' = [rewound EXCEPT ![t] = @ + AtLeastZero(refilled[t] - s)]
      /\ IF held >= Price
           THEN /\ tokens' = [tokens EXCEPT ![t] = held - Price]
                /\ taken' = [taken EXCEPT ![t] = @ + Price]
                /\ promise' = [promise EXCEPT ![t] = Never]
                /\ step' = [step EXCEPT ![r] = "inside"]
                /\ UNCHANGED <<principal, tenant, stamp>>
           ELSE /\ tokens' = [tokens EXCEPT ![t] = held]
                /\ promise' = [promise EXCEPT ![t] = s + RetryAfter(held)]
                /\ UNCHANGED taken
                /\ Leave(r)
      /\ UNCHANGED <<now, quota>>

(* The answer, an error of both providers or a client that hung up: neither
   the quota unit nor the token is given back. *)
Finish(r) ==
  /\ step[r] = "inside"
  /\ Leave(r)
  /\ UNCHANGED <<now, quota, bucket>>

Tick ==
  /\ now < MaxTime
  /\ now' = now + 1
  /\ UNCHANGED <<step, principal, tenant, stamp, quota, bucket>>

(* chat_completions up to the call of the runtime *)
chat_completions(r) ==
  \/ \E header \in Headers, explicit \in Tenants \cup {NoTenant} : Arrive(r, header, explicit)
  \/ Consume(r) \/ ReadClock(r) \/ CheckAndConsume(r) \/ Finish(r)

Next == (\E r \in Requests : chat_completions(r)) \/ Tick

Spec == Init /\ [][Next]_vars

-----------------------------------------------------------------------------
(* Properties *)

(* README.md:47: tenants are isolated.  A request is refused for the daily
   quota only when the holder of its own credentials used the quota up,
   whatever other tenants sent. *)
QuotaRefusalIsOwn ==
  [][\A r \in Requests :
       (step[r] = "quota" /\ step'[r] = "out")
         => own[principal[r]][DayOf(stamp[r])] = MaxPerDay]_vars

(* Around midnight requests still carry yesterday's key.  On one real day a
   tenant passes the quota at most once more per request that straddles it. *)
DailyOvershoot ==
  \A t \in Tenants, d \in Days : onDay[t][d] <= MaxPerDay + Cardinality(Requests)

(* Tokens are conserved: what a tenant took and still holds was paid by the
   initial bucket and by the time last_refill moved forward.  A clock reading
   older than last_refill moves it back, and exactly that span is paid twice. *)
BucketConserves ==
  \A t \in Tenants : refilled[t] # Never =>
    taken[t] + tokens[t] <= Capacity + Refill * (refilled[t] - born[t] + rewound[t])

(* retry_after_ms is honest: a request whose clock reading is at or past the
   time the last refusal named is let in, unless another took the token. *)
RetryAfterIsHonest ==
  [][\A r \in Requests :
       (step[r] = "bucket" /\ step'[r] = "out")
         => ~(promise[tenant[r]] # Never /\ stamp[r] >= promise[tenant[r]])]_vars
=============================================================================
