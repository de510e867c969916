---------------------------- MODULE EidolonGuard -----------------------------
(* packages/soul/src/eidolon/EidolonGuard.ts: the guard that approves or refuses
   what an agent is about to do, with the simulator and the mind it asks.  A
   step is what runs between two awaits.  What the soul feels, which traumas
   inhibit, what oracles and simulations say are inputs.  There is one token
   that can be bought; destroy, which only stops timers, is left out.  Time is
   in units of 15 s, so a decision is fresh (5 s) within its unit. *)
EXTENDS Integers, FiniteSets

CONSTANTS Validations, Actions, Markets, Deltas,   \* Deltas: what getCausalSignal may say
          CacheTtl,                                \* 4 in the code
          MaxNow, MaxInputs                        \* bounds: the clock; requests and outside events

VARIABLES now, snapshotTime, portfolio, nextRefresh, refreshing, refreshFailed,
          cortisolHigh, glucoseLow, since, blacklistedAt, cache,
          thinking, lastDecision, v,
          inputs      \* how many requests and outside events there were

guardVars == <<now, snapshotTime, portfolio, nextRefresh, refreshing, refreshFailed,
               cortisolHigh, glucoseLow, since, blacklistedAt, cache,
               thinking, lastDecision, v, inputs>>
snapshotVars == <<snapshotTime, portfolio, nextRefresh, refreshing, refreshFailed>>
feelings == <<cortisolHigh, glucoseLow, since>>
tokenVars == <<blacklistedAt, cache>>
mindVars == <<thinking, lastDecision>>

NoScore == [ok |-> FALSE, at |-> -CacheTtl]
NoDecision == [action |-> "none", confidence |-> -1, fresh |-> FALSE]
NoThought == <<>>
SnapshotTtl == 1       \* 15 s
SnapshotEvery == 1     \* 15 s
MaxRiskScore == 60
MinConfidence == 70
Never == MaxNow + 1

clamp(x) == IF x < 0 THEN 0 ELSE IF x > 100 THEN 100 ELSE x
isTrade(action) == action \in {"BUY", "SELL"}
intrusive(action) == action # "HOLD"
mode == IF cortisolHigh \/ glucoseLow THEN "EMERGENCY" ELSE "ZEN"

(* What DivineTransparency.explain makes of a market. *)
impact(m) ==
  [ACCUMULATING |-> 20, DUMPING |-> -25, NEUTRAL |-> 0][m.whaleFlow]
  + [LOW |-> 10, MEDIUM |-> 0, HIGH |-> -15][m.gasPrice]
  + [EUPHORIC |-> -5, FEAR |-> 10, NEUTRAL |-> 0][m.sentiment]
  + [PUMPING |-> 15, DUMPING |-> -20, RANGING |-> 0][m.priceAction]
liquidityImpact(m, action) ==
  (IF m.liquidityDepth = "THIN" THEN -10 ELSE 5) * (IF m.liquidityDepth = "THIN" /\ action = "SELL" THEN 2 ELSE 1)
adjustForAction(action, m, base) ==
  LET calm == IF action = "EMERGENCY_EXIT" /\ base < 90 THEN 90 ELSE base IN
  IF action = "SELL" /\ m.priceAction = "DUMPING" THEN (calm * 7) \div 10
  ELSE IF action = "BUY" /\ m.priceAction = "PUMPING" /\ m.sentiment = "EUPHORIC" THEN (calm * 8) \div 10
  ELSE calm
explain(m, action) ==
  LET base == 50 + impact(m) + liquidityImpact(m, action)
  IN clamp(adjustForAction(action, m, IF base < 0 THEN 0 ELSE base))

(* calculateRisk; mood is what arousal, valence and momentum add. *)
calculateRisk(m, action, mood) ==
  clamp(50 + (IF m.liquidityDepth = "THIN" THEN 20 ELSE -10)
           + [HIGH |-> 10, LOW |-> -5, MEDIUM |-> 0][m.gasPrice]
           + (IF action # "BUY" THEN 0 ELSE [DUMPING |-> 30, ACCUMULATING |-> -15, NEUTRAL |-> 0][m.whaleFlow])
           + mood)

(* A request says how much it moves: against the last portfolio snapshot a
   "large" one breaches a drawdown limit. *)
Requests == [action : Actions, size : {"invalid", "small", "large"}, tx : BOOLEAN, market : Markets]
Idle == [pc |-> "idle"]

Init ==
  /\ now = 1 /\ snapshotTime = 0 /\ portfolio = FALSE /\ nextRefresh = 1 + SnapshotEvery
  /\ refreshing = 0 /\ refreshFailed = FALSE
  /\ cortisolHigh = FALSE /\ glucoseLow = FALSE /\ since = Never /\ inputs = 0
  /\ blacklistedAt = Never /\ cache = NoScore
  /\ thinking = NoThought /\ lastDecision = NoDecision
  /\ v = [i \in Validations |-> Idle]

stale == snapshotTime > 0 /\ now - snapshotTime > SnapshotTtl

cacheFresh == cache # NoScore /\ now - cache.at < CacheTtl

(* The portfolio was never seen, or was worth nothing: no limit applies. *)
breachesInvariant(r) == r.size = "large" /\ portfolio

(* The early returns of validateAction, up to its first await. *)
refusedEarly(r, inhibited) ==
  \/ stale
  \/ isTrade(r.action) /\ r.size = "invalid"
  \/ inhibited
  \/ intrusive(r.action) /\ ~r.tx
  \/ breachesInvariant(r)
  \/ r.action = "BUY" /\ cacheFresh /\ ~cache.ok

(* A refusal leaves nothing behind that another request reads. *)
answer(i, r, yes) ==
  v' = [v EXCEPT ![i] = IF yes THEN [pc |-> "approved", action |-> r.action,
                                     startedAt |-> r.startedAt, scoredAt |-> r.scoredAt]
                        ELSE Idle]

\* Mutant: no gate on the mode.
NothingHalts(m, action) == FALSE

modeHalts(m, action) == m = "EMERGENCY" /\ action # "EMERGENCY_EXIT"

(* The gates behind the last await but one: mode, panic, confidence, risk. *)
gates(r, decision, mood) ==
  /\ ~modeHalts(r.mode, r.action)
  /\ ~cortisolHigh
  /\ decision.confidence >= MinConfidence
  /\ calculateRisk(r.market, r.action, mood) <= MaxRiskScore

(* From the market on: the mind is asked in the background, the last decision
   is used whatever it was about, and the causal bias is added to that very
   object. *)
judge(i, r) ==
  \E delta \in (IF r.action = "HOLD" THEN {0} ELSE Deltas), mood \in {0, 20} :
    LET known == lastDecision # NoDecision
        decision == [action |-> IF known THEN lastDecision.action ELSE r.action,
                     confidence |-> clamp((IF known THEN lastDecision.confidence ELSE 75) + delta),
                     fresh |-> known /\ lastDecision.fresh]
        passes == gates(r, decision, mood)
    IN /\ lastDecision' = IF known THEN decision ELSE NoDecision
       /\ thinking' = IF thinking # NoThought \/ lastDecision.fresh THEN thinking
                      ELSE <<r.market, r.action>>
       /\ IF passes /\ isTrade(r.action) /\ r.tx
          THEN v' = [v EXCEPT ![i] = [r EXCEPT !.pc = "simulating"]]
          ELSE answer(i, r, passes)

input == inputs < MaxInputs /\ inputs' = inputs + 1

validate(i, request, inhibited) ==
  /\ input /\ v[i].pc \in {"idle", "approved"}
  /\ LET r == [pc |-> "scoring", action |-> request.action, market |-> request.market, tx |-> request.tx,
               mode |-> mode, startedAt |-> now,
               scoredAt |-> IF request.action = "BUY" /\ cacheFresh THEN cache.at ELSE now]
     IN IF refusedEarly(request, inhibited) THEN answer(i, r, FALSE) /\ UNCHANGED mindVars
        ELSE IF request.action = "BUY" /\ ~cacheFresh
        THEN v' = [v EXCEPT ![i] = r] /\ UNCHANGED mindVars
        ELSE judge(i, r)
  /\ UNCHANGED <<now, snapshotVars, feelings, tokenVars>>

scoreOk(data) == data = "clean" /\ blacklistedAt = Never

(* checkToken answers; without an answer the score is that of the unknown. *)
tokenScored(i, data) ==
  /\ v[i].pc = "scoring"
  /\ LET r == [v[i] EXCEPT !.scoredAt = now] IN
     IF scoreOk(data) THEN judge(i, r) ELSE answer(i, r, FALSE) /\ UNCHANGED mindVars
  /\ UNCHANGED <<now, snapshotVars, feelings, tokenVars, inputs>>

(* simulateRiskMatrix: passes with a base run that succeeds, a footprint that
   could be read and at most 50 addresses; the guard wants at most 10. *)
simulated(i, base, footprint) ==
  /\ v[i].pc = "simulating"
  /\ answer(i, v[i], base /\ footprint = "few")
  /\ UNCHANGED <<now, snapshotVars, feelings, tokenVars, mindVars, inputs>>

mindAnswers ==
  /\ thinking # NoThought
  /\ lastDecision' = [action |-> thinking[2], confidence |-> explain(thinking[1], thinking[2]), fresh |-> TRUE]
  /\ thinking' = NoThought
  /\ UNCHANGED <<now, snapshotVars, feelings, tokenVars, v, inputs>>

mindFails ==
  /\ thinking # NoThought /\ thinking' = NoThought
  /\ UNCHANGED <<now, snapshotVars, feelings, tokenVars, lastDecision, v, inputs>>

refreshDelay == SnapshotEvery

refreshStarts ==
  /\ now = nextRefresh
  /\ nextRefresh' = now + refreshDelay /\ refreshing' = refreshing + 1
  /\ UNCHANGED <<now, snapshotTime, portfolio, refreshFailed, feelings, tokenVars, mindVars, v, inputs>>

(* updateSnapshot ends: a failure keeps the old snapshot and its time. *)
refreshEnds(ok, worth) ==
  /\ refreshing > 0 /\ refreshing' = refreshing - 1
  /\ snapshotTime' = IF ok THEN now ELSE snapshotTime
  /\ portfolio' = IF ok THEN worth ELSE portfolio
  /\ refreshFailed' = ~ok
  /\ UNCHANGED <<now, nextRefresh, feelings, tokenVars, mindVars, v, inputs>>

primed(data) ==
  /\ input /\ cache' = [ok |-> scoreOk(data), at |-> now]
  /\ UNCHANGED <<now, snapshotVars, feelings, blacklistedAt, mindVars, v>>

(* addToBlacklist: the list is saved, the cached score is not touched. *)
addToBlacklist ==
  /\ blacklistedAt = Never /\ blacklistedAt' = now
  /\ UNCHANGED <<now, snapshotVars, feelings, cache, mindVars, v, inputs>>

feels(c, g) ==
  /\ input /\ <<c, g>> # <<cortisolHigh, glucoseLow>>
  /\ cortisolHigh' = c /\ glucoseLow' = g
  /\ since' = IF ~(c \/ g) THEN Never ELSE IF mode = "EMERGENCY" THEN since ELSE now
  /\ UNCHANGED <<now, snapshotVars, tokenVars, mindVars, v>>

(* The interval timer is not late: the event loop is not blocked. *)
tick ==
  /\ now < MaxNow /\ now < nextRefresh /\ now' = now + 1
  /\ lastDecision' = [lastDecision EXCEPT !.fresh = FALSE]
  /\ UNCHANGED <<snapshotVars, feelings, tokenVars, thinking, v, inputs>>

Next ==
  \/ \E i \in Validations, r \in Requests, inhibited \in BOOLEAN : validate(i, r, inhibited)
  \/ \E i \in Validations, data \in {"clean", "rug"} : tokenScored(i, data)
  \/ \E i \in Validations, base \in BOOLEAN, f \in {"unread", "few", "beyond 10"} : simulated(i, base, f)
  \/ mindAnswers \/ mindFails \/ refreshStarts
  \/ \E ok, worth \in BOOLEAN : refreshEnds(ok, worth)
  \/ \E data \in {"clean", "rug"} : primed(data)
  \/ addToBlacklist \/ tick
  \/ \E c, g \in BOOLEAN : feels(c, g)

Spec == Init /\ [][Next]_guardVars

approved(i) == v[i].pc = "approved"

(* An agent acts in an emergency only if the emergency came after the guard
   read the mode, or was a panic that came after it judged: during the awaits
   of a token check or a simulation (EidolonGuard.ts:363, 486, 521). *)
EmergencyActsAreRaces ==
  \A i \in Validations :
    approved(i) /\ v[i].action # "EMERGENCY_EXIT" /\ mode = "EMERGENCY" => since >= v[i].startedAt

(* A purchase of a blacklisted token is approved only if the token was listed
   after its score was computed, and a score is used for CacheTtl at most
   (EidolonGuard.ts:231, 430). *)
BlacklistLagsByCache ==
  \A i \in Validations :
    approved(i) /\ v[i].action = "BUY" =>
      /\ v[i].scoredAt <= blacklistedAt
      /\ v[i].startedAt - v[i].scoredAt < CacheTtl

(* The guard goes blind only while a refresh is running, or after one failed:
   the limit on the snapshot's age leaves no slack for the refresh itself
   (EidolonGuard.ts:153, 319). *)
BlindOnlyWhileRefreshing == stale => refreshing > 0 \/ refreshFailed
=============================================================================
