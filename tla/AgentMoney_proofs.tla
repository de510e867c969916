------------------------- MODULE AgentMoney_proofs --------------------------
(* What stands between the agent and its money: the guard, whatever happens to
   its mode, its snapshot and its lists while validations wait; the scans of
   tokens and the verdicts on them; the allowances that swaps and approvals
   leave; the badges of the contract; and the ledgers it keeps, of the ether of
   its batches and of the calls of its tools.  For any number of concurrent
   calls, tokens, holders and senders. *)
EXTENDS MC_AgentWorld, FiniteSetTheorems, TLAPS

(* The guard.  Never is later than any time the clock shows, a score is not
   older than the entry in the blacklist that contradicts it, and the last
   refresh that ended well ended after the last one started. *)
GuardTimes ==
  /\ guardNow \in Int /\ guardNow < Guard!Never
  /\ since \in Int /\ blacklistedAt \in Int
  /\ scores.at \in Int /\ scores.at <= guardNow
  /\ scores.ok => scores.at <= blacklistedAt
RefreshTimes ==
  /\ snapshotTime \in Int /\ nextRefresh \in Int /\ refreshing \in Nat
  /\ guardNow <= nextRefresh /\ nextRefresh <= guardNow + 1
  /\ refreshing = 0 /\ ~refreshFailed /\ snapshotTime > 0 => nextRefresh <= snapshotTime + 1

(* What is known of a request when it comes to be judged, and after it passed. *)
Started(r) == r.startedAt \in Int /\ r.startedAt <= guardNow
LateEmergency(r) == Guard!mode = "EMERGENCY" => since >= r.startedAt
Scored(r) ==
  /\ r.scoredAt \in Int /\ r.scoredAt <= guardNow
  /\ r.scoredAt <= blacklistedAt /\ r.startedAt - r.scoredAt < GuardTtl
Ready(r) ==
  /\ Started(r)
  /\ r.mode # "EMERGENCY" => LateEmergency(r)
  /\ r.action = "BUY" => Scored(r)
Passed(r) ==
  /\ Started(r)
  /\ r.action # "EMERGENCY_EXIT" => LateEmergency(r)
  /\ r.action = "BUY" => Scored(r)
Sane(r) ==
  /\ r.pc = "scoring" => Started(r) /\ (r.mode # "EMERGENCY" => LateEmergency(r))
  /\ r.pc \in {"simulating", "approved"} => Passed(r)
RequestsSane == DOMAIN v = Validations /\ \A i \in Validations : Sane(v[i])

GuardInv == GuardTimes /\ RefreshTimes /\ RequestsSane

LEMMA AnswerKeeps ==
  ASSUME NEW i, NEW r, NEW yes \in BOOLEAN, RequestsSane, yes => Passed(r),
         Guard!answer(i, r, yes),
         UNCHANGED <<guardNow, since, blacklistedAt, cortisolHigh, glucoseLow>>
  PROVE  RequestsSane'
  <1>1. DOMAIN v' = Validations
    BY DEF Guard!answer, RequestsSane
  <1>2. ASSUME NEW j \in Validations PROVE Sane(v[j])'
    <2>1. CASE v'[j] = v[j]
      <3>1. Sane(v[j])
        BY DEF RequestsSane
      <3> QED
        BY <2>1, <3>1 DEF Sane, Passed, Started, LateEmergency, Scored, Guard!mode
    <2>2. CASE v'[j] = Guard!Idle
      BY <2>2 DEF Guard!Idle, Sane
    <2>3. CASE yes /\ v'[j] = [pc |-> "approved", action |-> r.action,
                               startedAt |-> r.startedAt, scoredAt |-> r.scoredAt]
      <3>1. Passed(r)
        BY <2>3
      <3>2. /\ v'[j].pc = "approved" /\ v'[j].action = r.action
            /\ v'[j].startedAt = r.startedAt /\ v'[j].scoredAt = r.scoredAt
        BY <2>3
      <3> QED
        BY <3>1, <3>2 DEF Sane, Passed, Started, LateEmergency, Scored, Guard!mode
    <2> QED
      BY <2>1, <2>2, <2>3 DEF Guard!answer, RequestsSane
  <1> QED
    BY <1>1, <1>2 DEF RequestsSane

LEMMA JudgeKeeps ==
  ASSUME NEW i, NEW r, RequestsSane, Ready(r),
         Guard!judge(i, r),
         UNCHANGED <<guardNow, since, blacklistedAt, cortisolHigh, glucoseLow>>
  PROVE  RequestsSane'
  <1>1. PICK passes \in BOOLEAN :
          /\ passes => ~Guard!modeHalts(r.mode, r.action)
          /\ \/ Guard!answer(i, r, passes)
             \/ passes /\ v' = [v EXCEPT ![i] = [r EXCEPT !.pc = "simulating"]]
    BY DEF Guard!judge, Guard!gates
  <1>2. passes => Passed(r)
    BY <1>1 DEF Guard!modeHalts, Ready, Passed
  <1>3. CASE Guard!answer(i, r, passes)
    BY <1>2, <1>3, AnswerKeeps
  <1>4. CASE passes /\ v' = [v EXCEPT ![i] = [r EXCEPT !.pc = "simulating"]]
    <2>1. DOMAIN v' = Validations
      BY <1>4 DEF RequestsSane
    <2>2. ASSUME NEW j \in Validations PROVE Sane(v[j])'
      <3>1. CASE v'[j] = v[j]
        <4>1. Sane(v[j])
          BY DEF RequestsSane
        <4> QED
          BY <3>1, <4>1 DEF Sane, Passed, Started, LateEmergency, Scored, Guard!mode
      <3>2. CASE v'[j] = [r EXCEPT !.pc = "simulating"]
        <4>1. Passed(r)
          BY <1>2, <1>4
        <4>2. /\ v'[j].pc # "scoring" /\ v'[j].action = r.action
              /\ v'[j].startedAt = r.startedAt /\ v'[j].scoredAt = r.scoredAt
          BY <3>2
        <4> QED
          BY <4>1, <4>2 DEF Sane, Passed, Started, LateEmergency, Scored, Guard!mode
      <3> QED
        BY <1>4, <3>1, <3>2 DEF RequestsSane
    <2> QED
      BY <2>1, <2>2 DEF RequestsSane
  <1> QED
    BY <1>1, <1>3, <1>4

LEMMA ValidateKeeps ==
  ASSUME GuardInv, NEW i \in Validations, NEW request \in Guard!Requests, NEW inhibited \in BOOLEAN,
         Guard!validate(i, request, inhibited)
  PROVE  GuardInv'
  <1> DEFINE r == [pc |-> "scoring", action |-> request.action, market |-> request.market, tx |-> request.tx,
                   mode |-> Guard!mode, startedAt |-> guardNow,
                   scoredAt |-> IF request.action = "BUY" /\ Guard!cacheFresh THEN scores.at ELSE guardNow]
  <1>1. UNCHANGED <<guardNow, Guard!snapshotVars, cortisolHigh, glucoseLow, since, blacklistedAt, scores>>
    BY DEF Guard!validate, Guard!feelings, Guard!tokenVars
  <1>2. GuardTimes' /\ RefreshTimes'
    BY <1>1 DEF GuardInv, GuardTimes, RefreshTimes, Guard!snapshotVars, Guard!Never
  <1>3. /\ r.pc = "scoring" /\ r.action = request.action /\ r.mode = Guard!mode /\ r.startedAt = guardNow
        /\ r.scoredAt = IF request.action = "BUY" /\ Guard!cacheFresh THEN scores.at ELSE guardNow
    OBVIOUS
  <1>4. \/ Guard!answer(i, r, FALSE)
        \/ v' = [v EXCEPT ![i] = r]
        \/ /\ ~Guard!refusedEarly(request, inhibited)
           /\ ~(request.action = "BUY" /\ ~Guard!cacheFresh)
           /\ Guard!judge(i, r)
    BY DEF Guard!validate
  <1> HIDE DEF r
  <1>5. Started(r) /\ (r.mode # "EMERGENCY" => LateEmergency(r))
    BY <1>3 DEF Started, LateEmergency, GuardInv, GuardTimes
  <1>6. CASE Guard!answer(i, r, FALSE)
    BY <1>1, <1>2, <1>6, AnswerKeeps DEF GuardInv
  <1>7. CASE v' = [v EXCEPT ![i] = r]
    <2>1. DOMAIN v' = Validations
      BY <1>7 DEF GuardInv, RequestsSane
    <2>2. ASSUME NEW j \in Validations PROVE Sane(v[j])'
      <3>1. CASE v'[j] = v[j]
        <4>1. Sane(v[j])
          BY DEF GuardInv, RequestsSane
        <4> QED
          BY <1>1, <3>1, <4>1 DEF Sane, Passed, Started, LateEmergency, Scored, Guard!mode
      <3>2. CASE v'[j] = r
        BY <1>1, <1>3, <1>5, <3>2 DEF Sane, Passed, Started, LateEmergency, Guard!mode
      <3> QED
        BY <1>7, <3>1, <3>2 DEF GuardInv, RequestsSane
    <2> QED
      BY <1>2, <2>1, <2>2 DEF GuardInv, RequestsSane
  <1>8. CASE /\ ~Guard!refusedEarly(request, inhibited)
             /\ ~(request.action = "BUY" /\ ~Guard!cacheFresh)
             /\ Guard!judge(i, r)
    <2>1. r.action = "BUY" => Scored(r)
      BY <1>3, <1>8 DEF Guard!refusedEarly, Guard!cacheFresh, Scored, GuardInv, GuardTimes
    <2> QED
      BY <1>1, <1>2, <1>5, <1>8, <2>1, JudgeKeeps DEF GuardInv, Ready
  <1> QED
    BY <1>4, <1>6, <1>7, <1>8

LEMMA TokenScoredKeeps ==
  ASSUME GuardInv, NEW i \in Validations, NEW data, Guard!tokenScored(i, data)
  PROVE  GuardInv'
  <1> DEFINE r == [v[i] EXCEPT !.scoredAt = guardNow]
  <1>1. UNCHANGED <<guardNow, Guard!snapshotVars, cortisolHigh, glucoseLow, since, blacklistedAt, scores>>
    BY DEF Guard!tokenScored, Guard!feelings, Guard!tokenVars
  <1>2. GuardTimes' /\ RefreshTimes'
    BY <1>1 DEF GuardInv, GuardTimes, RefreshTimes, Guard!snapshotVars, Guard!Never
  <1>3. \/ Guard!scoreOk(data) /\ Guard!judge(i, r)
        \/ Guard!answer(i, r, FALSE)
    BY DEF Guard!tokenScored
  <1>4. Started(v[i]) /\ (v[i].mode # "EMERGENCY" => LateEmergency(v[i]))
    BY DEF Guard!tokenScored, GuardInv, RequestsSane, Sane
  <1>5. /\ r.mode = v[i].mode /\ r.startedAt = v[i].startedAt
    OBVIOUS
  <1>6. r.scoredAt = guardNow
    OBVIOUS
  <1> HIDE DEF r
  <1>7. CASE Guard!scoreOk(data) /\ Guard!judge(i, r)
    <2>1. Started(r) /\ (r.mode # "EMERGENCY" => LateEmergency(r))
      BY <1>4, <1>5 DEF Started, LateEmergency
    <2>2. Scored(r)
      BY <1>5, <1>6, <1>7, <2>1, GuardAssumption DEF Guard!scoreOk, Scored, Started, GuardInv, GuardTimes
    <2> QED
      BY <1>1, <1>2, <1>7, <2>1, <2>2, JudgeKeeps DEF GuardInv, Ready
  <1>8. CASE Guard!answer(i, r, FALSE)
    BY <1>1, <1>2, <1>8, AnswerKeeps DEF GuardInv
  <1> QED
    BY <1>3, <1>7, <1>8

LEMMA SimulatedKeeps ==
  ASSUME GuardInv, NEW i \in Validations, NEW base \in BOOLEAN, NEW footprint,
         Guard!simulated(i, base, footprint)
  PROVE  GuardInv'
  <1>1. UNCHANGED <<guardNow, Guard!snapshotVars, cortisolHigh, glucoseLow, since, blacklistedAt, scores>>
    BY DEF Guard!simulated, Guard!feelings, Guard!tokenVars
  <1>2. GuardTimes' /\ RefreshTimes'
    BY <1>1 DEF GuardInv, GuardTimes, RefreshTimes, Guard!snapshotVars, Guard!Never
  <1>3. Passed(v[i])
    BY DEF Guard!simulated, GuardInv, RequestsSane, Sane
  <1>4. Guard!answer(i, v[i], base /\ footprint = "few") /\ (base /\ footprint = "few") \in BOOLEAN
    BY DEF Guard!simulated
  <1> QED
    BY <1>1, <1>2, <1>3, <1>4, AnswerKeeps DEF GuardInv

(* Where no request moves, and no time it depends on goes back. *)
LEMMA RequestsStay ==
  ASSUME GuardTimes, RequestsSane, UNCHANGED v, guardNow' \in Int, guardNow' >= guardNow,
         \/ UNCHANGED <<cortisolHigh, glucoseLow, since>>
         \/ ~(Guard!mode = "EMERGENCY")'
         \/ Guard!mode # "EMERGENCY" /\ since' = guardNow
         \/ Guard!mode = "EMERGENCY" /\ since' = since,
         blacklistedAt' = blacklistedAt \/ blacklistedAt' = guardNow
  PROVE  RequestsSane'
  <1>1. DOMAIN v' = Validations
    BY DEF RequestsSane
  <1>2. ASSUME NEW j \in Validations PROVE Sane(v[j])'
    <2>1. Sane(v[j]) /\ v'[j] = v[j]
      BY DEF RequestsSane
    <2>2. Started(v[j]) => Started(v[j])'
      BY <2>1 DEF Started, GuardTimes
    <2>3. Started(v[j]) /\ LateEmergency(v[j]) => LateEmergency(v[j])'
      BY <2>1 DEF Started, LateEmergency, Guard!mode, GuardTimes
    <2>4. Scored(v[j]) => Scored(v[j])'
      BY <2>1 DEF Scored, GuardTimes
    <2>5. /\ (v[j].mode)' = v[j].mode /\ (v[j].pc)' = v[j].pc /\ (v[j].action)' = v[j].action
      BY <2>1
    <2> QED
      BY <2>1, <2>2, <2>3, <2>4, <2>5 DEF Sane, Passed
  <1> QED
    BY <1>1, <1>2 DEF RequestsSane

LEMMA OutsideKeeps ==
  ASSUME GuardInv,
         \/ Guard!mindAnswers \/ Guard!mindFails \/ Guard!refreshStarts \/ Guard!addToBlacklist \/ Guard!tick
         \/ \E ok, worth \in BOOLEAN : Guard!refreshEnds(ok, worth)
         \/ \E data \in {"clean", "rug"} : Guard!primed(data)
         \/ \E c, g \in BOOLEAN : Guard!feels(c, g)
         \/ UNCHANGED Guard!guardVars
  PROVE  GuardInv'
  <1> USE DEF GuardInv, Guard!snapshotVars, Guard!feelings, Guard!tokenVars, Guard!mindVars
  <1>1. CASE Guard!mindAnswers \/ Guard!mindFails \/ UNCHANGED Guard!guardVars
    <2>1. UNCHANGED <<guardNow, Guard!snapshotVars, Guard!feelings, Guard!tokenVars, v>>
      BY <1>1 DEF Guard!mindAnswers, Guard!mindFails, Guard!guardVars
    <2>2. GuardTimes' /\ RefreshTimes'
      BY <2>1 DEF GuardTimes, RefreshTimes, Guard!Never
    <2> QED
      BY <2>1, <2>2, RequestsStay DEF GuardTimes
  <1>2. CASE Guard!refreshStarts
    <2>1. GuardTimes' /\ RefreshTimes'
      BY <1>2 DEF Guard!refreshStarts, Guard!refreshDelay, Guard!SnapshotEvery, GuardTimes, RefreshTimes, Guard!Never
    <2> QED
      BY <1>2, <2>1, RequestsStay DEF Guard!refreshStarts, GuardTimes
  <1>3. CASE \E ok, worth \in BOOLEAN : Guard!refreshEnds(ok, worth)
    <2> PICK ok, worth \in BOOLEAN : Guard!refreshEnds(ok, worth)
      BY <1>3
    <2>1. GuardTimes'
      BY DEF Guard!refreshEnds, GuardTimes, Guard!Never
    <2>2. ASSUME ok PROVE RefreshTimes'
      <3>1. snapshotTime' = guardNow /\ nextRefresh' = nextRefresh /\ refreshing' = refreshing - 1 /\ refreshing > 0 /\ guardNow' = guardNow
        BY <2>2 DEF Guard!refreshEnds
      <3> QED
        BY <3>1 DEF RefreshTimes, GuardTimes
    <2>3. ASSUME ~ok PROVE RefreshTimes'
      <3>1. snapshotTime' = snapshotTime /\ nextRefresh' = nextRefresh /\ refreshing' = refreshing - 1 /\ refreshing > 0 /\ guardNow' = guardNow
        BY <2>3 DEF Guard!refreshEnds
      <3>2. refreshFailed'
        BY <2>3 DEF Guard!refreshEnds
      <3> QED
        BY <3>1, <3>2 DEF RefreshTimes, GuardTimes
    <2>4. UNCHANGED <<guardNow, Guard!feelings, Guard!tokenVars, v>>
      BY DEF Guard!refreshEnds
    <2> QED
      BY <2>1, <2>2, <2>3, <2>4, RequestsStay DEF GuardTimes
  <1>4. CASE \E data \in {"clean", "rug"} : Guard!primed(data)
    <2> PICK data \in {"clean", "rug"} : Guard!primed(data)
      BY <1>4
    <2>1. UNCHANGED <<guardNow, Guard!snapshotVars, Guard!feelings, blacklistedAt, v>>
      BY DEF Guard!primed
    <2>2. scores'.at = guardNow /\ (scores'.ok => blacklistedAt = Guard!Never)
      BY DEF Guard!primed, Guard!scoreOk
    <2>3. GuardTimes'
      BY <2>1, <2>2 DEF GuardTimes, Guard!Never
    <2>4. RefreshTimes'
      BY <2>1 DEF RefreshTimes
    <2> QED
      BY <2>1, <2>3, <2>4, RequestsStay DEF GuardTimes
  <1>5. CASE Guard!addToBlacklist
    <2>1. GuardTimes' /\ RefreshTimes'
      BY <1>5 DEF Guard!addToBlacklist, GuardTimes, RefreshTimes, Guard!Never
    <2> QED
      BY <1>5, <2>1, RequestsStay DEF Guard!addToBlacklist, GuardTimes
  <1>6. CASE Guard!tick
    <2>1. GuardTimes' /\ RefreshTimes'
      BY <1>6, GuardAssumption DEF Guard!tick, GuardTimes, RefreshTimes, Guard!Never
    <2> QED
      BY <1>6, <2>1, RequestsStay DEF Guard!tick, GuardTimes
  <1>7. CASE \E c, g \in BOOLEAN : Guard!feels(c, g)
    <2> PICK c, g \in BOOLEAN : Guard!feels(c, g)
      BY <1>7
    <2>1. /\ UNCHANGED <<guardNow, Guard!snapshotVars, Guard!tokenVars, v>>
          /\ since' = IF ~(c \/ g) THEN Guard!Never ELSE IF Guard!mode = "EMERGENCY" THEN since ELSE guardNow
          /\ cortisolHigh' = c /\ glucoseLow' = g
      BY DEF Guard!feels
    <2>2. GuardTimes' /\ RefreshTimes'
      BY <2>1, GuardAssumption DEF GuardTimes, RefreshTimes, Guard!Never
    <2>3. \/ ~(Guard!mode = "EMERGENCY")'
          \/ Guard!mode # "EMERGENCY" /\ since' = guardNow
          \/ Guard!mode = "EMERGENCY" /\ since' = since
      BY <2>1 DEF Guard!mode
    <2> QED
      BY <2>1, <2>2, <2>3, RequestsStay DEF GuardTimes
  <1> QED
    BY <1>1, <1>2, <1>3, <1>4, <1>5, <1>6, <1>7

LEMMA GuardKeeps ==
  ASSUME GuardInv, [Guard!Next]_Guard!guardVars
  PROVE  GuardInv'
  BY ValidateKeeps, TokenScoredKeeps, SimulatedKeeps, OutsideKeeps DEF Guard!Next

(* In the composition the guard makes steps of its own, or none. *)
LEMMA GuardSteps == [MCNext]_MCVars => [Guard!Next]_Guard!guardVars
  BY DEF MCNext, SoulNext, OutsideNext, HelperNext, MCVars, soulVars, guardVars, Guard!guardVars

(* Whatever the awaits of a validation let in, an agent acts in an emergency
   only if it began after the guard had read the mode, and buys a blacklisted
   token only on a score that is older than the entry; the guard is blind only
   while a refresh runs or after one failed, with any number of requests side by
   side (EidolonGuard.ts:319-560). *)
THEOREM GuardHolds == MCSpec => []GuardSound
  <1>1. MCInit => GuardInv
    <2> SUFFICES ASSUME MCInit PROVE GuardInv
      OBVIOUS
    <2>1. Guard!Init
      BY DEF MCInit
    <2>2. GuardTimes /\ RefreshTimes
      BY <2>1, GuardAssumption DEF Guard!Init, GuardTimes, RefreshTimes, Guard!Never, Guard!NoScore, Guard!SnapshotEvery
    <2>3. RequestsSane
      BY <2>1 DEF Guard!Init, RequestsSane, Sane, Guard!Idle
    <2> QED
      BY <2>2, <2>3 DEF GuardInv
  <1>2. GuardInv /\ [MCNext]_MCVars => GuardInv'
    BY GuardKeeps, GuardSteps
  <1>3. GuardInv => GuardSound
    <2> SUFFICES ASSUME GuardInv PROVE Guard!EmergencyActsAreRaces /\ Guard!BlacklistLagsByCache /\ Guard!BlindOnlyWhileRefreshing
      BY DEF GuardSound
    <2>1. ASSUME NEW i \in Validations, Guard!approved(i) PROVE Passed(v[i])
      BY <2>1 DEF GuardInv, RequestsSane, Sane, Guard!approved
    <2>2. Guard!EmergencyActsAreRaces /\ Guard!BlacklistLagsByCache
      BY <2>1 DEF Passed, LateEmergency, Scored, Guard!EmergencyActsAreRaces, Guard!BlacklistLagsByCache
    <2>3. Guard!BlindOnlyWhileRefreshing
      BY DEF GuardInv, GuardTimes, RefreshTimes, Guard!BlindOnlyWhileRefreshing, Guard!stale, Guard!SnapshotTtl
    <2> QED
      BY <2>2, <2>3
  <1> QED
    BY <1>1, <1>2, <1>3, PTL DEF MCSpec

-----------------------------------------------------------------------------
(* The token scans.  A clean verdict, under way or cached, was begun before its
   token turned, and a scan takes MaxScan at most. *)
Risks == {"honeypot", "degraded", "blind", "tax", "closed", "unlisted"} \cup UNION Findings
Verdicts == [token : Tokens, timestamp : Int, risks : SUBSET Risks]

ScanTyping ==
  /\ scanNow \in 0..ScanClock
  /\ reported \in [Tokens -> SUBSET Risks]
  /\ turned \in [Tokens -> 0..Security!Never]
  /\ scanCache \in Seq(Verdicts)

Listed == \A t \in Tokens : turned[t] # Security!Never => "honeypot" \in reported[t]

Judged(s) ==
  /\ s.at # "idle" => s.token \in Tokens /\ scanNow - s.began <= MaxScan
  /\ s.risks \in SUBSET Risks /\ s.began \in 0..scanNow
  /\ s.at \in {"idle", "honeypot", "chain", "goplus", "finish"}
  /\ s.at \in {"chain", "goplus", "finish"} /\ Security!Clean(s.risks) => turned[s.token] >= s.began

Kept(e) == e.timestamp <= scanNow /\ (Security!Clean(e.risks) => turned[e.token] >= e.timestamp - MaxScan)

ScanInv ==
  /\ ScanTyping /\ Listed
  /\ DOMAIN scan = Scans /\ \A s \in Scans : Judged(scan[s])
  /\ \A i \in DOMAIN scanCache : Kept(scanCache[i])

(* What is left of the cache was in it. *)
LEMMA WithoutKeeps ==
  ASSUME ScanTyping, NEW t
  PROVE  /\ Security!Without(t) \in Seq(Verdicts)
         /\ \A i \in DOMAIN Security!Without(t) : \E j \in DOMAIN scanCache : Security!Without(t)[i] = scanCache[j]
  <1>1. scanCache \in Seq(Verdicts)
    BY DEF ScanTyping
  <1>2. CASE ~Security!has(t)
    BY <1>1, <1>2 DEF Security!Without
  <1>3. CASE Security!has(t)
    <2> DEFINE p == Security!place(t)
    <2>1. p \in 1..Len(scanCache)
      BY <1>1, <1>3 DEF Security!has, Security!place
    <2> HIDE DEF p
    <2> DEFINE front == SubSeq(scanCache, 1, p - 1)  back == SubSeq(scanCache, p + 1, Len(scanCache))
    <2>2. /\ front \in Seq(Verdicts) /\ Len(front) = p - 1
          /\ \A i \in 1..(p - 1) : front[i] = scanCache[i]
      BY <1>1, <2>1
    <2>3. /\ back \in Seq(Verdicts) /\ Len(back) = Len(scanCache) - p
          /\ \A i \in 1..(Len(scanCache) - p) : back[i] = scanCache[p + i]
      BY <1>1, <2>1
    <2>4. Security!Without(t) = front \o back
      BY <1>3 DEF Security!Without, Security!RemoveAt, p
    <2> HIDE DEF front, back
    <2>5. /\ front \o back \in Seq(Verdicts) /\ Len(front \o back) = Len(scanCache) - 1
          /\ \A i \in 1..(Len(scanCache) - 1) : (front \o back)[i] = IF i < p THEN scanCache[i] ELSE scanCache[i + 1]
      <3>1. Len(scanCache) \in Nat
        BY <1>1
      <3>2. front \o back \in Seq(Verdicts) /\ Len(front \o back) = Len(scanCache) - 1
        <4>1. front \o back \in Seq(Verdicts) /\ Len(front \o back) = Len(front) + Len(back)
          BY <2>2, <2>3
        <4> QED
          BY <2>1, <2>2, <2>3, <3>1, <4>1
      <3>3. ASSUME NEW i \in 1..(Len(scanCache) - 1)
            PROVE  (front \o back)[i] = IF i < p THEN scanCache[i] ELSE scanCache[i + 1]
        <4>1. (front \o back)[i] = IF i <= Len(front) THEN front[i] ELSE back[i - Len(front)]
          BY <2>1, <2>2, <2>3, <3>1
        <4>2. CASE i < p
          BY <2>1, <2>2, <3>1, <4>1, <4>2
        <4>3. CASE ~(i < p)
          <5>1. (i - Len(front)) \in 1..(Len(scanCache) - p) /\ p + (i - Len(front)) = i + 1
            BY <2>1, <2>2, <3>1, <4>3
          <5> QED
            BY <2>1, <2>2, <2>3, <3>1, <4>1, <4>3, <5>1
        <4> QED
          BY <4>2, <4>3
      <3> QED
        BY <3>2, <3>3
    <2>6. \A i \in 1..(Len(scanCache) - 1) : \E j \in 1..Len(scanCache) : (front \o back)[i] = scanCache[j]
      BY <1>1, <2>1, <2>5
    <2>7. DOMAIN (front \o back) = 1..(Len(scanCache) - 1) /\ DOMAIN scanCache = 1..Len(scanCache)
      BY <1>1, <2>5
    <2> QED
      BY <2>4, <2>5, <2>6, <2>7
  <1> QED
    BY <1>2, <1>3

(* A cache of entries that are kept, or are new and Kept, is kept. *)
LEMMA CacheKeeps ==
  ASSUME ScanInv, NEW c \in Seq(Verdicts), scanCache' = c, scanNow' = scanNow, turned' = turned,
         \A i \in DOMAIN c : Kept(c[i]) \/ \E j \in DOMAIN scanCache : c[i] = scanCache[j]
  PROVE  \A i \in DOMAIN scanCache' : Kept(scanCache[i])'
  <1>1. ASSUME NEW i \in DOMAIN c PROVE Kept(scanCache[i])'
    BY <1>1 DEF Kept, ScanInv
  <1> QED
    BY <1>1

(* A step that sets one scan. *)
LEMMA ScanSet ==
  ASSUME ScanInv, NEW s \in Scans, NEW r, scan' = [scan EXCEPT ![s] = r], Judged(r),
         scanNow' = scanNow, turned' = turned
  PROVE  DOMAIN scan' = Scans /\ \A q \in Scans : Judged(scan[q])'
  <1>1. ASSUME NEW q \in Scans PROVE Judged(scan[q])'
    <2>1. scan'[q] = r \/ scan'[q] = scan[q]
      BY DEF ScanInv
    <2> QED
      BY <2>1 DEF ScanInv, Judged
  <1> QED
    BY <1>1 DEF ScanInv

LEMMA StepKeeps ==
  ASSUME ScanInv, NEW s \in Scans, NEW from, NEW to \in {"chain", "goplus", "finish"}, NEW found \in SUBSET Risks,
         from # "idle", Security!Step(s, from, to, found),
         from = "honeypot" /\ Security!Clean(found) => "honeypot" \notin reported[scan[s].token],
         from \in {"honeypot", "chain", "goplus"}
  PROVE  ScanInv'
  <1> DEFINE r == [scan[s] EXCEPT !.at = to, !.risks = @ \cup found]
  <1>1. /\ scan' = [scan EXCEPT ![s] = r] /\ UNCHANGED <<scanNow, reported, turned, scanCache>>
        /\ scan[s].at = from
    BY DEF Security!Step
  <1>2. Judged(scan[s])
    BY DEF ScanInv
  <1>3. Judged(r)
    <2>1. r.at = to /\ r.risks = scan[s].risks \cup found /\ r.token = scan[s].token /\ r.began = scan[s].began
      BY <1>2 DEF Judged
    <2>2. ASSUME Security!Clean(r.risks) PROVE turned[r.token] >= r.began
      <3>1. Security!Clean(scan[s].risks) /\ Security!Clean(found)
        BY <2>1, <2>2 DEF Security!Clean
      <3>2. CASE from = "honeypot"
        <4>1. turned[r.token] = Security!Never
          BY <1>1, <1>2, <2>1, <3>1, <3>2 DEF ScanInv, Listed, Judged
        <4> QED
          BY <1>2, <2>1, <4>1, ScanAssumption DEF Judged, ScanInv, ScanTyping, Security!Never
      <3>3. CASE from # "honeypot"
        BY <1>1, <1>2, <2>1, <3>1, <3>3 DEF Judged
      <3> QED
        BY <3>2, <3>3
    <2> QED
      BY <1>1, <1>2, <2>1, <2>2 DEF Judged
  <1> QED
    BY <1>1, <1>3, ScanSet DEF ScanInv, ScanTyping, Listed, Kept

LEMMA StartsKeeps ==
  ASSUME ScanInv, NEW s \in Scans, NEW t \in Tokens, Security!starts(s, t)
  PROVE  ScanInv'
  <1> DEFINE r == [at |-> "honeypot", token |-> t, began |-> scanNow, risks |-> {}]
  <1>1. UNCHANGED <<scanNow, reported, turned>>
    BY DEF Security!starts
  <1>2. CASE UNCHANGED <<scanCache, scan>>
    BY <1>1, <1>2 DEF ScanInv, ScanTyping, Listed, Judged, Kept
  <1>3. CASE scanCache' = Security!Without(t) /\ scan' = [scan EXCEPT ![s] = r]
    <2>1. Judged(r)
      BY ScanAssumption DEF Judged, ScanInv, ScanTyping
    <2>2. DOMAIN scan' = Scans /\ \A q \in Scans : Judged(scan[q])'
      BY <1>1, <1>3, <2>1, ScanSet
    <2>3. scanCache' \in Seq(Verdicts) /\ \A i \in DOMAIN scanCache' : Kept(scanCache[i])'
      BY <1>1, <1>3, CacheKeeps, WithoutKeeps DEF ScanInv
    <2> QED
      BY <1>1, <2>2, <2>3 DEF ScanInv, ScanTyping, Listed
  <1> QED
    BY <1>2, <1>3 DEF Security!starts, Security!getCachedScan

LEMMA AppendIsOld ==
  ASSUME NEW S, NEW q \in Seq(S), NEW x \in S
  PROVE  /\ Append(q, x) \in Seq(S)
         /\ \A i \in DOMAIN Append(q, x) : Append(q, x)[i] = x \/ (i \in DOMAIN q /\ Append(q, x)[i] = q[i])
  OBVIOUS

LEMMA FinishKeeps ==
  ASSUME ScanInv, NEW s \in Scans, Security!finish(s)
  PROVE  ScanInv'
  <1> DEFINE e == [token |-> scan[s].token, timestamp |-> scanNow, risks |-> scan[s].risks]
             w == Security!Without(e.token)
  <1>0. Len(scanCache) \in Nat /\ CacheSize \in Nat \ {0}
    BY ScanAssumption DEF ScanInv, ScanTyping
  <1>1. /\ UNCHANGED <<scanNow, reported, turned>> /\ scan[s].at = "finish"
        /\ scan' = [scan EXCEPT ![s] = Security!Idle]
        /\ scanCache' = Append(w, e) \/ (scanCache' = Append(Tail(scanCache), e) /\ Len(scanCache) >= CacheSize)
    BY <1>0 DEF Security!finish, Security!setCachedScan
  <1>2. Judged(scan[s])
    BY DEF ScanInv
  <1>3. e \in Verdicts /\ Kept(e)
    <2>1. e.token \in Tokens /\ e.risks \in SUBSET Risks /\ scanNow \in Int /\ turned[e.token] \in Int
      BY <1>1, <1>2, ScanAssumption DEF Judged, ScanInv, ScanTyping, Security!Never
    <2>2. scan[s].began \in Int /\ scanNow - scan[s].began <= MaxScan
      BY <1>1, <1>2, <2>1 DEF Judged
    <2>3. Security!Clean(e.risks) => turned[e.token] >= scan[s].began
      BY <1>1, <1>2 DEF Judged
    <2> QED
      BY <2>1, <2>2, <2>3, ScanAssumption DEF Kept, Verdicts
  <1>4. Judged(Security!Idle)
    BY ScanAssumption DEF Judged, Security!Idle, ScanInv, ScanTyping
  <1>5. DOMAIN scan' = Scans /\ \A q \in Scans : Judged(scan[q])'
    BY <1>1, <1>4, ScanSet
  <1>6. w \in Seq(Verdicts) /\ \A i \in DOMAIN w : \E j \in DOMAIN scanCache : w[i] = scanCache[j]
    BY WithoutKeeps DEF ScanInv
  <1> HIDE DEF e, w
  <1>7. CASE scanCache' = Append(w, e)
    <2>1. /\ Append(w, e) \in Seq(Verdicts)
          /\ \A i \in DOMAIN Append(w, e) : Append(w, e)[i] = e \/ (i \in DOMAIN w /\ Append(w, e)[i] = w[i])
      BY <1>3, <1>6, AppendIsOld
    <2>2. \A i \in DOMAIN scanCache' : Kept(scanCache[i])'
      BY <1>1, <1>3, <1>6, <1>7, <2>1, CacheKeeps
    <2> QED
      BY <1>1, <1>5, <1>7, <2>1, <2>2 DEF ScanInv, ScanTyping, Listed
  <1>8. CASE scanCache' = Append(Tail(scanCache), e) /\ Len(scanCache) >= CacheSize
    <2> DEFINE rest == Tail(scanCache)
    <2>1. scanCache \in Seq(Verdicts) /\ Len(scanCache) > 0
      BY <1>8, ScanAssumption DEF ScanInv, ScanTyping
    <2>2. /\ rest \in Seq(Verdicts) /\ Len(rest) = Len(scanCache) - 1
          /\ \A i \in 1..Len(rest) : rest[i] = scanCache[i + 1]
      BY <2>1
    <2>3. \A i \in DOMAIN rest : \E j \in DOMAIN scanCache : rest[i] = scanCache[j]
      BY <2>1, <2>2
    <2> HIDE DEF rest
    <2>4. /\ Append(rest, e) \in Seq(Verdicts)
          /\ \A i \in DOMAIN Append(rest, e) : Append(rest, e)[i] = e \/ (i \in DOMAIN rest /\ Append(rest, e)[i] = rest[i])
      BY <1>3, <2>2, AppendIsOld
    <2>5. scanCache' = Append(rest, e)
      BY <1>8 DEF rest
    <2>6. \A i \in DOMAIN scanCache' : Kept(scanCache[i])'
      BY <1>1, <1>3, <2>3, <2>4, <2>5, CacheKeeps
    <2> QED
      BY <1>1, <1>5, <2>4, <2>5, <2>6 DEF ScanInv, ScanTyping, Listed
  <1> QED
    BY <1>1, <1>7, <1>8

LEMMA ScanKeeps ==
  ASSUME ScanInv, [Security!Next]_Security!scanVars
  PROVE  ScanInv'
  <1>1. ASSUME NEW s \in Scans, Security!checkHoneypotGoPlus(s) PROVE ScanInv'
    <2>1. scan[s].at = "honeypot" /\ scan[s].token \in Tokens /\ reported[scan[s].token] \in SUBSET Risks
      BY <1>1 DEF ScanInv, ScanTyping, Judged, Security!checkHoneypotGoPlus, Security!Step
    <2>2. CASE Security!Step(s, "honeypot", "chain", reported[scan[s].token] \intersect {"honeypot"})
      BY <2>1, <2>2, StepKeeps DEF Security!Clean
    <2>3. CASE Security!Step(s, "honeypot", "chain", {"degraded"})
      BY <2>3, StepKeeps DEF Security!Clean, Risks
    <2> QED
      BY <1>1, <2>2, <2>3 DEF Security!checkHoneypotGoPlus
  <1>2. ASSUME NEW s \in Scans, Security!chainChecks(s) PROVE ScanInv'
    <2>1. PICK found \in Findings : Security!Step(s, "chain", "goplus", found)
      BY <1>2 DEF Security!chainChecks
    <2>2. found \in SUBSET Risks
      BY DEF Risks
    <2> QED
      BY <2>1, <2>2, StepKeeps
  <1>3. ASSUME NEW s \in Scans, Security!getGoPlusSecurityData(s) PROVE ScanInv'
    <2>1. PICK found \in SUBSET Risks : Security!Step(s, "goplus", "finish", found)
      <3>1. scan[s].token \in Tokens /\ reported[scan[s].token] \in SUBSET Risks
        BY <1>3 DEF ScanInv, ScanTyping, Judged, Security!getGoPlusSecurityData, Security!Step
      <3> QED
        BY <1>3, <3>1 DEF Security!getGoPlusSecurityData, Risks
    <2> QED
      BY <2>1, StepKeeps
  <1>4. ASSUME NEW t \in Tokens, Security!turns(t) PROVE ScanInv'
    <2>1. /\ UNCHANGED <<scanNow, scanCache, scan>>
          /\ reported' = [reported EXCEPT ![t] = @ \cup {"honeypot"}]
          /\ turned' = [turned EXCEPT ![t] = scanNow]
      BY <1>4 DEF Security!turns
    <2>2. scanNow \in 0..Security!Never /\ \A q \in Tokens : turned'[q] = turned[q] \/ turned'[q] = scanNow
      BY <2>1, ScanAssumption DEF ScanInv, ScanTyping, Security!Never
    <2>3. ScanTyping' /\ Listed'
      BY <2>1, <2>2 DEF ScanInv, ScanTyping, Listed, Risks
    <2>4. \A s \in Scans : Judged(scan[s])'
      BY <2>1, <2>2 DEF ScanInv, ScanTyping, Judged
    <2>5. \A i \in DOMAIN scanCache : Kept(scanCache[i])'
      <3>1. ASSUME NEW i \in DOMAIN scanCache PROVE Kept(scanCache[i])'
        <4>1. Kept(scanCache[i]) /\ scanCache[i] \in Verdicts
          BY DEF ScanInv, ScanTyping
        <4>2. scanCache[i].token \in Tokens /\ scanCache[i].timestamp \in Int
          BY <4>1 DEF Verdicts
        <4> QED
          BY <2>1, <2>2, <4>1, <4>2, ScanAssumption DEF Kept
      <3> QED
        BY <3>1
    <2> QED
      BY <2>1, <2>3, <2>4, <2>5 DEF ScanInv
  <1>5. CASE Security!tick
    <2>1. /\ scanNow' = scanNow + 1 /\ scanNow < ScanClock /\ UNCHANGED <<reported, turned, scanCache, scan>>
          /\ \A s \in Scans : scan[s].at # "idle" => scanNow - scan[s].began < MaxScan
      BY <1>5 DEF Security!tick
    <2>2. ScanTyping' /\ Listed'
      BY <2>1, ScanAssumption DEF ScanInv, ScanTyping, Listed
    <2>3. \A s \in Scans : Judged(scan[s])'
      BY <2>1, ScanAssumption DEF ScanInv, ScanTyping, Judged
    <2>4. \A i \in DOMAIN scanCache : Kept(scanCache[i])'
      <3>1. ASSUME NEW i \in DOMAIN scanCache PROVE Kept(scanCache[i])'
        <4>1. Kept(scanCache[i]) /\ scanCache[i] \in Verdicts
          BY DEF ScanInv, ScanTyping
        <4>2. scanCache[i].timestamp \in Int
          BY <4>1 DEF Verdicts
        <4> QED
          BY <2>1, <4>1, <4>2, ScanAssumption DEF Kept, ScanInv, ScanTyping
      <3> QED
        BY <3>1
    <2> QED
      BY <2>1, <2>2, <2>3, <2>4 DEF ScanInv
  <1>6. CASE UNCHANGED Security!scanVars
    BY <1>6 DEF Security!scanVars, ScanInv, ScanTyping, Listed, Judged, Kept
  <1> QED
    BY <1>1, <1>2, <1>3, <1>4, <1>5, <1>6, StartsKeeps, FinishKeeps DEF Security!Next, Security!scanContract

LEMMA ScanSteps == [MCNext]_MCVars => [Security!Next]_Security!scanVars
  BY DEF MCNext, SoulNext, OutsideNext, HelperNext, MCVars, outsideVars, scanVars, Security!scanVars

(* With any number of scans side by side, any cache and any services, a clean
   verdict is served no longer than its time to live and one scan after the
   token was found out (security.ts:53-197). *)
THEOREM CleanStaysFresh == MCSpec => []CleanIsFresh
  <1>1. MCInit => ScanInv
    <2> SUFFICES ASSUME MCInit PROVE ScanInv
      OBVIOUS
    <2>1. Security!Init
      BY DEF MCInit
    <2>2. ScanTyping /\ Listed
      BY <2>1, ScanAssumption DEF Security!Init, ScanTyping, Listed, Security!Never, Risks
    <2>3. \A s \in Scans : Judged(scan[s])
      BY <2>1, ScanAssumption DEF Security!Init, Judged, Security!Idle
    <2> QED
      BY <2>1, <2>2, <2>3 DEF Security!Init, ScanInv
  <1>2. ScanInv /\ [MCNext]_MCVars => ScanInv'
    BY ScanKeeps, ScanSteps
  <1>3. ScanInv => CleanIsFresh
    <2> SUFFICES ASSUME ScanInv PROVE Security!CleanIsFresh
      BY DEF CleanIsFresh
    <2>1. ASSUME NEW s \in Scans, scan[s].at = "finish", Security!Clean(scan[s].risks)
          PROVE  turned[scan[s].token] >= scanNow - MaxScan
      <3>1. Judged(scan[s])
        BY DEF ScanInv
      <3>2. scan[s].token \in Tokens /\ scan[s].began \in Int /\ scanNow - scan[s].began <= MaxScan
        BY <2>1, <3>1 DEF Judged
      <3>3. turned[scan[s].token] >= scan[s].began
        BY <2>1, <3>1 DEF Judged
      <3> QED
        BY <3>2, <3>3, ScanAssumption DEF ScanInv, ScanTyping, Security!Never
    <2>2. ASSUME NEW i \in DOMAIN scanCache, Security!Clean(scanCache[i].risks),
                 scanNow - scanCache[i].timestamp <= ScanTtl
          PROVE  turned[scanCache[i].token] >= scanNow - ScanTtl - MaxScan
      <3>1. Kept(scanCache[i]) /\ scanCache[i] \in Verdicts
        BY DEF ScanInv, ScanTyping
      <3>2. scanCache[i].token \in Tokens /\ scanCache[i].timestamp \in Int
        BY <3>1 DEF Verdicts
      <3> QED
        BY <2>2, <3>1, <3>2, ScanAssumption DEF Kept, ScanInv, ScanTyping, Security!Never
    <2> QED
      BY <2>1, <2>2 DEF Security!CleanIsFresh
  <1> QED
    BY <1>1, <1>2, <1>3, PTL DEF MCSpec

-----------------------------------------------------------------------------
(* The verdict on a token.  Every step of a report adds a flag, raises a tax,
   loosens the liquidity or lists the token; each term of the points follows. *)
Report ==
  /\ flags \subseteq Rug!Flags /\ buyTax \in Nat /\ sellTax \in Nat
  /\ liquidity \in {"locked", "unknown", "open"}

Sum ==
  100 - Rug!Points(flags) - Rug!TaxPenalty(buyTax) - Rug!TaxPenalty(sellTax)
    + Rug!LiquidityPoints[liquidity] + (IF "source" \in lists THEN 10 ELSE 0)
    + (IF {"closed", "owned"} \intersect flags = {} THEN 5 ELSE 0)

(* The same for the stand-in. *)
Over(tax) == IF tax > 10 /\ tax <= 100 THEN 15 ELSE 0
MockSum ==
  65 + (IF "closed" \notin flags THEN 15 ELSE 0) + (IF "owned" \notin flags THEN 10 ELSE 0)
     + (CASE liquidity = "locked" -> 10 [] liquidity = "open" -> -20 [] OTHER -> 0)
     - Over(buyTax) - Over(sellTax)

LEMMA PointsCount ==
  ASSUME NEW f, NEW g, f \subseteq g
  PROVE  /\ Rug!Points(f) \in Int /\ Rug!Points(g) \in Int
         /\ Rug!Points(f) <= Rug!Points(g)
  <1> DEFINE of(s, p) == IF p \in s THEN Rug!Penalty[p] ELSE 0
  <1>1. ASSUME NEW p \in DOMAIN Rug!Penalty
        PROVE  of(f, p) \in Int /\ of(g, p) \in Int /\ of(f, p) <= of(g, p)
    <2>1. Rug!Penalty[p] \in Nat
      BY DEF Rug!Penalty
    <2> QED
      BY <2>1
  <1>2. DOMAIN Rug!Penalty = {"same_creator", "cannot_buy", "proxy", "mintable", "closed", "owned"}
    BY DEF Rug!Penalty
  <1>3. \A s \in {f, g} : Rug!Points(s) =
          of(s, "same_creator") + of(s, "cannot_buy") + of(s, "proxy") + of(s, "mintable") + of(s, "closed") + of(s, "owned")
    BY DEF Rug!Points
  <1> HIDE DEF of
  <1> QED
    BY <1>1, <1>2, <1>3

(* What a step does to a report that no list has decided. *)
LEMMA ReportWorsens ==
  ASSUME Report, Rug!taxed \/ Rug!drained \/ \E f \in Rug!Flags : Rug!flagged(f)
  PROVE  /\ Report' /\ lists' = lists /\ flags \subseteq flags'
         /\ buyTax <= buyTax' /\ sellTax <= sellTax'
         /\ Rug!LiquidityPoints[liquidity'] <= Rug!LiquidityPoints[liquidity]
         /\ liquidity = "open" => liquidity' = "open"
         /\ liquidity = "unknown" => liquidity' # "locked"
  <1>1. CASE Rug!taxed
    BY <1>1, TaxesAssumption DEF Report, Rug!taxed, Rug!LiquidityPoints
  <1>2. CASE Rug!drained
    BY <1>2 DEF Report, Rug!drained, Rug!LiquidityPoints
  <1>3. CASE \E f \in Rug!Flags : Rug!flagged(f)
    BY <1>3 DEF Report, Rug!flagged, Rug!LiquidityPoints
  <1> QED
    BY <1>1, <1>2, <1>3

LEMMA SumsAreInts ==
  ASSUME Report
  PROVE  Sum \in Int /\ MockSum \in Int
  <1>1. Rug!Points(flags) \in Int
    BY PointsCount
  <1>2. Sum \in Int
    BY <1>1 DEF Report, Sum, Rug!TaxPenalty, Rug!LiquidityPoints
  <1>3. MockSum \in Int
    BY DEF Report, MockSum, Over
  <1> QED
    BY <1>2, <1>3

LEMMA SumFalls ==
  ASSUME Report, Report', lists' = lists, flags \subseteq flags', buyTax <= buyTax', sellTax <= sellTax',
         Rug!LiquidityPoints[liquidity'] <= Rug!LiquidityPoints[liquidity]
  PROVE  Sum' <= Sum
  <1>1. /\ Rug!Points(flags) \in Int /\ Rug!Points(flags') \in Int
        /\ Rug!Points(flags) <= Rug!Points(flags')
    BY PointsCount
  <1>2. /\ Rug!TaxPenalty(buyTax) <= Rug!TaxPenalty(buyTax') /\ Rug!TaxPenalty(sellTax) <= Rug!TaxPenalty(sellTax')
        /\ {Rug!TaxPenalty(buyTax), Rug!TaxPenalty(buyTax'), Rug!TaxPenalty(sellTax), Rug!TaxPenalty(sellTax')} \subseteq Int
    <2>1. ASSUME NEW t \in Nat, NEW u \in Nat, t <= u
          PROVE  {Rug!TaxPenalty(t), Rug!TaxPenalty(u)} \subseteq Int /\ Rug!TaxPenalty(t) <= Rug!TaxPenalty(u)
      BY <2>1 DEF Rug!TaxPenalty
    <2> QED
      BY <2>1 DEF Report
  <1>3. Rug!LiquidityPoints[liquidity] \in Int /\ Rug!LiquidityPoints[liquidity'] \in Int
    BY DEF Report, Rug!LiquidityPoints
  <1>4. {"closed", "owned"} \intersect flags' = {} => {"closed", "owned"} \intersect flags = {}
    OBVIOUS
  <1> DEFINE bonus == IF "source" \in lists THEN 10 ELSE 0
             clean == IF {"closed", "owned"} \intersect flags = {} THEN 5 ELSE 0
             cleanNext == IF {"closed", "owned"} \intersect flags' = {} THEN 5 ELSE 0
  <1>5. bonus \in Int /\ clean \in Int /\ cleanNext \in Int /\ cleanNext <= clean
    BY <1>4
  <1>6. Sum = 100 - Rug!Points(flags) - Rug!TaxPenalty(buyTax) - Rug!TaxPenalty(sellTax)
                + Rug!LiquidityPoints[liquidity] + bonus + clean
    BY DEF Sum
  <1>7. Sum' = 100 - Rug!Points(flags') - Rug!TaxPenalty(buyTax') - Rug!TaxPenalty(sellTax')
                + Rug!LiquidityPoints[liquidity'] + bonus + cleanNext
    BY DEF Sum, Rug!Points, Rug!TaxPenalty
  <1> HIDE DEF bonus, clean, cleanNext
  <1> QED
    BY <1>1, <1>2, <1>3, <1>5, <1>6, <1>7

LEMMA MockSumFalls ==
  ASSUME Report, Report', flags \subseteq flags', buyTax <= buyTax', sellTax <= sellTax',
         buyTax' <= 100, sellTax' <= 100, liquidity = "open" => liquidity' = "open",
         liquidity = "unknown" => liquidity' # "locked"
  PROVE  MockSum' <= MockSum
  <1>1. Over(buyTax) <= Over(buyTax)' /\ Over(sellTax) <= Over(sellTax)'
        /\ {Over(buyTax), Over(buyTax)', Over(sellTax), Over(sellTax)'} \subseteq Int
    BY DEF Report, Over
  <1> DEFINE l == CASE liquidity = "locked" -> 10 [] liquidity = "open" -> -20 [] OTHER -> 0
             m == CASE liquidity' = "locked" -> 10 [] liquidity' = "open" -> -20 [] OTHER -> 0
             a == (IF "closed" \notin flags THEN 15 ELSE 0)
             b == (IF "owned" \notin flags THEN 10 ELSE 0)
             c == (IF "closed" \notin flags' THEN 15 ELSE 0)
             d == (IF "owned" \notin flags' THEN 10 ELSE 0)
  <1>2. m <= l /\ l \in Int /\ m \in Int
    BY DEF Report
  <1>3. c <= a /\ d <= b /\ {a, b, c, d} \subseteq Int
    OBVIOUS
  <1>4. MockSum = 65 + a + b + l - Over(buyTax) - Over(sellTax)
    BY DEF MockSum
  <1>5. MockSum' = 65 + c + d + m - Over(buyTax)' - Over(sellTax)'
    BY DEF MockSum
  <1> HIDE DEF l, m, a, b, c, d
  <1> QED
    BY <1>1, <1>2, <1>3, <1>4, <1>5

LEMMA Clamps ==
  ASSUME NEW m \in Int, NEW n \in Int
  PROVE  /\ Rug!Clamp(n) \in 0..100 /\ (n <= m => Rug!Clamp(n) <= Rug!Clamp(m))
  BY DEF Rug!Clamp

(* The verdicts over the sums. *)
Passes == "blacklist" \notin lists /\
  \/ "whitelist" \in lists
  \/ /\ flags \intersect Rug!Fatal = {} /\ buyTax <= 20 /\ sellTax <= 20
     /\ "closed" \notin flags /\ Rug!Clamp(Sum) >= 50
MockPasses ==
  \/ "whitelist" \in lists
  \/ "blacklist" \notin lists /\ "honeypot" \notin flags /\ "closed" \notin flags /\ Rug!Clamp(MockSum) >= 50

LEMMA PassesIsOk ==
  ASSUME Report PROVE (Rug!scoreOk(Rug!compute_score) <=> Passes) /\ (Rug!scoreOk(Rug!compute_score_mock) <=> MockPasses)
  <1>1. Sum \in Int /\ MockSum \in Int
    BY SumsAreInts
  <1>2. Rug!Clamp(Sum) \in 0..100 /\ Rug!Clamp(MockSum) \in 0..100
    BY <1>1, Clamps
  <1>3. Rug!compute_score =
          IF "blacklist" \in lists THEN Rug!Verdict(0, TRUE, FALSE)
          ELSE IF "whitelist" \in lists THEN Rug!Verdict(100, FALSE, TRUE)
          ELSE IF flags \intersect Rug!Fatal # {} THEN Rug!Verdict(0, TRUE, FALSE)
          ELSE IF buyTax > 100 \/ sellTax > 100 THEN Rug!Verdict(0, FALSE, "closed" \notin flags)
          ELSE IF buyTax > 20 \/ sellTax > 20 THEN Rug!Verdict(10, FALSE, "closed" \notin flags)
          ELSE Rug!Verdict(Rug!Clamp(Sum), FALSE, "closed" \notin flags)
    BY DEF Rug!compute_score, Sum
  <1>4. Rug!compute_score_mock =
          IF "whitelist" \in lists THEN Rug!Verdict(100, FALSE, TRUE)
          ELSE IF "blacklist" \in lists \/ "honeypot" \in flags THEN Rug!Verdict(0, TRUE, FALSE)
          ELSE Rug!Verdict(Rug!Clamp(MockSum), FALSE, "closed" \notin flags)
    BY DEF Rug!compute_score_mock, MockSum, Over
  <1>5. /\ ~Rug!scoreOk(Rug!Verdict(0, TRUE, FALSE)) /\ Rug!scoreOk(Rug!Verdict(100, FALSE, TRUE))
        /\ \A n : Rug!scoreOk(Rug!Verdict(n, FALSE, "closed" \notin flags)) <=> "closed" \notin flags /\ n >= 50
    <2>1. ASSUME NEW n, NEW h \in BOOLEAN, NEW w \in BOOLEAN
          PROVE  Rug!scoreOk(Rug!Verdict(n, h, w)) <=> ~h /\ w /\ n >= 50
      BY <2>1 DEF Rug!scoreOk, Rug!Verdict
    <2>2. ~Rug!scoreOk(Rug!Verdict(0, TRUE, FALSE))
      BY <2>1
    <2>3. 100 >= 50 /\ ("closed" \notin flags) \in BOOLEAN
      OBVIOUS
    <2>4. Rug!scoreOk(Rug!Verdict(100, FALSE, TRUE))
      BY <2>1, <2>3
    <2>5. ASSUME NEW n
          PROVE  Rug!scoreOk(Rug!Verdict(n, FALSE, "closed" \notin flags)) <=> "closed" \notin flags /\ n >= 50
      BY <2>1, <2>3
    <2> QED
      BY <2>2, <2>4, <2>5
  <1>6. Rug!scoreOk(Rug!compute_score) <=> Passes
    <2>1. buyTax \in Nat /\ sellTax \in Nat
      BY DEF Report
    <2>2. CASE "blacklist" \in lists
      BY <1>3, <1>5, <2>2 DEF Passes
    <2>3. CASE "blacklist" \notin lists /\ "whitelist" \in lists
      BY <1>3, <1>5, <2>3 DEF Passes
    <2>4. CASE "blacklist" \notin lists /\ "whitelist" \notin lists /\ flags \intersect Rug!Fatal # {}
      BY <1>3, <1>5, <2>4 DEF Passes
    <2>5. CASE "blacklist" \notin lists /\ "whitelist" \notin lists /\ flags \intersect Rug!Fatal = {}
      <3>1. CASE buyTax > 100 \/ sellTax > 100
        <4>1. ~(0 >= 50) /\ ~(buyTax <= 20 /\ sellTax <= 20)
          BY <2>1, <3>1
        <4>2. Rug!compute_score = Rug!Verdict(0, FALSE, "closed" \notin flags)
          BY <1>3, <2>5, <3>1
        <4> QED
          BY <1>5, <2>5, <4>1, <4>2 DEF Passes
      <3>2. CASE ~(buyTax > 100 \/ sellTax > 100) /\ (buyTax > 20 \/ sellTax > 20)
        <4>1. ~(10 >= 50) /\ ~(buyTax <= 20 /\ sellTax <= 20)
          BY <2>1, <3>2
        <4>2. Rug!compute_score = Rug!Verdict(10, FALSE, "closed" \notin flags)
          BY <1>3, <2>5, <3>2
        <4> QED
          BY <1>5, <2>5, <4>1, <4>2 DEF Passes
      <3>3. CASE ~(buyTax > 100 \/ sellTax > 100) /\ ~(buyTax > 20 \/ sellTax > 20)
        <4>1. buyTax <= 20 /\ sellTax <= 20
          BY <2>1, <3>3
        <4>2. Rug!compute_score = Rug!Verdict(Rug!Clamp(Sum), FALSE, "closed" \notin flags)
          BY <1>3, <2>5, <3>3
        <4> QED
          BY <1>5, <2>5, <4>1, <4>2 DEF Passes
      <3> QED
        BY <3>1, <3>2, <3>3
    <2> QED
      BY <2>2, <2>3, <2>4, <2>5
  <1>7. Rug!scoreOk(Rug!compute_score_mock) <=> MockPasses
    <2>1. CASE "whitelist" \in lists
      BY <1>4, <1>5, <2>1 DEF MockPasses
    <2>2. CASE "whitelist" \notin lists /\ ("blacklist" \in lists \/ "honeypot" \in flags)
      BY <1>4, <1>5, <2>2 DEF MockPasses
    <2>3. CASE "whitelist" \notin lists /\ ~("blacklist" \in lists \/ "honeypot" \in flags)
      <3>1. Rug!compute_score_mock = Rug!Verdict(Rug!Clamp(MockSum), FALSE, "closed" \notin flags)
        BY <1>4, <2>3
      <3> QED
        BY <1>5, <2>3, <3>1 DEF MockPasses
    <2> QED
      BY <2>1, <2>2, <2>3
  <1> QED
    BY <1>6, <1>7

(* Neither implementation lets through a report that has got worse. *)
LEMMA ReportStep ==
  ASSUME Report, Rug!Next
  PROVE  Report' /\ Rug!worsens
  <1>1. CASE Rug!listed
    <2>1. Report'
      BY <1>1 DEF Rug!listed, Report
    <2>2. ~Passes' /\ (MockPasses' => MockPasses)
      BY <1>1 DEF Rug!listed, Passes, MockPasses
    <2>3. Rug!compute_score'.score = 0
      BY <1>1 DEF Rug!listed, Rug!compute_score, Rug!Verdict
    <2>4. Rug!compute_score.score \in Nat
      <3>1. Rug!Clamp(Sum) \in 0..100
        BY SumsAreInts, Clamps
      <3> QED
        BY <3>1 DEF Sum, Rug!compute_score, Rug!Verdict
    <2>5. (Rug!scoreOk(Rug!compute_score)' <=> Passes') /\ (Rug!scoreOk(Rug!compute_score_mock)' <=> MockPasses')
      BY <2>1, PassesIsOk, PTL
    <2> QED
      BY <2>1, <2>2, <2>3, <2>4, <2>5, PassesIsOk DEF Rug!worsens
  <1>2. CASE Rug!taxed \/ Rug!drained \/ \E f \in Rug!Flags : Rug!flagged(f)
    <2>1. /\ Report' /\ lists' = lists /\ flags \subseteq flags'
          /\ buyTax <= buyTax' /\ sellTax <= sellTax'
          /\ Rug!LiquidityPoints[liquidity'] <= Rug!LiquidityPoints[liquidity]
          /\ liquidity = "open" => liquidity' = "open"
          /\ liquidity = "unknown" => liquidity' # "locked"
      BY <1>2, ReportWorsens
    <2>2. Sum' <= Sum /\ Sum \in Int /\ Sum' \in Int /\ MockSum \in Int /\ MockSum' \in Int
      <3>1. Sum' <= Sum
        BY <2>1, SumFalls
      <3>2. (Sum \in Int /\ MockSum \in Int)'
        BY <2>1, SumsAreInts, PTL
      <3> QED
        BY <3>1, <3>2, SumsAreInts
    <2>3. Rug!Clamp(Sum') <= Rug!Clamp(Sum) /\ Rug!Clamp(Sum) \in 0..100 /\ Rug!Clamp(Sum') \in 0..100
      BY <2>2, Clamps
    <2>4. Rug!Clamp(Sum)' = Rug!Clamp(Sum') /\ Rug!Clamp(MockSum)' = Rug!Clamp(MockSum')
      BY DEF Rug!Clamp
    <2>5. Passes' => Passes
      BY <2>1, <2>3, <2>4 DEF Passes, Report
    <2>6. buyTax' <= 100 /\ sellTax' <= 100 /\ MockPasses' => MockPasses
      <3>1. ASSUME buyTax' <= 100, sellTax' <= 100 PROVE Rug!Clamp(MockSum') <= Rug!Clamp(MockSum)
        <4>1. MockSum' <= MockSum
          BY <2>1, <3>1, MockSumFalls
        <4> QED
          BY <2>2, <4>1, Clamps
      <3>2. Rug!Clamp(MockSum) \in 0..100 /\ Rug!Clamp(MockSum') \in 0..100
        BY <2>2, Clamps
      <3> QED
        BY <2>1, <2>4, <3>1, <3>2 DEF MockPasses, Report
    <2>7. \/ Rug!compute_score'.score <= Rug!compute_score.score
          \/ Rug!compute_score'.score = 10 /\ (buyTax' > 20 \/ sellTax' > 20)
      <3> DEFINE grade(list, f, b, s, n) ==
            IF "blacklist" \in list THEN 0 ELSE IF "whitelist" \in list THEN 100
            ELSE IF f \intersect Rug!Fatal # {} THEN 0 ELSE IF b > 100 \/ s > 100 THEN 0
            ELSE IF b > 20 \/ s > 20 THEN 10 ELSE n
      <3>1. Rug!compute_score.score = grade(lists, flags, buyTax, sellTax, Rug!Clamp(Sum))
        BY DEF Rug!compute_score, Rug!Verdict, Sum
      <3>2. Rug!compute_score'.score = grade(lists', flags', buyTax', sellTax', Rug!Clamp(Sum'))
        BY <2>4 DEF Rug!compute_score, Rug!Verdict, Sum
      <3>3. flags' \intersect Rug!Fatal = {} => flags \intersect Rug!Fatal = {}
        BY <2>1
      <3>4. buyTax \in Nat /\ sellTax \in Nat /\ buyTax' \in Nat /\ sellTax' \in Nat
        BY <2>1 DEF Report
      <3> QED
        BY <2>1, <2>3, <3>1, <3>2, <3>3, <3>4
    <2>8. (Rug!scoreOk(Rug!compute_score)' <=> Passes') /\ (Rug!scoreOk(Rug!compute_score_mock)' <=> MockPasses')
      BY <2>1, PassesIsOk, PTL
    <2> HIDE DEF Passes, MockPasses
    <2> QED
      BY <2>1, <2>5, <2>6, <2>7, <2>8, PassesIsOk DEF Rug!worsens
  <1> QED
    BY <1>1, <1>2 DEF Rug!Next

(* A report that gets worse never makes a token pass and never raises its score,
   but for the flat score of a prohibitive tax (security.rs, WasmAdapter.ts). *)
THEOREM WorseNeverPassesHolds == MCSpec => WorseNeverPasses
  <1>1. MCInit => Report
    BY DEF MCInit, Rug!Init, Report
  <1>2. ASSUME Report, [MCNext]_MCVars PROVE Report'
    <2>1. CASE Rug!Next
      BY <1>2, <2>1, ReportStep
    <2>2. CASE UNCHANGED rugVars
      BY <1>2, <2>2 DEF rugVars, Report
    <2>3. Rug!Next \/ UNCHANGED rugVars
      BY <1>2 DEF MCNext, SoulNext, MCVars, soulVars, rugVars
    <2> QED
      BY <2>1, <2>2, <2>3
  <1>3. ASSUME Report, [MCNext]_MCVars PROVE [active = "token" => Rug!worsens]_rugVars
    <2>1. Rug!Next \/ UNCHANGED rugVars
      BY <1>3 DEF MCNext, SoulNext, MCVars, soulVars, rugVars
    <2> QED
      BY <1>3, <2>1, ReportStep
  <1> QED
    BY <1>1, <1>2, <1>3, PTL DEF MCSpec, WorseNeverPasses

-----------------------------------------------------------------------------
(* The allowances.  What the router will be allowed once all is mined is what
   the last approval under way says; while that is more than nothing, an
   operation is about to use or to revoke it, or has an excuse. *)
Txs == [op : Ops, what : {"approve", "transfer"}, spender : Defi!Spenders, value : Nat]

Grants(txs, i) == txs[i].what = "approve" /\ txs[i].spender = "router"

Leaves(txs, left) ==
  \/ left > 0 /\ \A j \in 1..Len(txs) : ~Grants(txs, j)
  \/ \E i \in 1..Len(txs) : /\ Grants(txs, i) /\ txs[i].value > 0
                            /\ \A j \in 1..Len(txs) : i < j => ~Grants(txs, j)

Acts(r, s) == r.pc # "idle" /\ r.spender = s

Excusing(r) == Acts(r, "router") /\ (r.sent \/ r.excuse \in {"receipt", "revoke"})

Owing(r) ==
  Acts(r, "router") /\ (r.pc = "confirming" \/ (r.granted /\ r.pc \in {"checks", "impact", "sending", "revoking"}))

Places ==
  {"idle", "allowance", "approving", "confirming", "checks", "impact", "sending", "sent", "revoking", "done",
   "failed"}
Excuses == {"none", "impact", "receipt", "revoke"}

Calls ==
  [pc : Places, spender : Defi!Spenders, amount : Nat, terms : Defi!Usual \union {Defi!Emergency},
   dump : BOOLEAN, granted : BOOLEAN, sent : BOOLEAN, excuse : Excuses]

Operation(r) ==
  r.pc # "idle" =>
    /\ r \in Calls
    /\ r.excuse \in {"receipt", "revoke"} => r.pc = "failed"

Moves(o, r) == DOMAIN ops' = Ops /\ ops'[o] = r /\ \A q \in Ops : q # o => ops'[q] = ops[q]

Uses(s) == allowance[s] > 0 \/ \E i \in 1..Len(mempool) : mempool[i].spender = s

DefiTyping ==
  /\ DOMAIN ops = Ops /\ \A o \in Ops : Operation(ops[o])
  /\ allowance \in [Defi!Spenders -> Nat] /\ mempool \in Seq(Txs)

DefiInv ==
  /\ DefiTyping
  /\ \A s \in Defi!Spenders : Uses(s) => \E o \in Ops : Acts(ops[o], s)
  /\ Leaves(mempool, allowance["router"]) => \E o \in Ops : Excusing(ops[o]) \/ Owing(ops[o])

LEMMA SendingLeaves ==
  ASSUME NEW txs \in Seq(Txs), NEW sent \in Txs, NEW left, Leaves(Append(txs, sent), left)
  PROVE  /\ sent.what = "approve" /\ sent.spender = "router" => sent.value > 0
         /\ sent.what = "transfer" \/ sent.spender # "router" => Leaves(txs, left)
  <1> DEFINE n == Len(txs) + 1
             next == Append(txs, sent)
  <1>1. /\ n \in Nat /\ n >= 1 /\ Len(next) = n /\ next[n] = sent
        /\ \A j \in 1..n : j # n => j \in 1..Len(txs) /\ next[j] = txs[j]
        /\ \A j \in 1..Len(txs) : j \in 1..n /\ j # n /\ next[j] = txs[j]
    OBVIOUS
  <1> HIDE DEF n, next
  <1>2. Leaves(next, left)
    BY DEF next
  <1>3. Grants(next, n) <=> sent.what = "approve" /\ sent.spender = "router"
    BY <1>1 DEF Grants
  <1>4. \A j \in 1..Len(txs) : Grants(next, j) <=> Grants(txs, j)
    BY <1>1 DEF Grants
  <1>5. ASSUME sent.what = "approve", sent.spender = "router" PROVE sent.value > 0
    <2>1. n \in 1..Len(next) /\ Grants(next, n) /\ \A i \in 1..Len(next) : i # n => i < n
      BY <1>1, <1>3, <1>5
    <2>2. PICK i \in 1..Len(next) : next[i].value > 0 /\ \A j \in 1..Len(next) : i < j => ~Grants(next, j)
      BY <1>2, <2>1 DEF Leaves
    <2>3. i = n
      BY <2>1, <2>2
    <2> QED
      BY <1>1, <2>2, <2>3
  <1>6. ASSUME sent.what = "transfer" \/ sent.spender # "router" PROVE Leaves(txs, left)
    <2>1. ~Grants(next, n)
      BY <1>3, <1>6
    <2>2. CASE left > 0 /\ \A j \in 1..Len(next) : ~Grants(next, j)
      BY <1>1, <1>4, <2>2 DEF Leaves
    <2>3. CASE \E i \in 1..Len(next) : /\ Grants(next, i) /\ next[i].value > 0
                            /\ \A j \in 1..Len(next) : i < j => ~Grants(next, j)
      <3>1. PICK i \in 1..Len(next) : /\ Grants(next, i) /\ next[i].value > 0
                            /\ \A j \in 1..Len(next) : i < j => ~Grants(next, j)
        BY <2>3
      <3>2. i \in 1..Len(txs) /\ Grants(txs, i) /\ txs[i].value > 0
        BY <1>1, <1>4, <2>1, <3>1
      <3>3. \A j \in 1..Len(txs) : i < j => ~Grants(txs, j)
        BY <1>1, <1>4, <3>1
      <3> QED
        BY <3>2, <3>3 DEF Leaves
    <2> QED
      BY <1>2, <2>2, <2>3 DEF Leaves
  <1> QED
    BY <1>5, <1>6

LEMMA MiningLeaves ==
  ASSUME NEW txs \in Seq(Txs), txs # <<>>, NEW left \in Nat, NEW now \in Nat,
         IF Grants(txs, 1) THEN now = txs[1].value ELSE now <= left,
         Leaves(Tail(txs), now)
  PROVE  Leaves(txs, left)
  <1> DEFINE n == Len(txs)
             next == Tail(txs)
  <1>1. /\ n \in Nat \ {0} /\ Len(next) = n - 1
        /\ \A j \in 1..Len(next) : j + 1 \in 1..n /\ next[j] = txs[j + 1]
        /\ \A j \in 1..n : j # 1 => j - 1 \in 1..Len(next) /\ next[j - 1] = txs[j]
    OBVIOUS
  <1> HIDE DEF next
  <1>2. Leaves(next, now)
    BY DEF next
  <1>3. \A j \in 1..n : j # 1 => (Grants(txs, j) <=> Grants(next, j - 1))
    BY <1>1 DEF Grants
  <1>4. CASE now > 0 /\ \A j \in 1..Len(next) : ~Grants(next, j)
    <2>1. \A j \in 1..n : j # 1 => ~Grants(txs, j)
      BY <1>1, <1>3, <1>4
    <2>2. CASE Grants(txs, 1)
      <3>1. 1 \in 1..Len(txs) /\ txs[1].value > 0
        BY <1>1, <1>4, <2>2
      <3>2. \A j \in 1..Len(txs) : 1 < j => ~Grants(txs, j)
        BY <2>1
      <3> QED
        BY <2>2, <3>1, <3>2 DEF Leaves
    <2>3. CASE ~Grants(txs, 1)
      <3>1. left > 0
        BY <1>4, <2>3
      <3> QED
        BY <2>1, <2>3, <3>1 DEF Leaves
    <2> QED
      BY <2>2, <2>3
  <1>5. CASE \E i \in 1..Len(next) : /\ Grants(next, i) /\ next[i].value > 0
                          /\ \A j \in 1..Len(next) : i < j => ~Grants(next, j)
    <2>1. PICK i \in 1..Len(next) : /\ Grants(next, i) /\ next[i].value > 0
                          /\ \A j \in 1..Len(next) : i < j => ~Grants(next, j)
      BY <1>5
    <2>2. i + 1 \in 1..Len(txs) /\ Grants(txs, i + 1) /\ txs[i + 1].value > 0
      BY <1>1, <2>1 DEF Grants
    <2>3. \A j \in 1..Len(txs) : i + 1 < j => ~Grants(txs, j)
      BY <1>1, <1>3, <2>1
    <2> QED
      BY <2>2, <2>3 DEF Leaves
  <1> QED
    BY <1>2, <1>4, <1>5 DEF Leaves

(* A step of operation o that leaves it as r. *)
LEMMA OperationMoves ==
  ASSUME DefiInv, NEW o \in Ops, NEW r, Moves(o, r), Operation(r), r.pc # "idle",
         ops[o].pc # "idle" => r.spender = ops[o].spender,
         allowance' = allowance, mempool' \in Seq(Txs),
         \A s \in Defi!Spenders : Uses(s)' => Uses(s) \/ Acts(r, s),
         Excusing(ops[o]) => Excusing(r),
         Leaves(mempool', allowance["router"]) =>
           /\ Leaves(mempool, allowance["router"]) \/ Owing(r)
           /\ Owing(ops[o]) => Owing(r) \/ Excusing(r)
  PROVE  DefiInv'
  <1>1. DOMAIN ops' = Ops /\ ops'[o] = r /\ \A q \in Ops : q # o => ops'[q] = ops[q]
    BY DEF Moves
  <1>2. DefiTyping'
    <2>1. \A q \in Ops : Operation(ops'[q])
      BY <1>1 DEF DefiInv, DefiTyping
    <2>2. (\A q \in Ops : Operation(ops[q]))'
      BY <2>1 DEF Operation
    <2> QED
      BY <1>1, <2>2 DEF DefiInv, DefiTyping
  <1>3. ASSUME NEW s \in Defi!Spenders, Uses(s)' PROVE \E q \in Ops : Acts(ops'[q], s)
    <2>1. CASE Uses(s)
      <3>1. PICK q \in Ops : Acts(ops[q], s)
        BY <2>1 DEF DefiInv
      <3>2. Acts(ops'[q], s)
        BY <1>1, <3>1 DEF Acts
      <3> QED
        BY <3>2
    <2> QED
      BY <1>1, <1>3, <2>1
  <1>4. ASSUME Leaves(mempool', allowance["router"]) PROVE \E q \in Ops : Excusing(ops'[q]) \/ Owing(ops'[q])
    <2>1. CASE Leaves(mempool, allowance["router"])
      <3>1. PICK q \in Ops : Excusing(ops[q]) \/ Owing(ops[q])
        BY <2>1 DEF DefiInv
      <3>2. Excusing(ops'[q]) \/ Owing(ops'[q])
        BY <1>1, <1>4, <3>1
      <3> QED
        BY <3>2
    <2> QED
      BY <1>1, <1>4, <2>1
  <1>5. (\A s \in Defi!Spenders : Uses(s) => \E q \in Ops : Acts(ops[q], s))'
    BY <1>3 DEF Acts
  <1>6. (Leaves(mempool, allowance["router"]) => \E q \in Ops : Excusing(ops[q]) \/ Owing(ops[q]))'
    BY <1>4 DEF Leaves, Grants, Excusing, Owing, Acts
  <1> QED
    BY <1>2, <1>5, <1>6 DEF DefiInv

(* The same while nothing is sent. *)
LEMMA OperationThinks ==
  ASSUME DefiInv, NEW o \in Ops, NEW r, Moves(o, r), Operation(r), r.pc # "idle",
         ops[o].pc # "idle" => r.spender = ops[o].spender,
         UNCHANGED <<allowance, mempool>>,
         Excusing(ops[o]) => Excusing(r), Owing(ops[o]) => Owing(r) \/ Excusing(r)
  PROVE  DefiInv'
  <1>1. mempool' \in Seq(Txs) /\ \A s \in Defi!Spenders : Uses(s)' => Uses(s)
    BY DEF DefiInv, DefiTyping, Uses
  <1>2. Leaves(mempool', allowance["router"]) => Leaves(mempool, allowance["router"])
    OBVIOUS
  <1> QED
    BY <1>1, <1>2, OperationMoves

(* The same with a transaction sent to the mempool. *)
LEMMA OperationSends ==
  ASSUME DefiInv, NEW o \in Ops, NEW r, Moves(o, r), Operation(r), r.pc # "idle",
         r.spender = ops[o].spender, ops[o].pc # "idle",
         NEW sent \in Txs, sent.spender = r.spender, mempool' = Append(mempool, sent), allowance' = allowance,
         Excusing(ops[o]) => Excusing(r),
         r.spender = "router" => \/ sent.what = "approve" /\ Owing(r)
                                 \/ sent.what = "approve" /\ sent.value = 0
                                 \/ sent.what = "transfer" /\ Excusing(r)
  PROVE  DefiInv'
  <1>1. mempool \in Seq(Txs)
    BY DEF DefiInv, DefiTyping
  <1>2. mempool' \in Seq(Txs) /\ \A i \in 1..Len(mempool') : mempool'[i] = sent \/ (i \in 1..Len(mempool) /\ mempool'[i] = mempool[i])
    BY <1>1
  <1>3. \A s \in Defi!Spenders : Uses(s)' => Uses(s) \/ Acts(r, s)
    BY <1>2 DEF Uses, Acts
  <1>4. ASSUME Leaves(mempool', allowance["router"])
        PROVE  /\ Leaves(mempool, allowance["router"]) \/ Owing(r)
               /\ Owing(ops[o]) => Owing(r) \/ Excusing(r)
    <2>1. /\ sent.what = "approve" /\ sent.spender = "router" => sent.value > 0
          /\ sent.what = "transfer" \/ sent.spender # "router" => Leaves(mempool, allowance["router"])
      BY <1>1, <1>4, SendingLeaves
    <2>2. CASE r.spender # "router"
      BY <2>1, <2>2 DEF Owing, Acts
    <2>3. CASE r.spender = "router"
      BY <2>1, <2>3
    <2> QED
      BY <2>2, <2>3
  <1> QED
    BY <1>2, <1>3, <1>4, OperationMoves

(* What a change of a call's fields leaves of the others. *)
SameBut(q, r, pc) ==
  /\ r \in Calls /\ r.pc = pc /\ r.spender = q.spender /\ r.amount = q.amount

LEMMA PcChanges ==
  ASSUME NEW q \in Calls, NEW pc \in Places, NEW r, r = [q EXCEPT !.pc = pc]
  PROVE  SameBut(q, r, pc) /\ (r.granted <=> q.granted) /\ (r.sent <=> q.sent) /\ r.excuse = q.excuse
  BY DEF Calls, SameBut

LEMMA SentChanges ==
  ASSUME NEW q \in Calls, NEW pc \in Places, NEW r, r = [q EXCEPT !.sent = TRUE, !.pc = pc]
  PROVE  SameBut(q, r, pc) /\ (r.granted <=> q.granted) /\ r.sent /\ r.excuse = q.excuse
  BY DEF Calls, SameBut

(* One that goes on without a transaction keeps what it owed, or failed with
   nothing granted. *)
LEMMA OperationGoes ==
  ASSUME DefiInv, NEW o \in Ops, ops[o].pc # "idle", NEW pc \in Places, pc # "idle",
         ops' = [ops EXCEPT ![o].pc = pc], UNCHANGED <<allowance, mempool>>,
         ops[o].pc # "failed",
         Owing(ops[o]) => pc \in {"impact", "sending", "revoking"} /\ ops[o].pc # "confirming"
  PROVE  DefiInv'
  <1> DEFINE r == [ops[o] EXCEPT !.pc = pc]
  <1>1. ops[o] \in Calls /\ (ops[o].excuse \notin {"receipt", "revoke"})
    BY DEF DefiInv, DefiTyping, Operation
  <1>2. Moves(o, r)
    BY DEF Moves, DefiInv, DefiTyping
  <1>3. SameBut(ops[o], r, pc) /\ (r.granted <=> ops[o].granted) /\ (r.sent <=> ops[o].sent) /\ r.excuse = ops[o].excuse
    BY <1>1, PcChanges
  <1> HIDE DEF r
  <1>4. Operation(r) /\ r.spender = ops[o].spender /\ r.pc # "idle"
    BY <1>1, <1>3 DEF Operation, SameBut
  <1>5. Excusing(ops[o]) => Excusing(r)
    BY <1>3, <1>4 DEF Excusing, Acts
  <1>6. Owing(ops[o]) => Owing(r)
    BY <1>3 DEF Owing, Acts, SameBut
  <1> QED
    BY <1>2, <1>4, <1>5, <1>6, OperationThinks

LEMMA OperationExcused ==
  ASSUME DefiInv, NEW o \in Ops, ops[o].pc # "idle", ops[o].pc # "failed",
         NEW pc \in Places, pc # "idle", NEW why \in Excuses,
         ops' = [ops EXCEPT ![o].pc = pc, ![o].excuse = why], UNCHANGED <<allowance, mempool>>,
         \/ why \in {"receipt", "revoke"} /\ pc = "failed"
         \/ why = "impact" /\ (Owing(ops[o]) => pc = "revoking" /\ ops[o].pc # "confirming")
  PROVE  DefiInv'
  <1> DEFINE r == [ops[o] EXCEPT !.pc = pc, !.excuse = why]
  <1>1. ops[o] \in Calls /\ (ops[o].excuse \notin {"receipt", "revoke"})
    BY DEF DefiInv, DefiTyping, Operation
  <1>2. Moves(o, r)
    BY DEF Moves, DefiInv, DefiTyping
  <1>3. SameBut(ops[o], r, pc) /\ (r.granted <=> ops[o].granted) /\ (r.sent <=> ops[o].sent) /\ r.excuse = why
    <2> DEFINE q == ops[o]
    <2>1. r = [q EXCEPT !.pc = pc, !.excuse = why] /\ q \in Calls
      BY <1>1
    <2> HIDE DEF r, q
    <2>2. SameBut(q, r, pc) /\ (r.granted <=> q.granted) /\ (r.sent <=> q.sent) /\ r.excuse = why
      BY <2>1 DEF Calls, SameBut
    <2> QED
      BY <2>2 DEF q
  <1> HIDE DEF r
  <1>4. Operation(r) /\ r.spender = ops[o].spender /\ r.pc # "idle"
    BY <1>1, <1>3 DEF Operation, SameBut
  <1>5. Excusing(ops[o]) => Excusing(r)
    BY <1>1, <1>3, <1>4 DEF Excusing, Acts
  <1>6. Owing(ops[o]) => Owing(r) \/ Excusing(r)
    BY <1>3, <1>4 DEF Owing, Excusing, Acts, SameBut
  <1> QED
    BY <1>2, <1>4, <1>5, <1>6, OperationThinks

LEMMA OperationApproves ==
  ASSUME DefiInv, NEW o \in Ops, ops[o].pc \in {"approving", "revoking"},
         NEW pc \in {"confirming", "failed"}, NEW value \in Nat, pc = "failed" => value = 0,
         ops' = [ops EXCEPT ![o].pc = pc], allowance' = allowance,
         mempool' = Append(mempool, [op |-> o, what |-> "approve", spender |-> ops[o].spender, value |-> value])
  PROVE  DefiInv'
  <1> DEFINE r == [ops[o] EXCEPT !.pc = pc]
             sent == [op |-> o, what |-> "approve", spender |-> ops[o].spender, value |-> value]
  <1>1. ops[o] \in Calls /\ (ops[o].excuse \notin {"receipt", "revoke"})
    BY DEF DefiInv, DefiTyping, Operation
  <1>2. Moves(o, r)
    BY DEF Moves, DefiInv, DefiTyping
  <1>3. SameBut(ops[o], r, pc) /\ (r.granted <=> ops[o].granted) /\ (r.sent <=> ops[o].sent) /\ r.excuse = ops[o].excuse
    BY <1>1, PcChanges DEF Places
  <1>4. sent \in Txs /\ sent.what = "approve" /\ sent.spender = ops[o].spender /\ sent.value = value
        /\ mempool' = Append(mempool, sent)
    BY <1>1 DEF Txs, Calls
  <1> HIDE DEF r, sent
  <1>5. Operation(r) /\ r.spender = ops[o].spender /\ r.pc # "idle"
    BY <1>1, <1>3 DEF Operation, SameBut
  <1>6. Excusing(ops[o]) => Excusing(r)
    BY <1>3, <1>5 DEF Excusing, Acts
  <1>7. r.spender = "router" => Owing(r) \/ sent.value = 0
    BY <1>3, <1>4, <1>5 DEF Owing, Acts, SameBut
  <1> QED
    BY <1>2, <1>4, <1>5, <1>6, <1>7, OperationSends

LEMMA AllowancesKeep ==
  ASSUME DefiInv, [Defi!Next]_Defi!defiVars
  PROVE  DefiInv'
  <1>a. ASSUME NEW o \in Ops, ops[o].pc # "idle"
        PROVE  ops[o] \in Calls /\ (ops[o].pc # "failed" => ops[o].excuse \notin {"receipt", "revoke"})
    BY <1>a DEF DefiInv, DefiTyping, Operation
  <1>1. ASSUME NEW o \in Ops, NEW s \in Defi!Spenders, NEW a \in Amounts,
               NEW t \in Defi!Usual \union {Defi!Emergency}, NEW dump \in BOOLEAN, Defi!starts(o, s, a, t, dump)
        PROVE  DefiInv'
    <2> DEFINE r == [pc |-> "allowance", spender |-> s, amount |-> a, terms |-> t,
                     dump |-> dump, granted |-> FALSE, sent |-> FALSE, excuse |-> "none"]
    <2>1. ops[o].pc = "idle" /\ ops' = [ops EXCEPT ![o] = r] /\ UNCHANGED <<allowance, mempool>>
      BY <1>1 DEF Defi!starts
    <2>2. r \in Calls /\ r.pc = "allowance" /\ r.excuse = "none"
      BY AmountsAssumption DEF Calls, Places, Excuses
    <2> HIDE DEF r
    <2>3. Moves(o, r)
      BY <2>1 DEF Moves, DefiInv, DefiTyping
    <2>4. Operation(r) /\ r.pc # "idle"
      BY <2>2 DEF Operation
    <2>5. ~Excusing(ops[o]) /\ ~Owing(ops[o])
      BY <2>1 DEF Excusing, Owing, Acts
    <2> QED
      BY <2>1, <2>3, <2>4, <2>5, OperationThinks
  <1>2. ASSUME NEW o \in Ops, Defi!readsAllowance(o) PROVE DefiInv'
    <2>1. PICK pc \in {"checks", "approving"} :
            ops[o].pc = "allowance" /\ ops' = [ops EXCEPT ![o].pc = pc] /\ UNCHANGED <<allowance, mempool>>
      BY <1>2 DEF Defi!readsAllowance, Defi!goes
    <2>2. ~Owing(ops[o])
      BY <2>1 DEF Owing
    <2> QED
      BY <2>1, <2>2, OperationGoes DEF Places
  <1>3. ASSUME NEW o \in Ops, NEW ok \in BOOLEAN, Defi!approves(o, ok) PROVE DefiInv'
    <2>1. CASE ok
      <3>1. /\ ops[o].pc = "approving" /\ ops' = [ops EXCEPT ![o].pc = "confirming"] /\ allowance' = allowance
            /\ mempool' = Append(mempool, [op |-> o, what |-> "approve", spender |-> ops[o].spender,
                                          value |-> Defi!getApprovalAmount(ops[o].amount)])
        BY <1>3, <2>1 DEF Defi!approves, Defi!goes, Defi!sends
      <3>2. ops[o].amount \in Nat
        BY <1>a, <3>1 DEF Calls
      <3>3. Defi!getApprovalAmount(ops[o].amount) \in Nat
        BY <3>2 DEF Defi!getApprovalAmount
      <3> QED
        BY <3>1, <3>3, OperationApproves
    <2>2. CASE ~ok
      <3>1. ops[o].pc = "approving" /\ ops' = [ops EXCEPT ![o].pc = "failed"] /\ UNCHANGED <<allowance, mempool>>
        BY <1>3, <2>2 DEF Defi!approves, Defi!goes
      <3>2. ~Owing(ops[o])
        BY <3>1 DEF Owing
      <3> QED
        BY <3>1, <3>2, OperationGoes DEF Places
    <2> QED
      BY <2>1, <2>2
  <1>4. ASSUME NEW o \in Ops, Defi!confirmed(o) PROVE DefiInv'
    <2> DEFINE r == [ops[o] EXCEPT !.pc = "checks", !.granted = TRUE]
    <2>1. /\ ops[o].pc = "confirming" /\ UNCHANGED <<allowance, mempool>>
          /\ ops' = [ops EXCEPT ![o].pc = "checks", ![o].granted = TRUE]
      BY <1>4 DEF Defi!confirmed
    <2>2. Moves(o, r)
      BY <2>1 DEF Moves, DefiInv, DefiTyping
    <2>3. SameBut(ops[o], r, "checks") /\ r.granted /\ (r.sent <=> ops[o].sent) /\ r.excuse = ops[o].excuse
      <3> DEFINE q == ops[o]
      <3>1. r = [q EXCEPT !.pc = "checks", !.granted = TRUE] /\ q \in Calls
        BY <1>a, <2>1
      <3> HIDE DEF r, q
      <3>2. SameBut(q, r, "checks") /\ r.granted /\ (r.sent <=> q.sent) /\ r.excuse = q.excuse
        BY <3>1 DEF Calls, SameBut, Places
      <3> QED
        BY <3>2 DEF q
    <2> HIDE DEF r
    <2>4. Operation(r) /\ r.spender = ops[o].spender /\ r.pc # "idle"
      BY <1>a, <2>1, <2>3 DEF Operation, SameBut
    <2>5. (Excusing(ops[o]) => Excusing(r)) /\ (Owing(ops[o]) => Owing(r))
      BY <2>3 DEF Excusing, Owing, Acts, SameBut
    <2> QED
      BY <2>1, <2>2, <2>4, <2>5, OperationThinks
  <1>5. ASSUME NEW o \in Ops, Defi!receiptLost(o) PROVE DefiInv'
    <2>1. /\ ops[o].pc = "confirming" /\ UNCHANGED <<allowance, mempool>>
          /\ ops' = [ops EXCEPT ![o].pc = "failed", ![o].excuse = "receipt"]
      BY <1>5 DEF Defi!receiptLost
    <2> QED
      BY <2>1, OperationExcused DEF Places, Excuses
  <1>6. ASSUME NEW o \in Ops, ops[o].pc \in {"checks", "sending", "sent"}, Defi!failing(o),
               UNCHANGED <<allowance, mempool>>
        PROVE  DefiInv'
    <2>1. CASE ops[o].granted /\ ops[o].spender = "router"
      <3>1. ops' = [ops EXCEPT ![o].pc = "revoking"]
        BY <1>6, <2>1 DEF Defi!failing, Defi!goes
      <3> QED
        BY <1>6, <3>1, OperationGoes DEF Places
    <2>2. CASE ~(ops[o].granted /\ ops[o].spender = "router")
      <3>1. ops' = [ops EXCEPT ![o].pc = "failed"]
        BY <1>6, <2>2 DEF Defi!failing, Defi!goes
      <3>2. ~Owing(ops[o])
        BY <1>6, <2>2 DEF Owing, Acts
      <3> QED
        BY <1>6, <3>1, <3>2, OperationGoes DEF Places
    <2> QED
      BY <2>1, <2>2
  <1>7. ASSUME NEW o \in Ops, NEW ok \in BOOLEAN, Defi!checks(o, ok) PROVE DefiInv'
    <2>1. ops[o].pc = "checks" /\ UNCHANGED <<allowance, mempool>>
      BY <1>7 DEF Defi!checks
    <2>2. CASE Defi!failing(o)
      BY <1>6, <2>1, <2>2
    <2>3. CASE ~Defi!failing(o)
      <3>1. PICK pc \in {"impact", "sending"} : ops' = [ops EXCEPT ![o].pc = pc]
        BY <1>7, <2>3 DEF Defi!checks, Defi!goes
      <3> QED
        BY <2>1, <3>1, OperationGoes DEF Places
    <2> QED
      BY <2>2, <2>3
  <1>8. ASSUME NEW o \in Ops, NEW loss \in Losses, Defi!impact(o, loss) PROVE DefiInv'
    <2>1. ops[o].pc = "impact" /\ UNCHANGED <<allowance, mempool>>
      BY <1>8 DEF Defi!impact
    <2>2. \/ ops' = [ops EXCEPT ![o].pc = "sending"]
          \/ ops' = [ops EXCEPT ![o].pc = "revoking", ![o].excuse = "impact"]
          \/ ~ops[o].granted /\ ops' = [ops EXCEPT ![o].pc = "failed", ![o].excuse = "impact"]
      BY <1>8 DEF Defi!impact, Defi!goes
    <2>3. CASE ops' = [ops EXCEPT ![o].pc = "sending"]
      BY <2>1, <2>3, OperationGoes DEF Places
    <2>4. CASE ops' = [ops EXCEPT ![o].pc = "revoking", ![o].excuse = "impact"]
      BY <2>1, <2>4, OperationExcused DEF Places, Excuses
    <2>5. CASE ~ops[o].granted /\ ops' = [ops EXCEPT ![o].pc = "failed", ![o].excuse = "impact"]
      <3>1. ~Owing(ops[o])
        BY <2>1, <2>5 DEF Owing
      <3> QED
        BY <2>1, <2>5, <3>1, OperationExcused DEF Places, Excuses
    <2> QED
      BY <2>2, <2>3, <2>4, <2>5
  <1>9. ASSUME NEW o \in Ops, NEW ok \in BOOLEAN, Defi!transmits(o, ok) PROVE DefiInv'
    <2>1. CASE ok
      <3> DEFINE pc == IF ops[o].spender = "router" THEN "sent" ELSE "done"
                 r == [ops[o] EXCEPT !.sent = TRUE, !.pc = pc]
                 sent == [op |-> o, what |-> "transfer", spender |-> ops[o].spender, value |-> ops[o].amount]
      <3>1. /\ ops[o].pc = "sending" /\ ops' = [ops EXCEPT ![o].sent = TRUE, ![o].pc = pc] /\ allowance' = allowance
            /\ mempool' = Append(mempool, sent)
        BY <1>9, <2>1 DEF Defi!transmits, Defi!sends
      <3>2. sent \in Txs /\ sent.what = "transfer" /\ sent.spender = ops[o].spender
        BY <1>a, <3>1 DEF Calls, Txs
      <3>3. pc \in Places /\ pc \in {"sent", "done"}
        BY DEF Places
      <3> HIDE DEF pc, sent
      <3>4. Moves(o, r)
        BY <3>1 DEF Moves, DefiInv, DefiTyping
      <3>5. SameBut(ops[o], r, pc) /\ (r.granted <=> ops[o].granted) /\ r.sent /\ r.excuse = ops[o].excuse
        BY <1>a, <3>1, <3>3, SentChanges
      <3> HIDE DEF r
      <3>6. Operation(r) /\ r.spender = ops[o].spender /\ r.pc # "idle"
        BY <1>a, <3>1, <3>3, <3>5 DEF Operation, SameBut
      <3>7. (r.spender = "router" => Excusing(r)) /\ (Excusing(ops[o]) => Excusing(r))
        BY <3>5, <3>6 DEF Excusing, Acts
      <3> QED
        BY <3>1, <3>2, <3>4, <3>6, <3>7, OperationSends
    <2>2. CASE ~ok
      BY <1>6, <1>9, <2>2 DEF Defi!transmits
    <2> QED
      BY <2>1, <2>2
  <1>10. ASSUME NEW o \in Ops, NEW ok \in BOOLEAN, Defi!lookup(o, ok) PROVE DefiInv'
    <2>1. ops[o].pc = "sent" /\ UNCHANGED <<allowance, mempool>>
      BY <1>10 DEF Defi!lookup
    <2>2. ~Owing(ops[o])
      BY <2>1 DEF Owing
    <2>3. CASE ops' = [ops EXCEPT ![o].pc = "done"]
      BY <2>1, <2>2, <2>3, OperationGoes DEF Places
    <2>4. CASE Defi!failing(o)
      BY <1>6, <2>1, <2>4
    <2> QED
      BY <1>10, <2>3, <2>4 DEF Defi!lookup, Defi!goes
  <1>11. ASSUME NEW o \in Ops, NEW ok \in BOOLEAN, Defi!revokeApproval(o, ok) PROVE DefiInv'
    <2>1. CASE ok
      <3>1. /\ ops[o].pc = "revoking" /\ ops' = [ops EXCEPT ![o].pc = "failed"] /\ allowance' = allowance
            /\ mempool' = Append(mempool, [op |-> o, what |-> "approve", spender |-> ops[o].spender, value |-> 0])
        BY <1>11, <2>1 DEF Defi!revokeApproval, Defi!goes, Defi!sends
      <3> QED
        BY <3>1, OperationApproves
    <2>2. CASE ~ok
      <3>1. /\ ops[o].pc = "revoking" /\ UNCHANGED <<allowance, mempool>>
            /\ ops' = [ops EXCEPT ![o].pc = "failed", ![o].excuse = "revoke"]
        BY <1>11, <2>2 DEF Defi!revokeApproval
      <3> QED
        BY <3>1, OperationExcused DEF Places, Excuses
    <2> QED
      BY <2>1, <2>2
  <1>12. CASE Defi!mined
    <2> DEFINE sent == Head(mempool)
               s == sent.spender
               left == IF sent.what = "approve" THEN sent.value
                       ELSE IF allowance[s] >= sent.value THEN allowance[s] - sent.value ELSE allowance[s]
    <2>1. mempool # <<>> /\ mempool' = Tail(mempool) /\ ops' = ops /\ allowance' = [allowance EXCEPT ![s] = left]
      BY <1>12 DEF Defi!mined
    <2>2. /\ mempool \in Seq(Txs) /\ sent = mempool[1] /\ sent \in Txs /\ mempool' \in Seq(Txs) /\ 1 \in 1..Len(mempool)
          /\ \A i \in 1..Len(mempool') : i + 1 \in 1..Len(mempool) /\ mempool'[i] = mempool[i + 1]
      BY <2>1 DEF DefiInv, DefiTyping
    <2>3. s \in Defi!Spenders /\ sent.value \in Nat /\ allowance[s] \in Nat /\ allowance["router"] \in Nat
      BY <2>2 DEF DefiInv, DefiTyping, Txs, Defi!Spenders
    <2>4. left \in Nat /\ (sent.what # "approve" => left <= allowance[s])
      BY <2>3
    <2>5. allowance' \in [Defi!Spenders -> Nat] /\ allowance'[s] = left
          /\ \A q \in Defi!Spenders : q # s => allowance'[q] = allowance[q]
      <3> HIDE DEF left, s
      <3> QED
        BY <2>1, <2>3, <2>4 DEF DefiInv, DefiTyping
    <2>6. ASSUME NEW q \in Defi!Spenders, Uses(q)' PROVE Uses(q)
      <3>1. CASE \E i \in 1..Len(mempool') : mempool'[i].spender = q
        BY <2>2, <3>1 DEF Uses
      <3>2. CASE allowance'[q] > 0 /\ q # s
        BY <2>5, <3>2 DEF Uses
      <3>3. CASE q = s
        BY <2>2, <3>3 DEF Uses
      <3> QED
        BY <2>6, <3>1, <3>2, <3>3 DEF Uses
    <2>7. Leaves(mempool', allowance'["router"]) => Leaves(mempool, allowance["router"])
      <3>1. IF Grants(mempool, 1) THEN allowance'["router"] = mempool[1].value
                                  ELSE allowance'["router"] <= allowance["router"]
        <4>1. CASE s = "router"
          BY <2>2, <2>4, <2>5, <4>1 DEF Grants
        <4>2. CASE s # "router"
          BY <2>2, <2>3, <2>5, <4>2 DEF Grants, Defi!Spenders
        <4> QED
          BY <4>1, <4>2
      <3>2. allowance'["router"] \in Nat
        BY <2>5 DEF Defi!Spenders
      <3> QED
        BY <2>1, <2>2, <2>3, <3>1, <3>2, MiningLeaves
    <2>8. (Leaves(mempool, allowance["router"]))' => Leaves(mempool, allowance["router"])
      BY <2>7 DEF Leaves, Grants
    <2>9. DefiTyping'
      BY <2>1, <2>2, <2>5 DEF DefiInv, DefiTyping, Operation
    <2> QED
      BY <2>1, <2>6, <2>8, <2>9 DEF DefiInv, Acts, Excusing, Owing
  <1>13. CASE UNCHANGED Defi!defiVars
    BY <1>13 DEF DefiInv, DefiTyping, Operation, Uses, Leaves, Grants, Acts, Excusing, Owing, Defi!defiVars
  <1> QED
    BY <1>1, <1>2, <1>3, <1>4, <1>5, <1>7, <1>8, <1>9, <1>10, <1>11, <1>12, <1>13 DEF Defi!Next

(* An allowance left to a spender is explained by an operation: failed swaps
   leave none in whatever order they approve and revoke (defi.ts:414, 448, 469). *)
THEOREM LeftoversAreExplained == MCSpec => []LeftoverIsExplained
  <1>1. MCInit => DefiInv
    <2> SUFFICES ASSUME MCInit PROVE DefiInv
      OBVIOUS
    <2>1. ops = [o \in Ops |-> [pc |-> "idle"]] /\ allowance = [s \in Defi!Spenders |-> 0] /\ mempool = <<>>
      BY DEF MCInit, Defi!Init, Defi!Idle
    <2>2. mempool \in Seq(Txs) /\ Len(mempool) = 0
      BY <2>1
    <2>3. \A s \in Defi!Spenders : ~Uses(s)
      BY <2>1, <2>2 DEF Uses
    <2>4. ~Leaves(mempool, allowance["router"])
      BY <2>1, <2>2 DEF Leaves, Defi!Spenders
    <2> QED
      BY <2>1, <2>2, <2>3, <2>4 DEF DefiInv, DefiTyping, Operation
  <1>2. DefiInv /\ [MCNext]_MCVars => DefiInv'
    <2>1. [MCNext]_MCVars => [Defi!Next]_Defi!defiVars
      BY DEF MCNext, OutsideNext, MCVars, outsideVars, defiVars, Defi!defiVars
    <2> QED
      BY <2>1, AllowancesKeep
  <1>3. DefiInv => LeftoverIsExplained
    <2> SUFFICES ASSUME DefiInv, \A o \in Ops : ops[o].pc \in Defi!Settled, mempool = <<>>,
                        NEW s \in Defi!Spenders, allowance[s] > 0
                 PROVE  \E o \in Ops : ops[o].pc # "idle" /\ ops[o].spender = s
                          /\ (ops[o].sent \/ s = "market" \/ ops[o].excuse \in {"receipt", "revoke"})
      BY DEF LeftoverIsExplained, Defi!LeftoverIsExplained
    <2>1. CASE s = "market"
      BY <2>1 DEF DefiInv, Uses, Acts
    <2>2. CASE s = "router"
      <3>1. Leaves(mempool, allowance["router"])
        BY <2>2 DEF Leaves
      <3>2. PICK o \in Ops : Excusing(ops[o]) \/ Owing(ops[o])
        BY <3>1 DEF DefiInv
      <3>3. ~Owing(ops[o])
        BY DEF Owing, Defi!Settled
      <3> QED
        BY <2>2, <3>2, <3>3 DEF Excusing, Acts
    <2> QED
      BY <2>1, <2>2 DEF Defi!Spenders
  <1> QED
    BY <1>1, <1>2, <1>3, PTL DEF MCSpec

-----------------------------------------------------------------------------
(* The badges.  The chain is consistent before, in the middle of and after a
   mint, and so is what a revert goes back to. *)
OfType(owned, types, h, b) == {t \in Badge!TokenIds : owned[t] = h /\ types[t] = b}

ChainTyping(next, types, owned, counts) ==
  /\ next \in 0..MaxTokens
  /\ types \in [Badge!TokenIds -> BadgeTypes \union {"none"}]
  /\ owned \in [Badge!TokenIds -> Holders \union {"zero"}]
  /\ counts \in [Holders -> [BadgeTypes -> Int]]

Consistent(next, types, owned, counts) ==
  /\ ChainTyping(next, types, owned, counts)
  /\ \A t \in Badge!TokenIds : t >= next => owned[t] = "zero"
  /\ \A h \in Holders, b \in BadgeTypes : counts[h][b] = Cardinality(OfType(owned, types, h, b))

MintFrame == [todo : Seq(Badge!Orders), callee : Holders \union {"zero"}]

BadgeInv ==
  /\ frames \in Seq(MintFrame)
  /\ Consistent(nextTokenId, badgeTypes, ownerOf, ownerBadgeCounts)
  /\ frames # <<>> => Consistent(undo[1], undo[2], undo[3], undo[4])

LEMMA BadgeCardinality == \A T : Badge!Cardinality(T) = Cardinality(T)
  BY DEF Badge!Cardinality, Cardinality

LEMMA OfTypeFinite ==
  ASSUME NEW owned, NEW types, NEW h, NEW b
  PROVE  IsFiniteSet(OfType(owned, types, h, b)) /\ Cardinality(OfType(owned, types, h, b)) \in Nat
  <1>1. IsFiniteSet(Badge!TokenIds)
    <2>1. 0 \in Int /\ MaxTokens - 1 \in Int
      BY BadgeAssumption
    <2> QED
      BY <2>1, FS_Interval DEF Badge!TokenIds
  <1>2. OfType(owned, types, h, b) \subseteq Badge!TokenIds
    BY DEF OfType
  <1> QED
    BY <1>1, <1>2, FS_Subset, FS_CardinalityType

MovesTo(owned, after, token, to) ==
  DOMAIN owned = Badge!TokenIds /\ after = [owned EXCEPT ![token] = to]

(* A badge moves: it is counted out here and in there. *)
LEMMA MovesOne ==
  ASSUME NEW types, NEW owned, NEW token \in Badge!TokenIds, NEW to, NEW h, NEW b,
         NEW after, MovesTo(owned, after, token, to)
  PROVE  Cardinality(OfType(after, types, h, b)) =
           Cardinality(OfType(owned, types, h, b))
             - (IF h = owned[token] /\ b = types[token] THEN 1 ELSE 0)
             + (IF h = to /\ b = types[token] THEN 1 ELSE 0)
  <1> DEFINE S == OfType(owned, types, h, b)
             T == OfType(after, types, h, b)
             out == h = owned[token] /\ b = types[token]
             in == h = to /\ b = types[token]
  <1>1. /\ DOMAIN after = Badge!TokenIds /\ after[token] = to
        /\ \A t \in Badge!TokenIds : t # token => after[t] = owned[t]
    BY DEF MovesTo
  <1>2. IsFiniteSet(S) /\ Cardinality(S) \in Nat
    BY OfTypeFinite
  <1>3. (out <=> token \in S) /\ (in <=> token \in T) /\ \A t : t # token => (t \in S <=> t \in T)
    BY <1>1 DEF OfType
  <1> HIDE DEF S, T, out, in
  <1>4. IsFiniteSet(S \ {token}) /\ Cardinality(S \ {token}) = (IF out THEN Cardinality(S) - 1 ELSE Cardinality(S))
    <2>1. Cardinality(S \ {token}) = IF token \in S THEN Cardinality(S) - 1 ELSE Cardinality(S)
      BY <1>2, FS_RemoveElement
    <2> QED
      BY <1>2, <1>3, <2>1, FS_RemoveElement
  <1>5. Cardinality(T) = (IF in THEN Cardinality(S \ {token}) + 1 ELSE Cardinality(S \ {token}))
    <2>1. CASE in
      <3>1. T = (S \ {token}) \union {token} /\ token \notin S \ {token}
        BY <1>3, <2>1
      <3> QED
        BY <1>4, <2>1, <3>1, FS_AddElement
    <2>2. CASE ~in
      <3>1. T = S \ {token}
        BY <1>3, <2>2
      <3> QED
        BY <2>2, <3>1
    <2> QED
      BY <2>1, <2>2
  <1>6. Cardinality(T) = Cardinality(S) - (IF out THEN 1 ELSE 0) + (IF in THEN 1 ELSE 0)
    BY <1>2, <1>4, <1>5
  <1> QED
    BY <1>6 DEF S, T, out, in

(* _update keeps the counts, if a badge that is owned or minted has its type. *)
LEMMA UpdateCounts ==
  ASSUME BadgeInv, NEW token \in Badge!TokenIds, NEW to \in Holders, NEW types,
         types \in [Badge!TokenIds -> BadgeTypes \union {"none"}],
         \A t \in Badge!TokenIds : t # token => types[t] = badgeTypes[t],
         ownerOf[token] = "zero" \/ types[token] = badgeTypes[token],
         Badge!update(to, token, types),
         NEW next \in 0..MaxTokens, next >= nextTokenId, token < next
  PROVE  Consistent(next, types, ownerOf', ownerBadgeCounts')
  <1>1. ownerOf' = [ownerOf EXCEPT ![token] = to]
    BY DEF Badge!update, Badge!NoType
  <1>2. /\ ownerOf \in [Badge!TokenIds -> Holders \union {"zero"}] /\ DOMAIN ownerOf = Badge!TokenIds
        /\ ownerBadgeCounts \in [Holders -> [BadgeTypes -> Int]] /\ nextTokenId \in 0..MaxTokens
        /\ \A t \in Badge!TokenIds : t >= nextTokenId => ownerOf[t] = "zero"
        /\ \A h \in Holders, b \in BadgeTypes : ownerBadgeCounts[h][b] = Cardinality(OfType(ownerOf, badgeTypes, h, b))
    BY DEF BadgeInv, Consistent, ChainTyping
  <1>3. ASSUME NEW h \in Holders, NEW b \in BadgeTypes
        PROVE  ownerBadgeCounts[h][b] = Cardinality(OfType(ownerOf, types, h, b))
    <2>1. \A t \in Badge!TokenIds : (ownerOf[t] = h /\ types[t] = b <=> ownerOf[t] = h /\ badgeTypes[t] = b)
      BY BadgeAssumption
    <2>2. OfType(ownerOf, types, h, b) = OfType(ownerOf, badgeTypes, h, b)
      BY <2>1 DEF OfType
    <2> QED
      BY <1>2, <2>2
  <1>4. ASSUME NEW h \in Holders, NEW b \in BadgeTypes
        PROVE  /\ ownerBadgeCounts'[h][b] = Cardinality(OfType(ownerOf', types, h, b))
    <2>1. Cardinality(OfType(ownerOf', types, h, b)) =
           Cardinality(OfType(ownerOf, types, h, b))
             - (IF h = ownerOf[token] /\ b = types[token] THEN 1 ELSE 0)
             + (IF h = to /\ b = types[token] THEN 1 ELSE 0)
      <3>1. MovesTo(ownerOf, ownerOf', token, to)
        BY <1>1, <1>2 DEF MovesTo
      <3> QED
        BY <3>1, MovesOne
    <2>2. CASE types[token] = "none"
      <3>1. b # types[token] /\ ownerBadgeCounts' = ownerBadgeCounts
        BY <2>2, BadgeAssumption DEF Badge!update, Badge!NoType
      <3>2. ownerBadgeCounts[h][b] \in Int
        BY <1>2
      <3> QED
        BY <1>3, <2>1, <3>1, <3>2
    <2>3. CASE types[token] # "none"
      <3>1. ownerBadgeCounts' = Badge!countsAfter(ownerOf[token], to, types[token])
        BY <2>3 DEF Badge!update, Badge!NoType
      <3>2. ownerBadgeCounts'[h][b] = ownerBadgeCounts[h][b]
              - (IF h = ownerOf[token] /\ b = types[token] THEN 1 ELSE 0)
              + (IF h = to /\ b = types[token] THEN 1 ELSE 0)
        BY <3>1 DEF Badge!countsAfter
      <3> QED
        BY <1>3, <2>1, <3>2
    <2> QED
      BY <2>2, <2>3
  <1>5. ownerBadgeCounts' \in [Holders -> [BadgeTypes -> Int]]
    <2>1. CASE types[token] = "none"
      BY <1>2, <2>1 DEF Badge!update, Badge!NoType
    <2>2. CASE types[token] # "none"
      <3>1. \A h \in Holders, b \in BadgeTypes : ownerBadgeCounts[h][b] \in Int
        BY <1>2
      <3> QED
        BY <2>2, <3>1 DEF Badge!update, Badge!NoType, Badge!countsAfter
    <2> QED
      BY <2>1, <2>2
  <1>6. ownerOf' \in [Badge!TokenIds -> Holders \union {"zero"}]
    BY <1>1, <1>2
  <1>7. ASSUME NEW t \in Badge!TokenIds, t >= next PROVE ownerOf'[t] = "zero"
    <2>1. t # token /\ t >= nextTokenId
      BY <1>2, <1>7, BadgeAssumption DEF Badge!TokenIds
    <2> QED
      BY <1>1, <1>2, <2>1
  <1> QED
    BY <1>4, <1>5, <1>6, <1>7 DEF Consistent, ChainTyping

LEMMA BadgeNext ==
  ASSUME frames' \in Seq(MintFrame), Consistent(nextTokenId', badgeTypes', ownerOf', ownerBadgeCounts'),
         frames' # <<>> => Consistent(undo'[1], undo'[2], undo'[3], undo'[4])
  PROVE  BadgeInv'
  <1>1. Consistent(nextTokenId, badgeTypes, ownerOf, ownerBadgeCounts)'
    BY DEF Consistent, ChainTyping, OfType
  <1>2. (frames # <<>> => Consistent(undo[1], undo[2], undo[3], undo[4]))'
    BY DEF Consistent, ChainTyping, OfType
  <1> QED
    BY <1>1, <1>2 DEF BadgeInv

LEMMA BadgesKeep ==
  ASSUME BadgeInv, [Badge!Next]_Badge!badgeVars
  PROVE  BadgeInv'
  <1>0. Consistent(nextTokenId, badgeTypes, ownerOf, ownerBadgeCounts) /\ frames \in Seq(MintFrame)
    BY DEF BadgeInv
  <1>1. ASSUME UNCHANGED <<nextTokenId, badgeTypes, ownerOf, ownerBadgeCounts, undo>>, frames' \in Seq(MintFrame),
               frames' # <<>> => frames # <<>>
        PROVE  BadgeInv'
    BY <1>1, BadgeNext DEF BadgeInv
  <1>2. ASSUME NEW m \in Minters, Badge!authorizeMinter(m) \/ Badge!revokeMinter(m) PROVE BadgeInv'
    BY <1>0, <1>1, <1>2 DEF Badge!authorizeMinter, Badge!revokeMinter, Badge!chain
  <1>3. ASSUME NEW batch \in Badge!Batches, Badge!mintCalled(batch) PROVE BadgeInv'
    <2>1. /\ UNCHANGED <<nextTokenId, badgeTypes, ownerOf, ownerBadgeCounts>>
          /\ frames' = Append(frames, [todo |-> batch, callee |-> "zero"])
          /\ undo' = IF frames = <<>> THEN <<nextTokenId, badgeTypes, ownerOf, ownerBadgeCounts>> ELSE undo
      BY <1>3 DEF Badge!mintCalled, Badge!chain, Badge!Zero
    <2>2. batch \in Seq(Badge!Orders)
      <3>1. CASE \E o \in Badge!Orders : batch = <<o>>
        BY <3>1
      <3>2. CASE \E o \in Badge!Orders, q \in Badge!Orders : batch = <<o, q>>
        BY <3>2
      <3> QED
        BY <3>1, <3>2 DEF Badge!Batches
    <2>3. [todo |-> batch, callee |-> "zero"] \in MintFrame
      BY <2>2 DEF MintFrame
    <2>4. frames' \in Seq(MintFrame)
      BY <1>0, <2>1, <2>3
    <2>5. Consistent(undo'[1], undo'[2], undo'[3], undo'[4])
      <3>1. CASE frames = <<>>
        BY <1>0, <2>1, <3>1
      <3>2. CASE frames # <<>>
        BY <2>1, <3>2 DEF BadgeInv
      <3> QED
        BY <3>1, <3>2
    <2> QED
      BY <1>0, <2>1, <2>4, <2>5, BadgeNext DEF BadgeInv
  <1>4. CASE Badge!mintOne
    <2> DEFINE top == frames[Len(frames)]
               to == Head(top.todo)[1]
               f == [todo |-> Tail(top.todo), callee |-> IF to \in Callees THEN to ELSE "zero"]
    <2>1. /\ frames # <<>> /\ top.todo # <<>> /\ nextTokenId < MaxTokens /\ nextTokenId' = nextTokenId + 1
          /\ badgeTypes' = Badge!typesAtMint(nextTokenId, Head(top.todo)[2])
          /\ Badge!update(to, nextTokenId, badgeTypes') /\ undo' = undo
          /\ frames' = [frames EXCEPT ![Len(frames)] = f]
      BY <1>4 DEF Badge!mintOne, Badge!top, Badge!setTop, Badge!Zero
    <2>2. top \in MintFrame /\ Len(frames) \in DOMAIN frames
      BY <1>0, <2>1
    <2>3. Head(top.todo) \in Holders \X BadgeTypes /\ Tail(top.todo) \in Seq(Badge!Orders)
      BY <2>1, <2>2 DEF MintFrame, Badge!Orders
    <2>4. to \in Holders /\ f \in MintFrame
      BY <2>3 DEF MintFrame
    <2>5. nextTokenId \in Badge!TokenIds /\ nextTokenId' \in 0..MaxTokens /\ nextTokenId' >= nextTokenId
          /\ nextTokenId < nextTokenId'
      BY <1>0, <2>1, BadgeAssumption DEF Badge!TokenIds, Consistent, ChainTyping
    <2>6. /\ badgeTypes' \in [Badge!TokenIds -> BadgeTypes \union {"none"}]
          /\ \A t \in Badge!TokenIds : t # nextTokenId => badgeTypes'[t] = badgeTypes[t]
      BY <1>0, <2>1, <2>3, <2>5 DEF Badge!typesAtMint, Consistent, ChainTyping
    <2>7. ownerOf[nextTokenId] = "zero"
      BY <1>0, <2>5 DEF Consistent, ChainTyping
    <2>8. frames' \in Seq(MintFrame) /\ frames' # <<>>
      <3> HIDE DEF f
      <3> QED
        BY <1>0, <2>1, <2>2, <2>4
    <2> HIDE DEF to, f, top
    <2>9. Consistent(nextTokenId', badgeTypes', ownerOf', ownerBadgeCounts')
      BY <2>1, <2>4, <2>5, <2>6, <2>7, UpdateCounts
    <2>10. Consistent(undo[1], undo[2], undo[3], undo[4])
      BY <2>1 DEF BadgeInv
    <2> QED
      BY <2>1, <2>8, <2>9, <2>10, BadgeNext DEF BadgeInv
  <1>5. CASE Badge!callbackAccepts
    <2>1. /\ UNCHANGED <<nextTokenId, badgeTypes, ownerOf, ownerBadgeCounts, undo>> /\ frames # <<>>
          /\ frames' = [frames EXCEPT ![Len(frames)] = [frames[Len(frames)] EXCEPT !.callee = "zero"]]
      BY <1>5 DEF Badge!callbackAccepts, Badge!top, Badge!setTop, Badge!Zero, Badge!chain
    <2>2. frames[Len(frames)] \in MintFrame /\ Len(frames) \in DOMAIN frames
      BY <1>0, <2>1
    <2>3. [frames[Len(frames)] EXCEPT !.callee = "zero"] \in MintFrame
      BY <2>2 DEF MintFrame
    <2>4. frames' \in Seq(MintFrame)
      BY <1>0, <2>1, <2>2, <2>3
    <2> QED
      BY <1>1, <2>1, <2>4
  <1>6. CASE Badge!callbackRefuses
    <2>1. /\ frames # <<>> /\ nextTokenId' = undo[1] /\ badgeTypes' = undo[2] /\ ownerOf' = undo[3]
          /\ ownerBadgeCounts' = undo[4] /\ frames' = <<>>
      BY <1>6 DEF Badge!callbackRefuses
    <2>2. Consistent(nextTokenId', badgeTypes', ownerOf', ownerBadgeCounts')
      BY <2>1 DEF BadgeInv
    <2> QED
      BY <2>1, <2>2, BadgeNext DEF BadgeInv
  <1>7. CASE Badge!mintReturns
    <2>1. /\ UNCHANGED <<nextTokenId, badgeTypes, ownerOf, ownerBadgeCounts>> /\ frames # <<>>
          /\ frames' = SubSeq(frames, 1, Len(frames) - 1) /\ undo' = IF Len(frames) = 1 THEN Badge!noUndo ELSE undo
      BY <1>7 DEF Badge!mintReturns, Badge!chain
    <2>2. frames' \in Seq(MintFrame) /\ (frames' # <<>> => Len(frames) # 1)
      BY <1>0, <2>1
    <2>3. frames' # <<>> => Consistent(undo'[1], undo'[2], undo'[3], undo'[4])
      BY <2>1, <2>2, BadgeNext DEF BadgeInv
    <2> QED
      BY <1>0, <2>1, <2>2, <2>3, BadgeNext DEF BadgeInv
  <1>8. ASSUME NEW token \in Badge!TokenIds, NEW to \in Holders, Badge!transfer(token, to) PROVE BadgeInv'
    <2>1. /\ ownerOf[token] # "zero" /\ Badge!update(to, token, badgeTypes)
          /\ UNCHANGED <<nextTokenId, badgeTypes, frames, undo>>
      BY <1>8 DEF Badge!transfer, Badge!Zero
    <2>2. /\ nextTokenId \in 0..MaxTokens /\ badgeTypes \in [Badge!TokenIds -> BadgeTypes \union {"none"}]
          /\ token < nextTokenId /\ nextTokenId >= nextTokenId
      BY <1>0, <2>1, BadgeAssumption DEF Consistent, ChainTyping, Badge!TokenIds
    <2>3. Consistent(nextTokenId, badgeTypes, ownerOf', ownerBadgeCounts')
      BY <2>1, <2>2, UpdateCounts
    <2> QED
      BY <1>0, <2>1, <2>3, BadgeNext DEF BadgeInv
  <1>9. CASE UNCHANGED Badge!badgeVars
    BY <1>0, <1>1, <1>9 DEF Badge!badgeVars
  <1> QED
    BY <1>2, <1>3, <1>4, <1>5, <1>6, <1>7, <1>8, <1>9 DEF Badge!Next

(* The counts hasBadgeType answers from are those of the badges owned, in the
   middle of a mint and after a revert too (DynamicBadge.sol:86, 126). *)
THEOREM CountsAreRight == MCSpec => []CountsAreOwnership
  <1>1. MCInit => BadgeInv
    <2> SUFFICES ASSUME MCInit PROVE BadgeInv
      OBVIOUS
    <2>1. /\ nextTokenId = 0 /\ badgeTypes = [t \in Badge!TokenIds |-> "none"]
          /\ ownerOf = [t \in Badge!TokenIds |-> "zero"]
          /\ ownerBadgeCounts = [h \in Holders |-> [b \in BadgeTypes |-> 0]] /\ frames = <<>>
      BY DEF MCInit, Badge!Init, Badge!Zero, Badge!NoType
    <2>2. ASSUME NEW h \in Holders, NEW b \in BadgeTypes
          PROVE  ownerBadgeCounts[h][b] = Cardinality(OfType(ownerOf, badgeTypes, h, b))
      <3>1. OfType(ownerOf, badgeTypes, h, b) = {}
        BY <2>1, BadgeAssumption DEF OfType
      <3> QED
        BY <2>1, <3>1, FS_EmptySet
    <2>3. ChainTyping(nextTokenId, badgeTypes, ownerOf, ownerBadgeCounts)
      BY <2>1, BadgeAssumption DEF ChainTyping
    <2> QED
      BY <2>1, <2>2, <2>3 DEF BadgeInv, Consistent
  <1>2. BadgeInv /\ [MCNext]_MCVars => BadgeInv'
    <2>1. [MCNext]_MCVars => [Badge!Next]_Badge!badgeVars
      BY DEF MCNext, OutsideNext, MCVars, outsideVars, badgeVars, Badge!badgeVars
    <2> QED
      BY <2>1, BadgesKeep
  <1>3. BadgeInv => CountsAreOwnership
    BY BadgeCardinality DEF BadgeInv, Consistent, OfType, CountsAreOwnership, Badge!CountsAreOwnership
  <1> QED
    BY <1>1, <1>2, <1>3, PTL DEF MCSpec

-----------------------------------------------------------------------------
(* Two ledgers.  A sum over the senders and the reading of a log are recursive
   functions over data: that they are what their equations say, and what one more
   entry does to them, is shown by the least number that would be an exception. *)

LEMMA LeastNumber ==
  ASSUME NEW T, T \subseteq Nat, T # {}
  PROVE  \E n \in T : \A m \in T : n <= m
  <1>1. PICK n \in T : \A m \in T : ~ (<<m, n>> \in OpToRel(<, Nat))
    BY NatLessThanWellFounded, WFMin, Zenon
  <1>2. ASSUME NEW m \in T PROVE n <= m
    <2>1. m < n => <<m, n>> \in OpToRel(<, Nat)
      BY DEF OpToRel
    <2>2. ~ (m < n)
      BY <1>1, <2>1, Zenon
    <2> QED
      BY <2>2
  <1> QED
    BY <1>2

(* The books of the batches: a sender counts once in what is owed. *)
Picked(s) == CHOOSE x \in s : TRUE
Total(p, g, s) == IF s = {} THEN 0 ELSE p[Picked(s)] + g[s \ {Picked(s)}]

(* g is the sum of p on the subsets of S of at most n elements. *)
Adds(p, S, g, n) ==
  /\ DOMAIN g = SUBSET S
  /\ \A s \in SUBSET S : Cardinality(s) <= n => g[s] = Total(p, g, s)

SumOver(p, S) == CHOOSE g : g = [s \in SUBSET S |-> Total(p, g, s)]

LEMMA Smaller ==
  ASSUME NEW S, IsFiniteSet(S), NEW s \in SUBSET S, s # {}
  PROVE  /\ Picked(s) \in s /\ s \ {Picked(s)} \in SUBSET S
         /\ Cardinality(s) \in Nat /\ Cardinality(s) # 0
         /\ Cardinality(s \ {Picked(s)}) = Cardinality(s) - 1
  <1>1. Picked(s) \in s
    BY DEF Picked
  <1>2. IsFiniteSet(s)
    BY FS_Subset
  <1>3. Cardinality(s) \in Nat /\ Cardinality(s) # 0
    BY <1>2, FS_CardinalityType, FS_EmptySet
  <1>4. Cardinality(s \ {Picked(s)}) = Cardinality(s) - 1
    BY <1>1, <1>2, FS_RemoveElement
  <1> QED
    BY <1>1, <1>3, <1>4

LEMMA AddsMore ==
  ASSUME NEW p, NEW S, IsFiniteSet(S), NEW n \in Int, NEW g, n >= 0 => Adds(p, S, g, n)
  PROVE  Adds(p, S, [s \in SUBSET S |-> Total(p, g, s)], n + 1)
  <1> DEFINE h == [s \in SUBSET S |-> Total(p, g, s)]
  <1>1. ASSUME NEW s \in SUBSET S, Cardinality(s) <= n + 1 PROVE h[s] = Total(p, h, s)
    <2>1. CASE s = {}
      BY <2>1 DEF Total
    <2>2. CASE s # {}
      <3>1. s \ {Picked(s)} \in SUBSET S /\ Cardinality(s \ {Picked(s)}) <= n /\ n >= 0
        BY <1>1, <2>2, Smaller
      <3>2. g[s \ {Picked(s)}] = Total(p, g, s \ {Picked(s)})
        BY <3>1 DEF Adds
      <3>3. h[s \ {Picked(s)}] = g[s \ {Picked(s)}]
        BY <3>1, <3>2
      <3>4. h[s] = Total(p, g, s)
        OBVIOUS
      <3> HIDE DEF h
      <3> QED
        BY <3>3, <3>4 DEF Total
    <2> QED
      BY <2>1, <2>2
  <1> QED
    BY <1>1 DEF Adds

LEMMA SumExists ==
  ASSUME NEW p, NEW S, IsFiniteSet(S)
  PROVE  \A s \in SUBSET S : SumOver(p, S)[s] = Total(p, SumOver(p, S), s)
  <1> DEFINE Bad == {n \in Nat : ~ \E g : Adds(p, S, g, n)}
  <1>1. Bad = {}
    <2> SUFFICES ASSUME Bad # {} PROVE FALSE
      OBVIOUS
    <2>1. PICK n \in Bad : \A m \in Bad : n <= m
      BY LeastNumber
    <2>2. n - 1 >= 0 => \E g : Adds(p, S, g, n - 1)
      BY <2>1
    <2>3. PICK g : n - 1 >= 0 => Adds(p, S, g, n - 1)
      BY <2>2
    <2>4. n - 1 \in Int /\ (n - 1) + 1 = n
      OBVIOUS
    <2>5. \E h : Adds(p, S, h, (n - 1) + 1)
      BY <2>3, <2>4, AddsMore
    <2> QED
      BY <2>4, <2>5
  <1>2. Cardinality(S) \in Nat
    BY FS_CardinalityType
  <1>3. PICK g : Adds(p, S, g, Cardinality(S))
    BY <1>1, <1>2
  <1>4. \A s \in SUBSET S : g[s] = Total(p, g, s)
    BY <1>3, FS_Subset DEF Adds
  <1>5. [s \in SUBSET S |-> g[s]] = [s \in SUBSET S |-> Total(p, [s2 \in SUBSET S |-> g[s2]], s)]
    <2>1. ASSUME NEW s \in SUBSET S PROVE g[s] = Total(p, [s2 \in SUBSET S |-> g[s2]], s)
      BY <1>4, Smaller DEF Total
    <2> QED
      BY <2>1
  <1>6. SumOver(p, S) = [s \in SUBSET S |-> Total(p, SumOver(p, S), s)]
    BY <1>5 DEF SumOver
  <1> DEFINE f == SumOver(p, S)
  <1>7. f = [s \in SUBSET S |-> Total(p, f, s)]
    BY <1>6
  <1> HIDE DEF f
  <1>8. \A s \in SUBSET S : f[s] = Total(p, f, s)
    BY <1>7
  <1> QED
    BY <1>8 DEF f

(* The sum of integers is one, and an entry counts once. *)
LEMMA SumChanges ==
  ASSUME NEW S, IsFiniteSet(S), NEW p \in [S -> Int], NEW q \in [S -> Int], NEW u \in S, NEW d \in Int,
         q[u] = p[u] + d, \A w \in S \ {u} : q[w] = p[w]
  PROVE  SumOver(p, S)[S] \in Int /\ SumOver(q, S)[S] = SumOver(p, S)[S] + d
  <1> DEFINE P == SumOver(p, S)
             Q == SumOver(q, S)
             Right(s) == P[s] \in Int /\ Q[s] = P[s] + (IF u \in s THEN d ELSE 0)
             Bad == {n \in Nat : \E s \in SUBSET S : Cardinality(s) = n /\ ~Right(s)}
  <1>0. \A s \in SUBSET S : P[s] = Total(p, P, s) /\ Q[s] = Total(q, Q, s)
    <2>1. \A s \in SUBSET S : P[s] = Total(p, P, s)
      BY SumExists
    <2>2. \A s \in SUBSET S : Q[s] = Total(q, Q, s)
      BY SumExists
    <2> HIDE DEF P, Q
    <2> QED
      BY <2>1, <2>2
  <1> HIDE DEF P, Q
  <1>1. Bad = {}
    <2> SUFFICES ASSUME Bad # {} PROVE FALSE
      OBVIOUS
    <2>1. PICK n \in Bad : \A m \in Bad : n <= m
      BY LeastNumber
    <2>2. PICK s \in SUBSET S : Cardinality(s) = n /\ ~Right(s)
      BY <2>1
    <2>3. s # {}
      <3> SUFFICES ASSUME s = {} PROVE Right(s)
        BY <2>2
      <3>1. P[s] = 0 /\ Q[s] = 0
        BY <1>0 DEF Total
      <3> QED
        BY <3>1
    <2> DEFINE x == Picked(s)
               rest == s \ {x}
    <2>4. x \in s /\ rest \in SUBSET S /\ Cardinality(rest) = n - 1 /\ Cardinality(rest) \in Nat
      BY <2>2, <2>3, Smaller
    <2>5. P[s] = p[x] + P[rest] /\ Q[s] = q[x] + Q[rest]
      BY <1>0, <2>3 DEF Total
    <2>6. Right(rest)
      BY <2>1, <2>4
    <2>7. p[x] \in Int /\ q[x] = p[x] + (IF x = u THEN d ELSE 0)
      BY <2>4
    <2>8. u \in s <=> u = x \/ u \in rest
      BY <2>4
    <2>9. x \notin rest
      OBVIOUS
    <2> HIDE DEF rest, x
    <2> QED
      BY <2>2, <2>5, <2>6, <2>7, <2>8, <2>9
  <1>2. Right(S)
    BY <1>1, FS_CardinalityType
  <1> QED
    BY <1>2 DEF P, Q

(* A sum of zeros. *)
LEMMA SumOfZeros ==
  ASSUME NEW S, IsFiniteSet(S), NEW p, \A u \in S : p[u] = 0
  PROVE  SumOver(p, S)[S] = 0
  <1> DEFINE P == SumOver(p, S)
             Bad == {n \in Nat : \E s \in SUBSET S : Cardinality(s) = n /\ P[s] # 0}
  <1>0. \A s \in SUBSET S : P[s] = Total(p, P, s)
    BY SumExists
  <1> HIDE DEF P
  <1>1. Bad = {}
    <2> SUFFICES ASSUME Bad # {} PROVE FALSE
      OBVIOUS
    <2>1. PICK n \in Bad : \A m \in Bad : n <= m
      BY LeastNumber
    <2>2. PICK s \in SUBSET S : Cardinality(s) = n /\ P[s] # 0
      BY <2>1
    <2>3. s # {}
      BY <1>0, <2>2 DEF Total
    <2> DEFINE x == Picked(s)
               rest == s \ {x}
    <2>4. x \in s /\ rest \in SUBSET S /\ Cardinality(rest) = n - 1 /\ Cardinality(rest) \in Nat
      BY <2>2, <2>3, Smaller
    <2>5. P[s] = p[x] + P[rest] /\ p[x] = 0
      BY <1>0, <2>3, <2>4 DEF Total
    <2>6. P[rest] = 0
      BY <2>1, <2>4
    <2> HIDE DEF rest, x
    <2> QED
      BY <2>2, <2>5, <2>6
  <1>2. P[S] = 0
    BY <1>1, FS_CardinalityType
  <1> QED
    BY <1>2 DEF P

LEMMA OwedIsSum == Batch!owed = SumOver(pendingRefunds, Batch!Senders)[Batch!Senders]
  BY DEF Batch!owed, Batch!MapThenSumSet, Batch!MapThenFoldSet, Total, Picked, SumOver

(* In a batch, what the contract holds is what it held before, the ether the
   batch brought and has not used, and what the targets gave since. *)
TxTyping ==
  tx # Batch!NoTx =>
    /\ tx.kind # "none" /\ tx.sender \in Batch!Senders
    /\ DOMAIN tx = {"kind", "sender", "value", "left", "used", "before", "givenBefore"}
    /\ tx.value \in Int /\ tx.used \in Int /\ tx.before \in Int /\ tx.givenBefore \in Int
BatchTyping ==
  /\ pendingRefunds \in [Batch!Senders -> Int]
  /\ balance \in Int /\ given \in Int /\ drained \in Int /\ overspent \in Int
  /\ TxTyping

InBatch ==
  /\ balance + tx.used + tx.givenBefore = tx.before + tx.value + given
  /\ tx.before + drained + overspent = Batch!owed + tx.givenBefore

BatchInv == BatchTyping /\ Batch!BooksBalance /\ (tx # Batch!NoTx => InBatch)

LEMMA OwedTyping == BatchTyping => Batch!owed \in Int
  <1> SUFFICES ASSUME BatchTyping PROVE Batch!owed \in Int
    OBVIOUS
  <1> DEFINE p == pendingRefunds
  <1>1. IsFiniteSet(Batch!Senders) /\ Owner \in Batch!Senders
    BY SendersAssumption, FS_AddElement DEF Batch!Senders
  <1>2. p \in [Batch!Senders -> Int] /\ p[Owner] = p[Owner] + 0
    BY <1>1 DEF BatchTyping
  <1> HIDE DEF p
  <1>3. SumOver(p, Batch!Senders)[Batch!Senders] \in Int
    BY <1>1, <1>2, SumChanges
  <1> QED
    BY <1>3, OwedIsSum DEF p

LEMMA OwedNext ==
  ASSUME pendingRefunds' = pendingRefunds
  PROVE  Batch!owed' = Batch!owed
  <1>1. Batch!owed' = SumOver(pendingRefunds', Batch!Senders)[Batch!Senders]
    BY DEF Batch!owed, Batch!MapThenSumSet, Batch!MapThenFoldSet, Total, Picked, SumOver, Batch!Senders
  <1> QED
    BY <1>1, OwedIsSum

(* One entry changes. *)
LEMMA OwedChanges ==
  ASSUME BatchTyping, NEW u \in Batch!Senders, NEW d \in Int,
         pendingRefunds' = [pendingRefunds EXCEPT ![u] = pendingRefunds[u] + d]
  PROVE  /\ pendingRefunds' \in [Batch!Senders -> Int]
         /\ Batch!owed' = Batch!owed + d
  <1> DEFINE p == pendingRefunds
             q == pendingRefunds'
  <1>1. IsFiniteSet(Batch!Senders)
    BY SendersAssumption, FS_AddElement DEF Batch!Senders
  <1>2. p \in [Batch!Senders -> Int] /\ q \in [Batch!Senders -> Int]
    BY DEF BatchTyping
  <1>3. q[u] = p[u] + d /\ \A x \in Batch!Senders \ {u} : q[x] = p[x]
    BY <1>2
  <1>4. Batch!owed' = SumOver(q, Batch!Senders)[Batch!Senders]
    BY DEF Batch!owed, Batch!MapThenSumSet, Batch!MapThenFoldSet, Total, Picked, SumOver, Batch!Senders
  <1>5. Batch!owed = SumOver(p, Batch!Senders)[Batch!Senders]
    BY OwedIsSum
  <1>6. q \in [Batch!Senders -> Int]
    BY <1>2
  <1> HIDE DEF p, q
  <1>7. SumOver(q, Batch!Senders)[Batch!Senders] = SumOver(p, Batch!Senders)[Batch!Senders] + d
    BY <1>1, <1>2, <1>3, SumChanges
  <1> QED
    BY <1>4, <1>5, <1>6, <1>7 DEF q

LEMMA BatchKeeps == BatchInv /\ [Batch!Next]_Batch!batchVars => BatchInv'
  <1> SUFFICES ASSUME BatchInv, [Batch!Next]_Batch!batchVars PROVE BatchInv'
    OBVIOUS
  <1> USE DEF BatchInv
  <1>0. Batch!owed \in Int
    BY OwedTyping
  <1>a. /\ pendingRefunds \in [Batch!Senders -> Int]
        /\ balance \in Int /\ given \in Int /\ drained \in Int /\ overspent \in Int
    BY DEF BatchTyping
  <1>1. ASSUME NEW u \in Executors, Batch!authorizeExecutor(u) \/ Batch!revokeExecutor(u) PROVE BatchInv'
    <2>1. UNCHANGED <<pendingRefunds, balance, tx, given, drained, overspent>>
      BY <1>1 DEF Batch!authorizeExecutor, Batch!revokeExecutor
    <2> QED
      BY <2>1, OwedNext DEF BatchTyping, TxTyping, Batch!BooksBalance, InBatch
  <1>2. ASSUME NEW u \in Batch!Senders, NEW kind \in {"strict", "tolerant", "single"},
               NEW x \in Batch!Values, NEW n \in 1..MaxCalls, Batch!begin(u, kind, x, n)
        PROVE BatchInv'
    <2>1. /\ tx = Batch!NoTx /\ balance' = balance + x
          /\ UNCHANGED <<pendingRefunds, given, drained, overspent>>
      BY <1>2 DEF Batch!begin
    <2>2. tx' = [kind |-> kind, sender |-> u, value |-> x, left |-> n, used |-> 0,
                 before |-> balance, givenBefore |-> given]
      BY <1>2 DEF Batch!begin
    <2>3. x \in Int
      BY DEF Batch!Values
    <2>4. Batch!owed' = Batch!owed
      BY <2>1, OwedNext
    <2>5. TxTyping'
      BY <1>a, <2>2, <2>3 DEF TxTyping, Batch!Senders
    <2>6. tx' # Batch!NoTx
      BY <2>2 DEF Batch!NoTx
    <2>7. InBatch'
      BY <1>0, <1>a, <2>1, <2>2, <2>3, <2>4 DEF InBatch, Batch!BooksBalance
    <2> QED
      BY <1>a, <2>1, <2>3, <2>5, <2>6, <2>7 DEF BatchTyping, Batch!BooksBalance, Batch!NoTx, Batch!Senders
  <1>3. ASSUME NEW x \in Batch!Values, NEW back \in Batch!Values, Batch!callSucceeds(x, back) PROVE BatchInv'
    <2>1. /\ tx # Batch!NoTx /\ balance' = balance - x + back /\ given' = given + back
          /\ UNCHANGED <<pendingRefunds, drained, overspent>>
      BY <1>3 DEF Batch!callSucceeds
    <2>2. tx' = [tx EXCEPT !.left = @ - 1, !.used = @ + x]
      BY <1>3 DEF Batch!callSucceeds, Batch!countsAsUsed
    <2>3. x \in Int /\ back \in Int
      BY DEF Batch!Values
    <2>4. Batch!owed' = Batch!owed
      BY <2>1, OwedNext
    <2>5. /\ tx.kind # "none" /\ tx.sender \in Batch!Senders
          /\ DOMAIN tx = {"kind", "sender", "value", "left", "used", "before", "givenBefore"}
          /\ tx.value \in Int /\ tx.used \in Int /\ tx.before \in Int /\ tx.givenBefore \in Int
      BY <2>1 DEF BatchTyping, TxTyping
    <2>6. /\ tx'.kind = tx.kind /\ tx'.sender = tx.sender /\ DOMAIN tx' = DOMAIN tx
          /\ tx'.value = tx.value /\ tx'.before = tx.before /\ tx'.givenBefore = tx.givenBefore
          /\ tx'.used = tx.used + x
      BY <2>2, <2>5
    <2>7. TxTyping'
      BY <2>3, <2>5, <2>6 DEF TxTyping, Batch!Senders
    <2>8. tx' # Batch!NoTx
      BY <2>5, <2>6 DEF Batch!NoTx
    <2>9. InBatch'
      BY <1>0, <1>a, <2>1, <2>3, <2>4, <2>5, <2>6 DEF InBatch
    <2> QED
      BY <1>a, <2>1, <2>3, <2>7, <2>8, <2>9 DEF BatchTyping, Batch!BooksBalance, Batch!NoTx, Batch!Senders
  <1>4. ASSUME NEW x \in Batch!Values, Batch!callFails(x) PROVE BatchInv'
    <2>1. tx # Batch!NoTx /\ UNCHANGED <<pendingRefunds, drained, overspent>>
      BY <1>4 DEF Batch!callFails
    <2>2. Batch!owed' = Batch!owed
      BY <2>1, OwedNext
    <2>3. /\ tx.kind # "none" /\ tx.sender \in Batch!Senders
          /\ DOMAIN tx = {"kind", "sender", "value", "left", "used", "before", "givenBefore"}
          /\ tx.value \in Int /\ tx.used \in Int /\ tx.before \in Int /\ tx.givenBefore \in Int
      BY <2>1 DEF BatchTyping, TxTyping
    <2>4. CASE tx.kind = "strict"
      <3>1. tx' = Batch!NoTx /\ balance' = tx.before /\ given' = tx.givenBefore
        BY <1>4, <2>4 DEF Batch!callFails
      <3> QED
        BY <1>0, <1>a, <2>1, <2>2, <2>3, <3>1
           DEF BatchTyping, TxTyping, Batch!BooksBalance, InBatch, Batch!NoTx, Batch!Senders
    <2>5. CASE tx.kind # "strict"
      <3>1. tx' = [tx EXCEPT !.left = @ - 1, !.used = @ + 0] /\ UNCHANGED <<balance, given>>
        BY <1>4, <2>5 DEF Batch!callFails, Batch!countsAsUsed
      <3>2. /\ tx'.kind = tx.kind /\ tx'.sender = tx.sender /\ DOMAIN tx' = DOMAIN tx
            /\ tx'.value = tx.value /\ tx'.before = tx.before /\ tx'.givenBefore = tx.givenBefore
            /\ tx'.used = tx.used
        BY <2>3, <3>1
      <3>3. TxTyping'
        BY <2>3, <3>2 DEF TxTyping, Batch!Senders
      <3>4. tx' # Batch!NoTx
        BY <2>3, <3>2 DEF Batch!NoTx
      <3>5. InBatch'
        BY <1>0, <1>a, <2>1, <2>2, <2>3, <3>1, <3>2 DEF InBatch
      <3> QED
        BY <1>a, <2>1, <3>1, <3>3, <3>4, <3>5 DEF BatchTyping, Batch!BooksBalance, Batch!NoTx, Batch!Senders
    <2> QED
      BY <2>4, <2>5
  <1>5. ASSUME NEW x \in Batch!Values, Batch!receive(x) PROVE BatchInv'
    <2>1. /\ tx = Batch!NoTx /\ balance' = balance + x /\ given' = given + x
          /\ UNCHANGED <<pendingRefunds, tx, drained, overspent>>
      BY <1>5 DEF Batch!receive
    <2>2. x \in Int /\ Batch!owed' = Batch!owed
      BY <2>1, OwedNext DEF Batch!Values
    <2> QED
      BY <1>0, <1>a, <2>1, <2>2 DEF BatchTyping, TxTyping, Batch!BooksBalance, Batch!NoTx, Batch!Senders
  <1>6. CASE Batch!finish
    <2>1. /\ tx # Batch!NoTx /\ tx' = Batch!NoTx /\ UNCHANGED <<balance, given, drained>>
          /\ overspent' = overspent + (IF tx.used > tx.value THEN tx.used - tx.value ELSE 0)
      BY <1>6 DEF Batch!finish
    <2>2. tx.sender \in Batch!Senders /\ tx.value \in Int /\ tx.used \in Int
          /\ tx.before \in Int /\ tx.givenBefore \in Int
      BY <2>1 DEF BatchTyping, TxTyping
    <2> DEFINE d == IF tx.value > tx.used THEN tx.value - tx.used ELSE 0
    <2>3. pendingRefunds' = [pendingRefunds EXCEPT ![tx.sender] = pendingRefunds[tx.sender] + d]
      <3>1. CASE tx.value > tx.used
        BY <1>6, <3>1 DEF Batch!finish, Batch!refundExcess
      <3>2. CASE ~ (tx.value > tx.used)
        BY <1>6, <1>a, <2>2, <3>2 DEF Batch!finish, Batch!refundExcess
      <3> QED
        BY <3>1, <3>2
    <2>4. d \in Int
      BY <2>2
    <2>5. pendingRefunds' \in [Batch!Senders -> Int] /\ Batch!owed' = Batch!owed + d
      BY <2>2, <2>3, <2>4, OwedChanges
    <2>6. balance' + drained' + overspent' = Batch!owed' + given'
      BY <1>0, <1>a, <2>1, <2>2, <2>5 DEF InBatch
    <2>7. overspent' \in Int
      BY <1>a, <2>1, <2>2
    <2> QED
      BY <1>a, <2>1, <2>5, <2>6, <2>7 DEF BatchTyping, TxTyping, Batch!BooksBalance, Batch!NoTx, Batch!Senders
  <1>7. CASE Batch!emergencyWithdraw
    <2>1. /\ tx = Batch!NoTx /\ drained' = drained + balance /\ balance' = 0
          /\ UNCHANGED <<pendingRefunds, tx, given, overspent>>
      BY <1>7 DEF Batch!emergencyWithdraw
    <2>2. Batch!owed' = Batch!owed
      BY <2>1, OwedNext
    <2> QED
      BY <1>0, <1>a, <2>1, <2>2 DEF BatchTyping, TxTyping, Batch!BooksBalance, Batch!NoTx, Batch!Senders
  <1>8. ASSUME NEW u \in Batch!Senders, Batch!withdrawRefund(u) PROVE BatchInv'
    <2>1. /\ tx = Batch!NoTx /\ balance' = balance - pendingRefunds[u]
          /\ pendingRefunds' = [pendingRefunds EXCEPT ![u] = 0]
          /\ UNCHANGED <<tx, given, drained, overspent>>
      BY <1>8 DEF Batch!withdrawRefund
    <2> DEFINE d == -pendingRefunds[u]
    <2>2. d \in Int /\ pendingRefunds[u] \in Int /\ pendingRefunds[u] + d = 0
      BY <1>a
    <2>3. pendingRefunds' \in [Batch!Senders -> Int] /\ Batch!owed' = Batch!owed + d
      BY <2>1, <2>2, OwedChanges
    <2> QED
      BY <1>0, <1>a, <2>1, <2>2, <2>3 DEF BatchTyping, TxTyping, Batch!BooksBalance, Batch!NoTx, Batch!Senders
  <1>9. CASE UNCHANGED Batch!batchVars
    <2>1. UNCHANGED <<pendingRefunds, balance, tx, given, drained, overspent>>
      BY <1>9 DEF Batch!batchVars
    <2> QED
      BY <2>1, OwedNext DEF BatchTyping, TxTyping, Batch!BooksBalance, InBatch
  <1> QED
    BY <1>1, <1>2, <1>3, <1>4, <1>5, <1>6, <1>7, <1>8, <1>9 DEF Batch!Next

LEMMA BatchSteps == [MCNext]_MCVars => [Batch!Next]_Batch!batchVars
  BY DEF MCNext, SoulNext, OutsideNext, HelperNext, MCVars, outsideVars, batchVars, Batch!batchVars

(* Nobody has been paid, and no call has been made. *)
LEMMA OwedAtFirst == Batch!Init => Batch!owed = 0
  <1> SUFFICES ASSUME Batch!Init PROVE Batch!owed = 0
    OBVIOUS
  <1>1. IsFiniteSet(Batch!Senders)
    BY SendersAssumption, FS_AddElement DEF Batch!Senders
  <1>2. \A u \in Batch!Senders : pendingRefunds[u] = 0
    BY DEF Batch!Init
  <1> QED
    BY <1>1, <1>2, SumOfZeros, OwedIsSum

(* For any number of senders, batches of any length and calls that fail, keep
   ether or send it back: between transactions the ether a batch executor holds
   is, to the wei, what it owes and was given, less what the owner took and what
   batches overspent (BatchExecutor.sol:160, 187). *)
THEOREM BooksAreRight == MCSpec => []BooksBalance
  <1>1. MCInit => BatchInv
    <2> SUFFICES ASSUME Batch!Init PROVE BatchInv
      BY DEF MCInit
    <2> QED
      BY OwedAtFirst DEF Batch!Init, BatchInv, BatchTyping, TxTyping, Batch!BooksBalance, Batch!NoTx
  <1>2. BatchInv /\ [MCNext]_MCVars => BatchInv'
    BY BatchKeeps, BatchSteps
  <1>3. BatchInv => BooksBalance
    BY DEF BatchInv, BooksBalance
  <1> QED
    BY <1>1, <1>2, <1>3, PTL DEF MCSpec

-----------------------------------------------------------------------------
(* The counts of tool calls.  readLog() reads line by line. *)
Entries(lines, g, i) ==
  IF i = 0 THEN <<>>
  ELSE IF lines[i].ok THEN Append(g[i - 1], lines[i].data) ELSE g[i - 1]

ReadOf(lines) == CHOOSE g : g = [i \in 0..Len(lines) |-> Entries(lines, g, i)]

LEMMA ReadLogIs == \A log : Tracker!readLog(log) = ReadOf(log.lines)[Len(log.lines)]
  BY DEF Tracker!readLog, ReadOf, Entries

(* It is defined: line n needs the n - 1 before it. *)
LEMMA ReadExists ==
  ASSUME NEW S, NEW lines \in Seq(S)
  PROVE  \A i \in 0..Len(lines) : ReadOf(lines)[i] = Entries(lines, ReadOf(lines), i)
  <1> DEFINE D == 0..Len(lines)
             Reads(g, n) == DOMAIN g = D /\ \A i \in D : i <= n => g[i] = Entries(lines, g, i)
             Bad == {n \in Nat : ~ \E g : Reads(g, n)}
  <1>0. Len(lines) \in Nat
    OBVIOUS
  <1> HIDE DEF D
  <1>1. Bad = {}
    <2> SUFFICES ASSUME Bad # {} PROVE FALSE
      OBVIOUS
    <2>1. PICK n \in Bad : \A m \in Bad : n <= m
      BY LeastNumber
    <2>2. n - 1 >= 0 => \E g : Reads(g, n - 1)
      BY <2>1
    <2>3. PICK g : n - 1 >= 0 => Reads(g, n - 1)
      BY <2>2
    <2> DEFINE h == [i \in D |-> Entries(lines, g, i)]
    <2>4. ASSUME NEW i \in D, i <= n PROVE h[i] = Entries(lines, h, i)
      <3>1. CASE i = 0
        BY <3>1 DEF Entries
      <3>2. CASE i # 0
        <4>1. i - 1 \in D /\ i - 1 <= n - 1 /\ n - 1 >= 0
          BY <2>4, <3>2, <1>0 DEF D
        <4>2. g[i - 1] = Entries(lines, g, i - 1)
          BY <2>3, <4>1
        <4>3. h[i - 1] = g[i - 1]
          BY <4>1, <4>2
        <4>4. h[i] = Entries(lines, g, i)
          OBVIOUS
        <4> HIDE DEF h
        <4> QED
          BY <3>2, <4>3, <4>4 DEF Entries
      <3> QED
        BY <3>1, <3>2
    <2>5. Reads(h, n)
      BY <2>4
    <2> QED
      BY <2>5
  <1>2. PICK g : Reads(g, Len(lines))
    BY <1>0, <1>1
  <1>3. \A i \in D : g[i] = Entries(lines, g, i)
    BY <1>0, <1>2 DEF D
  <1>4. [i \in D |-> g[i]] = [i \in D |-> Entries(lines, [j \in D |-> g[j]], i)]
    <2>1. ASSUME NEW i \in D PROVE g[i] = Entries(lines, [j \in D |-> g[j]], i)
      <3>1. i # 0 => i - 1 \in D
        BY <1>0 DEF D
      <3> QED
        BY <1>3, <3>1 DEF Entries
    <2> QED
      BY <2>1
  <1>5. ReadOf(lines) = [i \in D |-> Entries(lines, ReadOf(lines), i)]
    BY <1>4 DEF ReadOf, D
  <1> DEFINE f == ReadOf(lines)
  <1>6. f = [i \in D |-> Entries(lines, f, i)]
    BY <1>5
  <1> HIDE DEF f
  <1>7. \A i \in D : f[i] = Entries(lines, f, i)
    BY <1>6
  <1> QED
    BY <1>7 DEF f, D

(* What was read of the lines before one does not depend on what follows. *)
LEMMA ReadBefore ==
  ASSUME NEW S, NEW lines \in Seq(S), NEW more \in Seq(S), NEW k \in Nat, k <= Len(lines), k <= Len(more),
         \A i \in 1..k : lines[i] = more[i]
  PROVE  \A i \in 0..k : ReadOf(more)[i] = ReadOf(lines)[i]
  <1> DEFINE P == ReadOf(lines)
             Q == ReadOf(more)
             Bad == {n \in Nat : n <= k /\ Q[n] # P[n]}
  <1>0. \A i \in 0..k : P[i] = Entries(lines, P, i) /\ Q[i] = Entries(more, Q, i)
    <2>1. \A i \in 0..Len(lines) : P[i] = Entries(lines, P, i)
      BY ReadExists
    <2>2. \A i \in 0..Len(more) : Q[i] = Entries(more, Q, i)
      BY ReadExists
    <2> HIDE DEF P, Q
    <2> QED
      BY <2>1, <2>2
  <1> HIDE DEF P, Q
  <1>1. Bad = {}
    <2> SUFFICES ASSUME Bad # {} PROVE FALSE
      OBVIOUS
    <2>1. PICK n \in Bad : \A m \in Bad : n <= m
      BY LeastNumber
    <2>2. n # 0
      BY <1>0, <2>1 DEF Entries
    <2>3. n - 1 \notin Bad
      BY <2>1, <2>2
    <2>4. Q[n - 1] = P[n - 1]
      BY <2>2, <2>3
    <2> QED
      BY <1>0, <2>1, <2>2, <2>4 DEF Entries
  <1> QED
    BY <1>1 DEF P, Q

(* Every entry that is read is one of those written whole. *)
LEMMA ReadTyping ==
  ASSUME NEW S, NEW lines \in Seq(S), NEW E, \A i \in 1..Len(lines) : lines[i].ok => lines[i].data \in E
  PROVE  \A i \in 0..Len(lines) : ReadOf(lines)[i] \in Seq(E)
  <1> DEFINE P == ReadOf(lines)
             Bad == {n \in Nat : n <= Len(lines) /\ P[n] \notin Seq(E)}
  <1>0. \A i \in 0..Len(lines) : P[i] = Entries(lines, P, i)
    BY ReadExists
  <1> HIDE DEF P
  <1>1. Bad = {}
    <2> SUFFICES ASSUME Bad # {} PROVE FALSE
      OBVIOUS
    <2>1. PICK n \in Bad : \A m \in Bad : n <= m
      BY LeastNumber
    <2>2. n # 0
      <3>1. P[0] = Entries(lines, P, 0)
        BY <1>0
      <3>2. P[0] = <<>>
        BY <3>1 DEF Entries
      <3>3. <<>> \in Seq(E)
        OBVIOUS
      <3> QED
        BY <2>1, <3>2, <3>3
    <2>3. n - 1 \notin Bad
      BY <2>1, <2>2
    <2>4. P[n - 1] \in Seq(E)
      BY <2>2, <2>3
    <2>5. n \in 0..Len(lines) /\ n \in 1..Len(lines)
      BY <2>1, <2>2
    <2>6. P[n] = Entries(lines, P, n)
      BY <1>0, <2>5
    <2>7. CASE lines[n].ok
      <3>1. P[n] = Append(P[n - 1], lines[n].data)
        BY <2>2, <2>6, <2>7 DEF Entries
      <3>2. lines[n].data \in E
        BY <2>5, <2>7
      <3>3. Append(P[n - 1], lines[n].data) \in Seq(E)
        BY <2>4, <3>2
      <3> QED
        BY <2>1, <3>1, <3>3
    <2>8. CASE ~lines[n].ok
      BY <2>1, <2>2, <2>4, <2>6, <2>8 DEF Entries
    <2> QED
      BY <2>7, <2>8
  <1> QED
    BY <1>1 DEF P

All(lines) == ReadOf(lines)[Len(lines)]

LEMMA ReadMore ==
  ASSUME NEW S, NEW lines \in Seq(S), NEW line \in S
  PROVE  All(Append(lines, line)) = IF line.ok THEN Append(All(lines), line.data) ELSE All(lines)
  <1> DEFINE more == Append(lines, line)
             k == Len(lines)
  <1>1. /\ more \in Seq(S) /\ Len(more) = k + 1 /\ k \in Nat /\ more[k + 1] = line
        /\ \A i \in 1..k : lines[i] = more[i]
        /\ k <= Len(lines)
    OBVIOUS
  <1> HIDE DEF more, k
  <1>2. ReadOf(more)[k] = ReadOf(lines)[k]
    <2>1. k <= Len(more) /\ k \in 0..k
      BY <1>1
    <2> QED
      BY <1>1, <2>1, ReadBefore
  <1>3. ReadOf(more)[k + 1] = Entries(more, ReadOf(more), k + 1)
    <2>1. k + 1 \in 0..Len(more)
      BY <1>1
    <2> QED
      BY <1>1, <2>1, ReadExists
  <1>4. k + 1 # 0 /\ (k + 1) - 1 = k
    BY <1>1
  <1> QED
    BY <1>1, <1>2, <1>3, <1>4 DEF Entries, All, more, k

(* The window a hydration reads, and the last entry of a kind in it. *)
Window(s) == SubSeq(s, IF Len(s) > ReadBack THEN Len(s) - ReadBack + 1 ELSE 1, Len(s))
OfKind(w, t) == {i \in DOMAIN w : w[i][1] = t}
Newest(w, t) == IF OfKind(w, t) = {} THEN 0 ELSE w[Max(OfKind(w, t))][2]

LEMMA LatestIs == \A log, t : Tracker!latestIn(log, t) = Newest(Window(All(log.lines)), t)
  <1> SUFFICES ASSUME NEW log, NEW t PROVE Tracker!latestIn(log, t) = Newest(Window(All(log.lines)), t)
    OBVIOUS
  <1>1. Tracker!recent(log) = Window(All(log.lines))
    <2>1. Tracker!readLog(log) = All(log.lines)
      BY ReadLogIs DEF All
    <2> QED
      BY <2>1 DEF Tracker!recent, Window
  <1>2. Tracker!latestIn(log, t) = Newest(Tracker!recent(log), t)
    BY DEF Tracker!latestIn, Newest, OfKind, Tracker!Max, Max
  <1> QED
    BY <1>1, <1>2

LEMMA WindowEndsIn ==
  ASSUME NEW S, NEW s \in Seq(S), s # <<>>
  PROVE  LET w == Window(s) IN
         Len(w) \in Nat \ {0} /\ DOMAIN w = 1..Len(w) /\ w[Len(w)] = s[Len(s)]
  <1> DEFINE k == IF Len(s) > ReadBack THEN Len(s) - ReadBack + 1 ELSE 1
  <1>1. Len(s) \in Nat /\ Len(s) >= 1 /\ k \in 1..Len(s)
    BY ReadBackAssumption
  <1> HIDE DEF k
  <1> DEFINE w == SubSeq(s, k, Len(s))
  <1>2. Len(w) = Len(s) - k + 1
    BY <1>1
  <1>3. \A i \in 1..(Len(s) - k + 1) : w[i] = s[k + i - 1]
    BY <1>1
  <1>4. DOMAIN w = 1..Len(w)
    BY <1>1
  <1> HIDE DEF w
  <1>5. w[Len(w)] = s[Len(s)]
    BY <1>1, <1>2, <1>3
  <1>6. Len(w) \in Nat \ {0}
    BY <1>1, <1>2
  <1> QED
    BY <1>4, <1>5, <1>6 DEF w, k, Window

LEMMA WindowIsAll ==
  ASSUME NEW S, NEW s \in Seq(S), Len(s) <= ReadBack
  PROVE  Window(s) = s
  <1>1. SubSeq(s, 1, Len(s)) = s /\ Len(s) \in Nat
    OBVIOUS
  <1>2. (IF Len(s) > ReadBack THEN Len(s) - ReadBack + 1 ELSE 1) = 1
    BY <1>1, ReadBackAssumption
  <1> QED
    BY <1>1, <1>2, Zenon DEF Window

LEMMA MaxIs ==
  ASSUME NEW T, NEW n \in T, T \subseteq Int, \A m \in T : m <= n
  PROVE  Max(T) = n
  <1>1. \A m \in T : n >= m
    OBVIOUS
  <1>2. ASSUME NEW x \in T, \A y \in T : x >= y PROVE x = n
    BY <1>1, <1>2
  <1> QED
    BY <1>1, <1>2 DEF Max

LEMMA Greatest ==
  ASSUME NEW n \in Nat, NEW T, T \subseteq 1..n, T # {}
  PROVE  \E m \in T : \A k \in T : k <= m
  <1> DEFINE D == {n - m : m \in T}
  <1>0. \A m \in T : n - m \in Nat
    OBVIOUS
  <1>1. D \subseteq Nat /\ D # {}
    BY <1>0
  <1>2. PICK d \in D : \A e \in D : d <= e
    BY <1>1, LeastNumber
  <1>3. PICK m \in T : d = n - m
    OBVIOUS
  <1>4. \A k \in T : n - k \in D
    OBVIOUS
  <1>5. \A k \in T : d <= n - k
    BY <1>2, <1>4
  <1> QED
    BY <1>3, <1>5

LEMMA NewestIsLast ==
  ASSUME NEW w, NEW t, Len(w) \in Nat \ {0}, DOMAIN w = 1..Len(w), w[Len(w)][1] = t
  PROVE  Newest(w, t) = w[Len(w)][2]
  <1>1. Len(w) \in OfKind(w, t) /\ OfKind(w, t) \subseteq Int /\ \A m \in OfKind(w, t) : m <= Len(w)
    BY DEF OfKind
  <1>2. Max(OfKind(w, t)) = Len(w)
    BY <1>1, MaxIs
  <1> QED
    BY <1>1, <1>2 DEF Newest

(* Of a sequence that ends with an entry, its kind has that count, and if nothing
   falls out of reach every other kind has the count it had. *)
LEMMA NewestOf ==
  ASSUME NEW E, NEW s \in Seq(E), NEW e \in E
  PROVE  Newest(Window(Append(s, e)), e[1]) = e[2]
  <1> DEFINE more == Append(s, e)
             w == Window(more)
  <1>1. more \in Seq(E) /\ more # <<>> /\ more[Len(more)] = e
    OBVIOUS
  <1> HIDE DEF more
  <1>2. Len(w) \in Nat \ {0} /\ DOMAIN w = 1..Len(w) /\ w[Len(w)] = e
    BY <1>1, WindowEndsIn
  <1> HIDE DEF w
  <1>3. Newest(w, e[1]) = e[2]
    BY <1>2, NewestIsLast
  <1> QED
    BY <1>3 DEF w, more

LEMMA OthersStay ==
  ASSUME NEW E, NEW s \in Seq(E), NEW e \in E, Len(Append(s, e)) <= ReadBack, NEW t, t # e[1]
  PROVE  Newest(Window(Append(s, e)), t) = Newest(Window(s), t)
  <1> DEFINE more == Append(s, e)
  <1>1. /\ more \in Seq(E) /\ DOMAIN more = 1..(Len(s) + 1) /\ more[Len(s) + 1] = e
        /\ DOMAIN s = 1..Len(s) /\ Len(s) \in Nat /\ Len(more) = Len(s) + 1
        /\ \A i \in 1..Len(s) : more[i] = s[i]
    OBVIOUS
  <1>2. Len(more) <= ReadBack /\ Len(s) <= ReadBack
    BY <1>1, ReadBackAssumption
  <1>3. Window(s) = s
    BY <1>2, WindowIsAll
  <1> HIDE DEF more
  <1>4. Window(more) = more
    BY <1>1, <1>2, WindowIsAll
  <1>5. OfKind(more, t) = OfKind(s, t)
    BY <1>1 DEF OfKind
  <1>6. OfKind(s, t) \subseteq 1..Len(s)
    BY <1>1 DEF OfKind
  <1>7. CASE OfKind(s, t) = {}
    BY <1>3, <1>4, <1>5, <1>7 DEF Newest, more
  <1>8. CASE OfKind(s, t) # {}
    <2>1. Max(OfKind(s, t)) \in OfKind(s, t)
      <3>1. PICK n \in OfKind(s, t) : \A m \in OfKind(s, t) : m <= n
        BY <1>1, <1>6, <1>8, Greatest
      <3>2. Max(OfKind(s, t)) = n
        BY <1>6, <3>1, MaxIs
      <3> QED
        BY <3>1, <3>2
    <2> QED
      BY <1>1, <1>3, <1>4, <1>5, <1>6, <1>8, <2>1 DEF Newest, more
  <1> QED
    BY <1>7, <1>8

-----------------------------------------------------------------------------
LatestOn(lines, t) == Newest(Window(All(lines)), t)

Entry == Kinds \X Nat
Lines == {l \in [data : Entry \cup {<<>>}, ok : BOOLEAN, acked : Nat] : l.ok => l.data \in Entry}

LogTyping ==
  /\ perfLog.lines \in Seq(Lines) /\ perfLog.cut \in BOOLEAN
  /\ perfLog.cut => perfLog.lines # <<>>

LEMMA AllTyping ==
  ASSUME NEW lines \in Seq(Lines)
  PROVE  All(lines) \in Seq(Entry)
  <1>1. Len(lines) \in 0..Len(lines)
    OBVIOUS
  <1>2. \A i \in 1..Len(lines) : lines[i].ok => lines[i].data \in Entry
    BY DEF Lines
  <1> QED
    BY <1>1, <1>2, ReadTyping DEF All

LEMMA LatestTyping ==
  ASSUME NEW lines \in Seq(Lines), NEW t
  PROVE  LatestOn(lines, t) \in Nat
  <1> DEFINE s == All(lines)
             w == Window(s)
  <1>1. s \in Seq(Entry)
    BY AllTyping
  <1> HIDE DEF s
  <1>2. w \in Seq(Entry)
    <2> DEFINE k == IF Len(s) > ReadBack THEN Len(s) - ReadBack + 1 ELSE 1
    <2>1. Len(s) \in Nat /\ k \in Nat \ {0}
      BY <1>1, ReadBackAssumption
    <2> HIDE DEF k
    <2>2. SubSeq(s, k, Len(s)) \in Seq(Entry)
      BY <1>1, <2>1
    <2> QED
      BY <2>2 DEF k, Window
  <1> HIDE DEF w
  <1>3. CASE OfKind(w, t) = {}
    BY <1>3 DEF Newest, LatestOn, w, s
  <1>4. CASE OfKind(w, t) # {}
    <2>1. Len(w) \in Nat /\ OfKind(w, t) \subseteq 1..Len(w)
      BY <1>2 DEF OfKind
    <2>2. PICK n \in OfKind(w, t) : \A m \in OfKind(w, t) : m <= n
      BY <1>4, <2>1, Greatest
    <2>3. Max(OfKind(w, t)) = n
      BY <2>1, <2>2, MaxIs
    <2>4. w[n][2] \in Nat
      BY <1>2, <2>1, <2>2 DEF Entry
    <2>5. Newest(w, t) = w[n][2]
      BY <1>4, <2>3 DEF Newest
    <2> QED
      BY <2>4, <2>5 DEF LatestOn, w, s
  <1> QED
    BY <1>3, <1>4

(* A line more does not take a kind's count below what it has to cover, unless it
   pushes something out of reach. *)
LEMMA LineCovers ==
  ASSUME NEW lines \in Seq(Lines), NEW l \in Lines, NEW t, NEW a \in Nat,
         LatestOn(lines, t) >= a,
         Len(All(Append(lines, l))) <= ReadBack,
         l.ok /\ l.data[1] = t => l.data[2] >= a
  PROVE  LatestOn(Append(lines, l), t) >= a
  <1> DEFINE more == Append(lines, l)
  <1>1. All(more) = IF l.ok THEN Append(All(lines), l.data) ELSE All(lines)
    BY ReadMore
  <1>2. All(lines) \in Seq(Entry)
    BY AllTyping
  <1>3. l.ok => l.data \in Entry
    BY DEF Lines
  <1> HIDE DEF more
  <1>4. CASE ~l.ok
    BY <1>1, <1>4 DEF LatestOn, more
  <1>5. CASE l.ok /\ l.data[1] = t
    <2>1. Newest(Window(Append(All(lines), l.data)), t) = l.data[2]
      BY <1>2, <1>3, <1>5, NewestOf
    <2> QED
      BY <1>1, <1>5, <2>1 DEF LatestOn, more
  <1>6. CASE l.ok /\ l.data[1] # t
    <2>1. Len(Append(All(lines), l.data)) <= ReadBack
      BY <1>1, <1>6 DEF more
    <2>2. Newest(Window(Append(All(lines), l.data)), t) = Newest(Window(All(lines)), t)
      BY <1>2, <1>3, <1>6, <2>1, OthersStay
    <2> QED
      BY <1>1, <1>6, <2>2 DEF LatestOn, more
  <1> QED
    BY <1>4, <1>5, <1>6

LEMMA LineIsLatest ==
  ASSUME NEW lines \in Seq(Lines), NEW l \in Lines, l.ok
  PROVE  LatestOn(Append(lines, l), l.data[1]) = l.data[2]
  <1>1. All(Append(lines, l)) = Append(All(lines), l.data)
    BY ReadMore
  <1>2. All(lines) \in Seq(Entry) /\ l.data \in Entry
    BY AllTyping DEF Lines
  <1> QED
    BY <1>1, <1>2, NewestOf DEF LatestOn

(* What the next line is written behind. *)
Base ==
  IF Tracker!rotates THEN <<>>
  ELSE IF perfLog.cut THEN Tracker!Front(perfLog.lines) ELSE perfLog.lines

LEMMA BaseTyping ==
  LogTyping => Base \in Seq(Lines)
  <1> SUFFICES ASSUME LogTyping PROVE Base \in Seq(Lines)
    OBVIOUS
  <1>1. CASE perfLog.cut /\ ~Tracker!rotates
    <2> DEFINE s == perfLog.lines
    <2>1. s \in Seq(Lines) /\ Len(s) - 1 \in 0..Len(s)
      BY <1>1 DEF LogTyping
    <2> HIDE DEF s
    <2>2. SubSeq(s, 1, Len(s) - 1) \in Seq(Lines)
      BY <2>1
    <2> QED
      BY <1>1, <2>2 DEF Base, Tracker!Front, s
  <1>2. CASE Tracker!rotates
    BY <1>2 DEF Base
  <1>3. CASE ~perfLog.cut /\ ~Tracker!rotates
    BY <1>3 DEF Base, LogTyping
  <1> QED
    BY <1>1, <1>2, <1>3

LEMMA Written ==
  ASSUME LogTyping, NEW line \in Lines
  PROVE  \E l \in Lines :
           /\ Tracker!Continued(Tracker!Rotated(perfLog), line) = Append(Base, l)
           /\ IF perfLog.cut /\ ~Tracker!rotates THEN ~l.ok ELSE l = line
  <1>1. CASE Tracker!rotates
    <2>1. Tracker!Rotated(perfLog) = [lines |-> <<>>, cut |-> FALSE] /\ Base = <<>>
      BY <1>1 DEF Tracker!Rotated, Tracker!rotates, Tracker!EmptyLog, Base
    <2> QED
      BY <1>1, <2>1 DEF Tracker!Continued
  <1>2. CASE ~Tracker!rotates /\ ~perfLog.cut
    <2>1. Tracker!Rotated(perfLog) = perfLog /\ Base = perfLog.lines
      BY <1>2 DEF Tracker!Rotated, Tracker!rotates, Base
    <2> QED
      BY <1>2, <2>1 DEF Tracker!Continued
  <1>3. CASE ~Tracker!rotates /\ perfLog.cut
    <2>1. Tracker!Rotated(perfLog) = perfLog /\ Base = Tracker!Front(perfLog.lines)
      BY <1>3 DEF Tracker!Rotated, Tracker!rotates, Base
    <2> DEFINE l == [data |-> <<>>, ok |-> FALSE, acked |-> Tracker!Last(perfLog.lines).acked + line.acked]
    <2>2. Tracker!Last(perfLog.lines) \in Lines
      BY <1>3 DEF LogTyping, Tracker!Last
    <2>3. l \in Lines /\ ~l.ok
      BY <2>2 DEF Lines
    <2>4. Tracker!Continued(perfLog, line) = Append(Base, l)
      BY <1>3, <2>1 DEF Tracker!Continued
    <2> QED
      BY <1>3, <2>1, <2>3, <2>4
  <1> QED
    BY <1>1, <1>2, <1>3

Covers(lines, t) == LatestOn(lines, t) >= acked[t]

LogKept ==
  \A t \in Kinds \ forgotten :
    Covers(perfLog.lines, t) /\ (perfLog.cut => Covers(Tracker!Front(perfLog.lines), t))

LEMMA FrontOfAppend ==
  ASSUME NEW s \in Seq(Lines), NEW l \in Lines
  PROVE  Tracker!Front(Append(s, l)) = s
  <1> DEFINE more == Append(s, l)
  <1>1. more \in Seq(Lines) /\ Len(more) = Len(s) + 1 /\ Len(s) \in Nat /\ \A i \in 1..Len(s) : more[i] = s[i]
    OBVIOUS
  <1> HIDE DEF more
  <1>2. Len(more) - 1 = Len(s)
    BY <1>1
  <1>3. SubSeq(more, 1, Len(s)) \in Seq(Lines)
    BY <1>1
  <1>4. Len(SubSeq(more, 1, Len(s))) = Len(s)
    BY <1>1
  <1>5. \A i \in 1..Len(s) : SubSeq(more, 1, Len(s))[i] = s[i]
    BY <1>1
  <1> DEFINE f == SubSeq(more, 1, Len(s))
  <1>6. f \in Seq(Lines) /\ Len(f) = Len(s) /\ \A i \in 1..Len(s) : f[i] = s[i]
    BY <1>3, <1>4, <1>5
  <1> HIDE DEF f
  <1>7. f = s
    BY <1>6
  <1> QED
    BY <1>2, <1>7 DEF f, more, Tracker!Front

(* The log after an append that returned or was torn. *)
LEMMA LogGrows ==
  ASSUME LogTyping, LogKept, acked \in [Kinds -> Nat], NEW line \in Lines, NEW c \in BOOLEAN,
         perfLog' = [lines |-> Tracker!Continued(Tracker!Rotated(perfLog), line), cut |-> c]
  PROVE  /\ LogTyping'
         /\ \A t \in Kinds \ forgotten :
              ~Tracker!outOfReach(perfLog') /\ (line.ok /\ line.data[1] = t => line.data[2] >= acked[t]) =>
                Covers(perfLog'.lines, t) /\ (c => Covers(Tracker!Front(perfLog'.lines), t))
         /\ line.ok /\ ~(perfLog.cut /\ ~Tracker!rotates) => LatestOn(perfLog'.lines, line.data[1]) = line.data[2]
  <1>1. PICK l \in Lines :
          /\ Tracker!Continued(Tracker!Rotated(perfLog), line) = Append(Base, l)
          /\ IF perfLog.cut /\ ~Tracker!rotates THEN ~l.ok ELSE l = line
    BY Written
  <1>2. perfLog'.lines = Append(Base, l) /\ perfLog'.cut = c
    BY <1>1
  <1>3. Base \in Seq(Lines)
    BY BaseTyping
  <1>4. Append(Base, l) \in Seq(Lines) /\ Append(Base, l) # <<>>
    BY <1>3
  <1>5. LogTyping'
    BY <1>2, <1>4 DEF LogTyping, Lines, Entry
  <1>6. ASSUME NEW t \in Kinds \ forgotten, ~Tracker!outOfReach(perfLog'),
               line.ok /\ line.data[1] = t => line.data[2] >= acked[t]
        PROVE Covers(perfLog'.lines, t) /\ (c => Covers(Tracker!Front(perfLog'.lines), t))
    <2>1. CASE perfLog' = perfLog
      BY <1>2, <2>1 DEF LogKept
    <2>2. CASE ~Tracker!rotates /\ Len(Tracker!readLog(perfLog')) <= ReadBack
      <3>1. Covers(Base, t)
        BY <2>2 DEF LogKept, Base
      <3>2. Tracker!readLog(perfLog') = All(Append(Base, l))
        BY <1>2, ReadLogIs DEF All
      <3>3. l.ok /\ l.data[1] = t => l.data[2] >= acked[t]
        BY <1>1, <1>6
      <3>4. acked[t] \in Nat
        OBVIOUS
      <3>5. LatestOn(Append(Base, l), t) >= acked[t]
        BY <1>3, <2>2, <3>1, <3>2, <3>3, <3>4, LineCovers DEF Covers
      <3>6. Tracker!Front(Append(Base, l)) = Base
        BY <1>3, FrontOfAppend
      <3> QED
        BY <1>2, <3>1, <3>5, <3>6 DEF Covers
    <2>3. Len(Tracker!readLog(perfLog')) \in Nat
      <3>1. Tracker!readLog(perfLog') = All(Append(Base, l))
        BY <1>2, ReadLogIs DEF All
      <3>2. All(Append(Base, l)) \in Seq(Entry)
        BY <1>4, AllTyping
      <3> QED
        BY <3>1, <3>2
    <2> QED
      BY <1>6, <2>1, <2>2, <2>3, ReadBackAssumption DEF Tracker!outOfReach
  <1>7. ASSUME line.ok, ~(perfLog.cut /\ ~Tracker!rotates)
        PROVE LatestOn(perfLog'.lines, line.data[1]) = line.data[2]
    BY <1>1, <1>2, <1>3, <1>7, LineIsLatest
  <1> QED
    BY <1>5, <1>6, <1>7

-----------------------------------------------------------------------------
Waiting == Recorders \X Kinds \X Nat

(* What waits to be appended is at most what memory holds, more than what was
   acknowledged, and of one kind in the order of its counts. *)
Queued ==
  /\ \A i \in 1..Len(appending) :
       /\ records[appending[i][2]] >= appending[i][3]
       /\ appending[i][2] \notin forgotten => appending[i][3] > acked[appending[i][2]]
  /\ \A i, j \in 1..Len(appending) :
       i < j /\ appending[i][2] = appending[j][2] => appending[i][3] < appending[j][3]

TrackerTyping ==
  /\ records \in [Kinds -> Nat] /\ acked \in [Kinds -> Nat] /\ row \in [Kinds -> Nat]
  /\ db \in BOOLEAN /\ hydrated \in BOOLEAN
  /\ appending \in Seq(Waiting) /\ LogTyping
  /\ DOMAIN recorder = Recorders

(* Of what is not forgotten, memory and the store the process has open hold as
   much as was acknowledged. *)
TrackerInv ==
  /\ TrackerTyping
  /\ appending # <<>> => hydrated /\ ~db
  /\ Queued
  /\ hydrated => \A t \in Kinds \ forgotten : records[t] >= acked[t]
  /\ db => \A t \in Kinds \ forgotten : row[t] >= acked[t]
  /\ ~db => LogKept

(* The queue once its head is gone: what the head acknowledged is less than what
   of its kind is still waiting. *)
LEMMA QueueMoves ==
  ASSUME TrackerInv, appending # <<>>, appending' = Tail(appending), records' = records,
         acked' \in [Kinds -> Nat],
         \A u \in Kinds \ forgotten' :
            \/ u \notin forgotten /\ acked'[u] = acked[u]
            \/ u = Head(appending)[2] /\ acked'[u] = Head(appending)[3]
  PROVE  Queued' /\ appending' \in Seq(Waiting)
  <1> DEFINE q == appending
             n == Len(q)
  <1>1. q \in Seq(Waiting) /\ n \in Nat /\ n >= 1 /\ Head(q) = q[1] /\ Len(Tail(q)) = n - 1
        /\ Tail(q) \in Seq(Waiting) /\ \A i \in 1..(n - 1) : Tail(q)[i] = q[i + 1]
    BY DEF TrackerInv, TrackerTyping
  <1>2. \A i \in 1..n : q[i][2] \in Kinds /\ q[i][3] \in Nat
    BY <1>1 DEF Waiting
  <1>3. /\ \A i \in 1..n : /\ records[q[i][2]] >= q[i][3]
                           /\ q[i][2] \notin forgotten => q[i][3] > acked[q[i][2]]
        /\ \A i, j \in 1..n : i < j /\ q[i][2] = q[j][2] => q[i][3] < q[j][3]
    BY DEF TrackerInv, Queued
  <1>4. appending' = Tail(q)
    OBVIOUS
  <1>5. \A u \in Kinds \ forgotten' :
            \/ u \notin forgotten /\ acked'[u] = acked[u]
            \/ u = q[1][2] /\ acked'[u] = q[1][3]
    BY <1>1
  <1> HIDE DEF q, n
  <1>6. ASSUME NEW i \in 1..(n - 1)
        PROVE /\ records'[Tail(q)[i][2]] >= Tail(q)[i][3]
              /\ Tail(q)[i][2] \notin forgotten' => Tail(q)[i][3] > acked'[Tail(q)[i][2]]
    <2>1. Tail(q)[i] = q[i + 1] /\ i + 1 \in 1..n /\ 1 \in 1..n /\ 1 < i + 1
      BY <1>1
    <2>2. records'[q[i + 1][2]] >= q[i + 1][3]
      BY <1>3, <2>1
    <2>3. ASSUME q[i + 1][2] \notin forgotten' PROVE q[i + 1][3] > acked'[q[i + 1][2]]
      <3>1. q[i + 1][2] \in Kinds \ forgotten'
        BY <1>2, <2>1, <2>3
      <3>2. CASE q[i + 1][2] \notin forgotten /\ acked'[q[i + 1][2]] = acked[q[i + 1][2]]
        BY <1>3, <2>1, <3>2
      <3>3. CASE q[i + 1][2] = q[1][2] /\ acked'[q[i + 1][2]] = q[1][3]
        BY <1>2, <1>3, <2>1, <3>3
      <3> QED
        BY <1>5, <3>1, <3>2, <3>3
    <2> QED
      BY <2>1, <2>2, <2>3
  <1>7. ASSUME NEW i \in 1..(n - 1), NEW j \in 1..(n - 1), i < j, Tail(q)[i][2] = Tail(q)[j][2]
        PROVE Tail(q)[i][3] < Tail(q)[j][3]
    <2>1. Tail(q)[i] = q[i + 1] /\ i + 1 \in 1..n /\ Tail(q)[j] = q[j + 1] /\ j + 1 \in 1..n /\ i + 1 < j + 1
      BY <1>1, <1>7
    <2> QED
      BY <1>3, <1>7, <2>1
  <1>8. Len(appending') = n - 1
    BY <1>1, <1>4
  <1> QED
    BY <1>1, <1>4, <1>6, <1>7, <1>8 DEF Queued

(* The entry at the head of the queue, as the line it becomes. *)
LEMMA HeadEntry ==
  ASSUME TrackerInv, appending # <<>>
  PROVE  /\ Head(appending) \in Waiting
         /\ Head(appending)[1] \in Recorders /\ Head(appending)[2] \in Kinds /\ Head(appending)[3] \in Nat
         /\ Tail(Head(appending)) = <<Head(appending)[2], Head(appending)[3]>>
         /\ Tail(Head(appending)) \in Entry
         /\ records[Head(appending)[2]] >= Head(appending)[3]
         /\ Head(appending)[2] \notin forgotten => Head(appending)[3] > acked[Head(appending)[2]]
  <1>1. appending \in Seq(Waiting) /\ Head(appending) \in Waiting /\ Head(appending) = appending[1] /\ 1 \in 1..Len(appending)
    BY DEF TrackerInv, TrackerTyping
  <1>2. PICK r \in Recorders, t \in Kinds, n \in Nat : Head(appending) = <<r, t, n>>
    BY <1>1 DEF Waiting
  <1>3. Tail(Head(appending)) = <<t, n>> /\ Tail(Head(appending)) \in Entry
    <2>1. Tail(<<r, t, n>>) = <<t, n>>
      OBVIOUS
    <2>2. <<t, n>> \in Entry
      BY DEF Entry
    <2> QED
      BY <1>2, <2>1, <2>2, Zenon
  <1>4. Head(appending)[1] = r /\ Head(appending)[2] = t /\ Head(appending)[3] = n
    BY <1>2
  <1>5. /\ records[appending[1][2]] >= appending[1][3]
        /\ appending[1][2] \notin forgotten => appending[1][3] > acked[appending[1][2]]
    BY <1>1 DEF TrackerInv, Queued
  <1>6. /\ records[t] >= n
        /\ t \notin forgotten => n > acked[t]
    BY <1>1, <1>4, <1>5
  <1> QED
    BY <1>1, <1>3, <1>4, <1>6

LEMMA Untouched ==
  ASSUME LogKept, UNCHANGED <<perfLog, acked>>, forgotten \subseteq forgotten'
  PROVE  LogKept'
  BY DEF LogKept, Covers, LatestOn, Tracker!Front

LEMMA TornKeeps ==
  ASSUME TrackerInv, appending # <<>>, NEW switched \in BOOLEAN, Tracker!torn(switched), acked' = acked
  PROVE  LogTyping' /\ LogKept' /\ forgotten \subseteq forgotten' /\ (switched => Kinds \subseteq forgotten')
  <1> DEFINE e == Tail(Head(appending))
  <1>0. /\ LogTyping /\ LogKept /\ acked \in [Kinds -> Nat]
        /\ e \in Entry /\ e[1] \in Kinds /\ e[2] \in Nat /\ e # <<>>
        /\ e[1] \notin forgotten => e[2] > acked[e[1]]
    <2>1. LogTyping /\ LogKept /\ acked \in [Kinds -> Nat]
      BY DEF TrackerInv, TrackerTyping
    <2>2. /\ e = <<Head(appending)[2], Head(appending)[3]>> /\ e \in Entry
          /\ Head(appending)[2] \in Kinds /\ Head(appending)[3] \in Nat
          /\ Head(appending)[2] \notin forgotten => Head(appending)[3] > acked[Head(appending)[2]]
      BY HeadEntry
    <2> HIDE DEF e
    <2>3. e[1] = Head(appending)[2] /\ e[2] = Head(appending)[3] /\ e # <<>>
      BY <2>2
    <2> QED
      BY <2>1, <2>2, <2>3
  <1> HIDE DEF e
  <1>1. /\ perfLog' \in Tracker!Torn(perfLog, e)
        /\ forgotten \subseteq forgotten' /\ (switched => Kinds \subseteq forgotten')
        /\ Tracker!outOfReach(perfLog') => Kinds \subseteq forgotten'
    BY DEF Tracker!torn, e
  <1>2. CASE perfLog' = perfLog
    <2>1. LogTyping'
      BY <1>0, <1>2 DEF LogTyping, Lines, Entry
    <2> QED
      BY <1>0, <1>1, <1>2, <2>1, Untouched
  <1>3. CASE perfLog' = Tracker!Rotated(perfLog) /\ perfLog' # perfLog
    <2>1. perfLog' = [lines |-> <<>>, cut |-> FALSE] /\ Tracker!rotates
      BY <1>3 DEF Tracker!Rotated, Tracker!rotates, Tracker!EmptyLog
    <2>2. LogTyping'
      BY <2>1 DEF LogTyping
    <2>3. Kinds \subseteq forgotten'
      BY <1>1, <1>3, <2>1 DEF Tracker!outOfReach
    <2> QED
      BY <1>1, <2>2, <2>3 DEF LogKept
  <1>4. ASSUME NEW d \in {<<>>, e}, NEW c \in BOOLEAN, perfLog' = Tracker!Remainder(perfLog, d, c)
        PROVE LogTyping' /\ LogKept'
    <2> DEFINE line == [data |-> d, ok |-> d # <<>>, acked |-> 0]
    <2>1. line \in Lines
      BY <1>0 DEF Lines
    <2>2. perfLog' = [lines |-> Tracker!Continued(Tracker!Rotated(perfLog), line), cut |-> c]
      BY <1>4 DEF Tracker!Remainder
    <2>3. ASSUME NEW t \in Kinds \ forgotten, line.ok, line.data[1] = t PROVE line.data[2] >= acked[t]
      <3>1. line.data = e
        BY <2>3
      <3>2. e[1] = t /\ e[1] \notin forgotten
        BY <2>3, <3>1
      <3>3. e[2] > acked[t] /\ acked[t] \in Nat /\ e[2] \in Nat
        BY <1>0, <3>2
      <3> HIDE DEF line
      <3> QED
        BY <3>1, <3>3
    <2> HIDE DEF line
    <2>4. /\ LogTyping'
          /\ \A t \in Kinds \ forgotten : ~Tracker!outOfReach(perfLog') =>
                Covers(perfLog'.lines, t) /\ (c => Covers(Tracker!Front(perfLog'.lines), t))
      BY <1>0, <2>1, <2>2, <2>3, LogGrows
    <2>5. perfLog'.cut = c
      BY <2>2
    <2>6. ASSUME NEW t \in Kinds \ forgotten'
          PROVE Covers(perfLog.lines, t)' /\ (perfLog.cut => Covers(Tracker!Front(perfLog.lines), t))'
      <3>1. t \in Kinds \ forgotten /\ ~Tracker!outOfReach(perfLog')
        BY <1>1, <2>6
      <3>2. Covers(perfLog'.lines, t) /\ (c => Covers(Tracker!Front(perfLog'.lines), t))
        BY <2>4, <3>1
      <3> QED
        BY <2>5, <3>2 DEF Covers, LatestOn, Tracker!Front
    <2> QED
      BY <2>4, <2>6 DEF LogKept
  <1> QED
    BY <1>1, <1>2, <1>3, <1>4 DEF Tracker!Torn

LEMMA AppendKeeps ==
  ASSUME TrackerInv, Tracker!appendReturns
  PROVE  TrackerInv'
  <1> DEFINE h == Head(appending)
             t == h[2]
             n == h[3]
             line == [data |-> <<t, n>>, ok |-> TRUE, acked |-> 1]
  <1>1. /\ appending # <<>> /\ appending' = Tail(appending)
        /\ UNCHANGED <<db, row, records, hydrated, misstepsLeft>>
        /\ perfLog' = [lines |-> Tracker!Continued(Tracker!Rotated(perfLog), line), cut |-> FALSE]
        /\ acked' = [acked EXCEPT ![t] = IF t \in forgotten \/ n > acked[t] THEN n ELSE acked[t]]
        /\ forgotten' = (IF perfLog.cut /\ ~Tracker!rotates THEN forgotten \cup {t} ELSE forgotten \ {t})
                        \cup (IF Tracker!outOfReach(perfLog') THEN Kinds \ {t} ELSE {})
        /\ recorder' = [recorder EXCEPT ![h[1]] = "idle"]
    BY DEF Tracker!appendReturns, Tracker!append, Tracker!ack
  <1>2. /\ t \in Kinds /\ n \in Nat /\ <<t, n>> \in Entry /\ records[t] >= n
        /\ t \notin forgotten => n > acked[t]
    BY <1>1, HeadEntry DEF Entry
  <1>3. LogTyping /\ LogKept /\ hydrated /\ ~db /\ acked \in [Kinds -> Nat] /\ records \in [Kinds -> Nat]
    BY <1>1 DEF TrackerInv, TrackerTyping
  <1>4. line \in Lines /\ line.ok /\ line.data[1] = t /\ line.data[2] = n
    BY <1>2 DEF Lines
  <1>5. acked' = [acked EXCEPT ![t] = n]
    BY <1>1, <1>2
  <1>p. appending' = Tail(appending) /\ h = Head(appending)
    BY <1>1
  <1> HIDE DEF line, t, n, h
  <1>6. acked' \in [Kinds -> Nat] /\ acked'[t] = n /\ \A u \in Kinds \ {t} : acked'[u] = acked[u]
    BY <1>2, <1>3, <1>5
  <1>7. \A u \in Kinds \ forgotten' : u # t => u \notin forgotten /\ ~Tracker!outOfReach(perfLog')
    BY <1>1
  <1>8. t \notin forgotten' => ~(perfLog.cut /\ ~Tracker!rotates)
    BY <1>1
  <1>9. /\ LogTyping'
        /\ \A u \in Kinds \ forgotten :
              ~Tracker!outOfReach(perfLog') /\ u # t => Covers(perfLog'.lines, u)
        /\ t \notin forgotten' => LatestOn(perfLog'.lines, t) = n
    BY <1>1, <1>3, <1>4, <1>8, LogGrows
  <1>10. LogKept'
    <2>1. ASSUME NEW u \in Kinds \ forgotten' PROVE LatestOn(perfLog'.lines, u) >= acked'[u]
      <3>1. CASE u = t
        BY <1>2, <1>6, <1>9, <2>1, <3>1
      <3>2. CASE u # t
        <4>1. Covers(perfLog'.lines, u) /\ acked'[u] = acked[u]
          BY <1>6, <1>7, <1>9, <2>1, <3>2
        <4> QED
          BY <4>1 DEF Covers
      <3> QED
        BY <3>1, <3>2
    <2>2. ~perfLog'.cut
      BY <1>1
    <2> QED
      BY <2>1, <2>2 DEF LogKept, Covers, LatestOn
  <1>11. \A u \in Kinds \ forgotten' :
            \/ u \notin forgotten /\ acked'[u] = acked[u]
            \/ u = Head(appending)[2] /\ acked'[u] = Head(appending)[3]
    BY <1>6, <1>7 DEF t, n, h
  <1>12. Queued' /\ appending' \in Seq(Waiting)
    BY <1>1, <1>6, <1>11, QueueMoves
  <1>13. \A u \in Kinds \ forgotten' : records'[u] >= acked'[u]
    BY <1>1, <1>2, <1>3, <1>6, <1>7 DEF TrackerInv
  <1>14. TrackerTyping'
    BY <1>1, <1>6, <1>9, <1>12 DEF TrackerInv, TrackerTyping
  <1>15. hydrated' /\ ~db'
    BY <1>1, <1>3
  <1> QED
    BY <1>10, <1>12, <1>13, <1>14, <1>15 DEF TrackerInv

LEMMA WriteKeeps ==
  ASSUME TrackerInv, hydrated, NEW r \in Recorders, NEW t \in Kinds, Tracker!writes(r, t)
  PROVE  TrackerInv'
  <1>1. /\ records' = [records EXCEPT ![t] = records[t] + 1]
        /\ UNCHANGED <<db, perfLog, hydrated>>
        /\ DOMAIN recorder' = Recorders
    BY DEF Tracker!writes, TrackerInv, TrackerTyping
  <1>2. /\ records \in [Kinds -> Nat] /\ acked \in [Kinds -> Nat] /\ row \in [Kinds -> Nat]
        /\ LogTyping /\ db \in BOOLEAN /\ hydrated \in BOOLEAN /\ appending \in Seq(Waiting)
    BY DEF TrackerInv, TrackerTyping
  <1>3. records' \in [Kinds -> Nat] /\ records'[t] = records[t] + 1
        /\ \A u \in Kinds \ {t} : records'[u] = records[u]
    BY <1>1, <1>2
  <1>4. \A u \in Kinds \ forgotten : records[u] >= acked[u]
    BY DEF TrackerInv
  <1>9. ASSUME NEW u \in Kinds
        PROVE records[u] \in Nat /\ records'[u] \in Nat /\ records'[u] >= records[u] /\ acked[u] \in Nat
    <2>1. CASE u = t
      BY <1>2, <1>3, <2>1
    <2>2. CASE u # t
      BY <1>2, <1>3, <2>2
    <2> QED
      BY <2>1, <2>2
  <1>10. ASSUME NEW u \in Kinds \ forgotten PROVE records'[u] >= acked[u]
    <2>1. records[u] >= acked[u]
      BY <1>4
    <2> QED
      BY <1>9, <2>1
  <1>5. LogTyping'
    BY <1>1, <1>2 DEF LogTyping, Lines, Entry
  <1>6. CASE /\ db /\ row' = [row EXCEPT ![t] = records'[t]]
             /\ acked' = Tracker!ack(t, records'[t]) /\ forgotten' = forgotten \ {t}
             /\ UNCHANGED appending
    <2>1. appending = <<>>
      BY <1>6 DEF TrackerInv
    <2>2. acked' = [acked EXCEPT ![t] = IF t \in forgotten \/ records'[t] > acked[t] THEN records'[t] ELSE acked[t]]
      BY <1>6 DEF Tracker!ack
    <2>3. t \in forgotten \/ records'[t] > acked[t]
      BY <1>2, <1>3, <1>4
    <2>4. acked' \in [Kinds -> Nat] /\ acked'[t] = records'[t] /\ \A u \in Kinds \ {t} : acked'[u] = acked[u]
      BY <1>2, <1>3, <2>2, <2>3
    <2>5. row' \in [Kinds -> Nat] /\ row'[t] = records'[t] /\ \A u \in Kinds \ {t} : row'[u] = row[u]
      BY <1>2, <1>3, <1>6
    <2>6. \A u \in Kinds \ forgotten' : records'[u] >= acked'[u]
      BY <1>2, <1>3, <1>4, <1>6, <2>4
    <2>7. \A u \in Kinds \ forgotten : row[u] >= acked[u]
      BY <1>6 DEF TrackerInv
    <2>8. \A u \in Kinds \ forgotten' : row'[u] >= acked'[u]
      BY <1>2, <1>3, <1>6, <2>4, <2>5, <2>7
    <2>9. Queued' /\ appending' = <<>> /\ db'
      BY <1>1, <1>6, <2>1 DEF Queued
    <2> QED
      BY <1>1, <1>2, <1>3, <1>5, <2>4, <2>5, <2>6, <2>8, <2>9 DEF TrackerInv, TrackerTyping
  <1>7. CASE db /\ UNCHANGED <<row, appending, acked, forgotten>>
    <2>1. appending = <<>>
      BY <1>7 DEF TrackerInv
    <2>2. Queued' /\ appending' = <<>> /\ db'
      BY <1>1, <1>7, <2>1 DEF Queued
    <2>3. \A u \in Kinds \ forgotten' : records'[u] >= acked'[u]
      BY <1>7, <1>10
    <2>4. \A u \in Kinds \ forgotten' : row'[u] >= acked'[u]
      BY <1>7 DEF TrackerInv
    <2> QED
      BY <1>1, <1>2, <1>3, <1>5, <1>7, <2>2, <2>3, <2>4 DEF TrackerInv, TrackerTyping
  <1>8. CASE /\ ~db /\ appending' = Append(appending, <<r, t, records'[t]>>)
             /\ UNCHANGED <<row, acked, forgotten>>
    <2> DEFINE e == <<r, t, records'[t]>>
               n == Len(appending)
    <2>1. e \in Waiting /\ e[2] = t /\ e[3] = records'[t]
      BY <1>3 DEF Waiting
    <2>2. /\ appending' \in Seq(Waiting) /\ Len(appending') = n + 1 /\ n \in Nat /\ appending'[n + 1] = e
          /\ \A i \in 1..n : appending'[i] = appending[i] /\ appending[i] \in Waiting
      BY <1>2, <1>8, <2>1
    <2> HIDE DEF e, n
    <2>3. \A i \in 1..n : /\ appending[i][2] \in Kinds /\ appending[i][3] \in Nat
                          /\ records[appending[i][2]] >= appending[i][3]
                          /\ appending[i][2] \notin forgotten => appending[i][3] > acked[appending[i][2]]
      BY <2>2 DEF TrackerInv, Queued, Waiting, n
    <2>4. \A i, j \in 1..n : i < j /\ appending[i][2] = appending[j][2] => appending[i][3] < appending[j][3]
      BY DEF TrackerInv, Queued, n
    <2>5. ASSUME NEW i \in 1..(n + 1)
          PROVE /\ records'[appending'[i][2]] >= appending'[i][3]
                /\ appending'[i][2] \notin forgotten' => appending'[i][3] > acked'[appending'[i][2]]
      <3>1. CASE i = n + 1
        BY <1>2, <1>3, <1>4, <1>8, <2>1, <2>2, <3>1
      <3>2. CASE i \in 1..n
        <4>1. appending'[i] = appending[i] /\ appending[i][2] \in Kinds
          BY <2>2, <2>3, <3>2
        <4>2. records'[appending[i][2]] >= records[appending[i][2]]
              /\ records[appending[i][2]] \in Nat /\ records'[appending[i][2]] \in Nat
          BY <1>9, <4>1
        <4>3. /\ appending[i][3] \in Nat /\ records[appending[i][2]] >= appending[i][3]
              /\ appending[i][2] \notin forgotten => appending[i][3] > acked[appending[i][2]]
          BY <2>3, <3>2
        <4>4. records'[appending[i][2]] >= appending[i][3]
          BY <4>2, <4>3
        <4> QED
          BY <1>8, <4>1, <4>3, <4>4
      <3> QED
        BY <2>2, <3>1, <3>2
    <2>6. ASSUME NEW i \in 1..(n + 1), NEW j \in 1..(n + 1), i < j, appending'[i][2] = appending'[j][2]
          PROVE appending'[i][3] < appending'[j][3]
      <3>0. i \in 1..n /\ appending'[i] = appending[i]
        BY <2>2, <2>6
      <3>1. CASE j = n + 1
        <4>1. appending[i][2] = t /\ appending'[j][3] = records[t] + 1
          BY <1>3, <2>1, <2>2, <2>6, <3>0, <3>1
        <4>2. records[t] >= appending[i][3] /\ appending[i][3] \in Nat
          BY <2>3, <3>0, <4>1
        <4> QED
          BY <1>2, <3>0, <4>1, <4>2
      <3>2. CASE j \in 1..n
        BY <2>2, <2>4, <2>6, <3>0, <3>2
      <3> QED
        BY <2>2, <3>1, <3>2
    <2>7. Queued'
      BY <2>2, <2>5, <2>6 DEF Queued
    <2>8. \A u \in Kinds \ forgotten' : records'[u] >= acked'[u]
      BY <1>8, <1>10
    <2>9. LogKept'
      BY <1>1, <1>8, Untouched DEF TrackerInv
    <2> QED
      BY <1>1, <1>2, <1>3, <1>5, <1>8, <2>2, <2>7, <2>8, <2>9 DEF TrackerInv, TrackerTyping
  <1> QED
    BY <1>6, <1>7, <1>8 DEF Tracker!writes

LEMMA RestartKeeps ==
  ASSUME TrackerInv, Tracker!restart
  PROVE  TrackerInv'
  <1>1. /\ db' \in BOOLEAN /\ records' = [t \in Kinds |-> 0] /\ hydrated' = FALSE
        /\ recorder' = [r \in Recorders |-> "idle"] /\ appending' = <<>>
        /\ UNCHANGED <<row, acked>>
    BY DEF Tracker!restart
  <1>2. /\ acked \in [Kinds -> Nat] /\ row \in [Kinds -> Nat] /\ LogTyping
        /\ (db => \A u \in Kinds \ forgotten : row[u] >= acked[u]) /\ (~db => LogKept)
    BY DEF TrackerInv, TrackerTyping
  <1>3. LogTyping' => TrackerTyping'
    <2>1. records' \in [Kinds -> Nat] /\ hydrated' \in BOOLEAN /\ appending' \in Seq(Waiting)
          /\ DOMAIN recorder' = Recorders
      <3>1. <<>> \in Seq(Waiting)
        OBVIOUS
      <3>2. records' \in [Kinds -> Nat] /\ hydrated' \in BOOLEAN /\ DOMAIN recorder' = Recorders
        BY <1>1
      <3> QED
        BY <1>1, <3>1, <3>2
    <2> QED
      BY <1>1, <1>2, <2>1 DEF TrackerTyping
  <1>4. Queued' /\ appending' = <<>> /\ ~hydrated'
    BY <1>1 DEF Queued
  <1>5. CASE appending # <<>> /\ Tracker!torn(db' # db)
    <2>1. ~db
      BY <1>5 DEF TrackerInv
    <2>2. LogTyping' /\ LogKept' /\ ((db' # db) => Kinds \subseteq forgotten')
      BY <1>1, <1>5, TornKeeps
    <2> QED
      BY <1>3, <1>4, <2>1, <2>2 DEF TrackerInv
  <1>6. CASE perfLog' = perfLog /\ forgotten' = (IF db' = db THEN forgotten ELSE Kinds)
    <2>1. LogTyping'
      BY <1>2, <1>6 DEF LogTyping, Lines, Entry
    <2>2. CASE db' = db
      <3>1. ~db' => LogKept'
        BY <1>1, <1>2, <1>6, <2>2, Untouched
      <3>2. db' => \A u \in Kinds \ forgotten' : row'[u] >= acked'[u]
        BY <1>1, <1>2, <1>6, <2>2
      <3> QED
        BY <1>3, <1>4, <2>1, <3>1, <3>2 DEF TrackerInv
    <2>3. CASE db' # db
      <3>1. Kinds \ forgotten' = {}
        BY <1>6, <2>3
      <3> QED
        BY <1>3, <1>4, <2>1, <3>1 DEF TrackerInv, LogKept
    <2> QED
      BY <2>2, <2>3
  <1> QED
    BY <1>5, <1>6 DEF Tracker!restart

LEMMA TrackerKeeps == TrackerInv /\ [Tracker!Next]_Tracker!trackerVars => TrackerInv'
  <1> SUFFICES ASSUME TrackerInv, [Tracker!Next]_Tracker!trackerVars PROVE TrackerInv'
    OBVIOUS
  <1>0. /\ acked \in [Kinds -> Nat] /\ row \in [Kinds -> Nat] /\ LogTyping
        /\ (db => \A u \in Kinds \ forgotten : row[u] >= acked[u]) /\ (~db => LogKept)
        /\ db \in BOOLEAN
    BY DEF TrackerInv, TrackerTyping
  <1>1. CASE Tracker!hydrates \/ Tracker!hydratesFromNothing
    <2>1. /\ ~hydrated /\ hydrated' = TRUE
          /\ UNCHANGED <<db, row, perfLog, recorder, appending, acked>>
      BY <1>1 DEF Tracker!hydrates, Tracker!hydratesFromNothing
    <2>2. appending = <<>>
      BY <2>1 DEF TrackerInv
    <2>3. LogTyping'
      BY <1>0, <2>1 DEF LogTyping, Lines, Entry
    <2>4. Queued' /\ appending' = <<>>
      BY <2>1, <2>2 DEF Queued
    <2>5. /\ records' \in [Kinds -> Nat] /\ forgotten \cap Kinds \subseteq forgotten'
          /\ \A u \in Kinds \ forgotten' : records'[u] >= acked'[u]
      <3>1. CASE Tracker!hydrates
        <4>1. records' = [t \in Kinds |-> IF db THEN row[t] ELSE LatestOn(perfLog.lines, t)] /\ forgotten' = forgotten
          BY <3>1, LatestIs DEF Tracker!hydrates, Tracker!listToolPerformance, LatestOn
        <4>2. perfLog.lines \in Seq(Lines)
          BY <1>0 DEF LogTyping
        <4>3. \A t : LatestOn(perfLog.lines, t) \in Nat
          BY <4>2, LatestTyping
        <4>4. ~db => \A u \in Kinds \ forgotten : LatestOn(perfLog.lines, u) >= acked[u]
          BY <1>0 DEF LogKept, Covers
        <4> QED
          BY <1>0, <2>1, <4>1, <4>3, <4>4
      <3>2. CASE Tracker!hydratesFromNothing
        BY <3>2 DEF Tracker!hydratesFromNothing
      <3> QED
        BY <1>1, <3>1, <3>2
    <2>6. ~db' => LogKept'
      BY <1>0, <2>1, <2>5 DEF LogKept, Covers, LatestOn, Tracker!Front
    <2>7. db' => \A u \in Kinds \ forgotten' : row'[u] >= acked'[u]
      BY <1>0, <2>1, <2>5
    <2> QED
      BY <2>1, <2>3, <2>4, <2>5, <2>6, <2>7 DEF TrackerInv, TrackerTyping
  <1>2. CASE Tracker!appendFails
    <2>1. /\ appending # <<>> /\ Tracker!torn(FALSE)
          /\ recorder' = [recorder EXCEPT ![Head(appending)[1]] = "idle"]
          /\ appending' = Tail(appending)
          /\ UNCHANGED <<db, row, records, hydrated, acked>>
      BY <1>2 DEF Tracker!appendFails
    <2>2. LogTyping' /\ LogKept' /\ forgotten \subseteq forgotten'
      BY <2>1, TornKeeps
    <2>3. \A u \in Kinds \ forgotten' : u \notin forgotten /\ acked'[u] = acked[u]
      BY <2>1, <2>2
    <2>4. acked' \in [Kinds -> Nat]
      BY <1>0, <2>1
    <2>5. Queued' /\ appending' \in Seq(Waiting)
      BY <2>1, <2>3, <2>4, QueueMoves
    <2>6. hydrated /\ ~db
      BY <2>1 DEF TrackerInv
    <2>7. \A u \in Kinds \ forgotten' : records'[u] >= acked'[u]
      BY <2>1, <2>3, <2>6 DEF TrackerInv
    <2>8. TrackerTyping'
      BY <2>1, <2>2, <2>5 DEF TrackerInv, TrackerTyping
    <2> QED
      BY <2>1, <2>2, <2>5, <2>6, <2>7, <2>8 DEF TrackerInv
  <1>3. ASSUME NEW r \in Recorders, NEW t \in Kinds, Tracker!record(r, t) PROVE TrackerInv'
    <2>1. CASE Tracker!mayRecord /\ Tracker!writes(r, t)
      BY <2>1, WriteKeeps DEF Tracker!mayRecord
    <2>2. CASE /\ recorder' = [recorder EXCEPT ![r] = t]
               /\ UNCHANGED <<db, row, perfLog, records, hydrated, appending, misstepsLeft, acked, forgotten>>
      BY <2>2 DEF TrackerInv, TrackerTyping, Queued, LogTyping, Lines, Entry, Waiting, LogKept, Covers, LatestOn, Tracker!Front
    <2> QED
      BY <1>3, <2>1, <2>2 DEF Tracker!record
  <1>4. ASSUME NEW r \in Recorders, Tracker!resumes(r) PROVE TrackerInv'
    BY <1>4, WriteKeeps DEF Tracker!resumes
  <1>5. CASE UNCHANGED Tracker!trackerVars
    BY <1>5 DEF Tracker!trackerVars, TrackerInv, TrackerTyping, Queued, LogTyping, Lines, Entry, Waiting, LogKept, Covers, LatestOn, Tracker!Front
  <1> QED
    BY <1>1, <1>2, <1>3, <1>4, <1>5, AppendKeeps, RestartKeeps DEF Tracker!Next

LEMMA TrackerSteps == [MCNext]_MCVars => [Tracker!Next]_Tracker!trackerVars
  BY DEF MCNext, SoulNext, OutsideNext, HelperNext, MCVars, helperVars, trackerVars, Tracker!trackerVars

(* For any number of callers and kinds, a log of any length and window, and any
   failed writes, torn lines and restarts: no count goes back behind a record()
   that returned, but for the reasons the module names
   (ToolPerformanceTracker.ts:74-134, SQLiteLearningStore.ts). *)
THEOREM CountsAreKept == MCSpec => []NothingForgotten
  <1>1. MCInit => TrackerInv
    <2> SUFFICES ASSUME Tracker!Init PROVE TrackerInv
      BY DEF MCInit
    <2>1. /\ perfLog.lines = <<>> /\ perfLog.cut = FALSE /\ hydrated = FALSE /\ appending = <<>>
          /\ row = [t \in Kinds |-> 0] /\ records = [t \in Kinds |-> 0] /\ acked = [t \in Kinds |-> 0]
          /\ db \in BOOLEAN /\ recorder = [r \in Recorders |-> "idle"]
      BY DEF Tracker!Init, Tracker!EmptyLog
    <2>2. LogTyping
      <3>1. <<>> \in Seq(Lines)
        OBVIOUS
      <3> QED
        BY <2>1, <3>1 DEF LogTyping
    <2>3. \A t : LatestOn(perfLog.lines, t) \in Nat
      BY <2>2, LatestTyping DEF LogTyping
    <2>4. LogKept
      BY <2>1, <2>3 DEF LogKept, Covers
    <2>5. TrackerTyping
      <3>1. <<>> \in Seq(Waiting)
        OBVIOUS
      <3>2. DOMAIN recorder = Recorders /\ hydrated \in BOOLEAN
        BY <2>1
      <3>3. row \in [Kinds -> Nat] /\ records \in [Kinds -> Nat] /\ acked \in [Kinds -> Nat]
        BY <2>1
      <3> QED
        BY <2>1, <2>2, <3>1, <3>2, <3>3 DEF TrackerTyping
    <2>6. Queued
      BY <2>1 DEF Queued
    <2>7. \A t \in Kinds : row[t] >= acked[t]
      BY <2>1
    <2> QED
      BY <2>1, <2>4, <2>5, <2>6, <2>7 DEF TrackerInv
  <1>2. TrackerInv /\ [MCNext]_MCVars => TrackerInv'
    BY TrackerKeeps, TrackerSteps
  <1>3. TrackerInv => NothingForgotten
    BY DEF TrackerInv, NothingForgotten, Tracker!NothingForgotten
  <1> QED
    BY <1>1, <1>2, <1>3, PTL DEF MCSpec
=============================================================================
