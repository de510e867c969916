----------------------------- MODULE SecurityScan -----------------------------
(* The token scans of the DeFi package, packages/defi-bnb/src/security.ts:
   scanContract awaits six services one after the other and keeps the verdict
   in a bounded cache.  Scans of one agent interleave at every await, services
   fail, and a token may turn while it is being scanned. *)
EXTENDS Integers, SequencesExt

CONSTANTS
  Scans,        \* concurrent calls of scanContract
  Tokens,
  Findings,     \* what the chain and the explorer may say of a token: sets of risks
  CacheTtl,     \* SCAN_CACHE_TTL_MS, in ticks
  CacheSize,    \* MAX_CACHE_SIZE
  MaxScan,      \* ticks the services' timeouts and retries leave a scan
  MaxNow

VARIABLES
  now,
  reported,     \* what GoPlus reports of each token; "unlisted" when it knows nothing
  turned,       \* when GoPlus first reported the token a honeypot; Never before that
  scanCache,    \* oldest entry first
  scan

scanVars == <<now, reported, turned, scanCache, scan>>

Never == MaxNow + CacheTtl + MaxScan + 1

Idle == [at |-> "idle", token |-> CHOOSE t \in Tokens : TRUE, began |-> 0, risks |-> {}]

Init ==
  /\ now = 0
  /\ reported \in [Tokens -> {{"tax", "closed"}, {"unlisted"}}]
  /\ turned = [t \in Tokens |-> Never]
  /\ scanCache = << >>
  /\ scan = [s \in Scans |-> Idle]

Step(s, from, to, found) ==
  /\ scan[s].at = from
  /\ scan' = [scan EXCEPT ![s].at = to, ![s].risks = @ \union found]
  /\ UNCHANGED <<now, reported, turned, scanCache>>

(* The Map has one entry per token, in the order of insertion. *)
has(t) == \E i \in DOMAIN scanCache : scanCache[i].token = t

place(t) == CHOOSE i \in DOMAIN scanCache : scanCache[i].token = t

Without(t) == IF has(t) THEN RemoveAt(scanCache, place(t)) ELSE scanCache

(* A hit renews the entry, as a cache that evicts by use would. *)
getCachedScan_renewing(s, t) ==
  LET entry == scanCache[place(t)] IN
  IF has(t) /\ now - entry.timestamp <= CacheTtl
  THEN /\ scanCache' = Append(Without(t), [entry EXCEPT !.timestamp = now])
       /\ UNCHANGED scan
  ELSE /\ scanCache' = Without(t)
       /\ scan' = [scan EXCEPT ![s] = [at |-> "honeypot", token |-> t, began |-> now, risks |-> {}]]

(* A verdict is served from the cache, or an expired one is dropped. *)
getCachedScan(s, t) ==
  LET entry == scanCache[place(t)] IN
  IF has(t) /\ now - entry.timestamp <= CacheTtl
  THEN UNCHANGED <<scanCache, scan>>
  ELSE /\ scanCache' = Without(t)
       /\ scan' = [scan EXCEPT ![s] = [at |-> "honeypot", token |-> t, began |-> now, risks |-> {}]]

starts(s, t) ==
  /\ scan[s].at = "idle"
  /\ getCachedScan(s, t)
  /\ UNCHANGED <<now, reported, turned>>

(* A token GoPlus does not list passes as clean; an unreachable GoPlus degrades
   the scan. *)
checkHoneypotGoPlus(s) ==
  \/ Step(s, "honeypot", "chain", reported[scan[s].token] \intersect {"honeypot"})
  \/ Step(s, "honeypot", "chain", {"degraded"})

(* Verification, ownership, restrictions and bytecode: each swallows its own
   failures, so together they find one of the sets in Findings. *)
chainChecks(s) == \E found \in Findings : Step(s, "chain", "goplus", found)

(* The second question to GoPlus.  Unanswered, it adds a risk only to a scan
   that is already degraded. *)
getGoPlusSecurityData(s) ==
  LET answer == reported[scan[s].token]
      blind == IF "degraded" \in scan[s].risks THEN {"blind"} ELSE {}
  IN \/ "unlisted" \notin answer /\ Step(s, "goplus", "finish", answer \ {"honeypot"})
     \/ Step(s, "goplus", "finish", blind)

(* setCachedScan: one entry per token; a full cache drops its first. *)
setCachedScan(entry) ==
  scanCache' =
    IF has(entry.token) \/ Len(scanCache) < CacheSize
    THEN Append(Without(entry.token), entry)
    ELSE Append(Tail(scanCache), entry)

finish(s) ==
  /\ scan[s].at = "finish"
  /\ setCachedScan([token |-> scan[s].token, timestamp |-> now, risks |-> scan[s].risks])
  /\ scan' = [scan EXCEPT ![s] = Idle]
  /\ UNCHANGED <<now, reported, turned>>

scanContract(s) ==
  \/ \E t \in Tokens : starts(s, t)
  \/ checkHoneypotGoPlus(s)
  \/ chainChecks(s)
  \/ getGoPlusSecurityData(s)
  \/ finish(s)

(* The world: a listed token is found out, and time passes. *)
turns(t) ==
  /\ "unlisted" \notin reported[t] /\ "honeypot" \notin reported[t]
  /\ reported' = [reported EXCEPT ![t] = @ \union {"honeypot"}]
  /\ turned' = [turned EXCEPT ![t] = now]
  /\ UNCHANGED <<now, scanCache, scan>>

tick ==
  /\ now < MaxNow
  /\ \A s \in Scans : scan[s].at # "idle" => now - scan[s].began < MaxScan
  /\ now' = now + 1
  /\ UNCHANGED <<reported, turned, scanCache, scan>>

Next ==
  \/ \E s \in Scans : scanContract(s)
  \/ \E t \in Tokens : turns(t)
  \/ tick

Spec == Init /\ [][Next]_scanVars

Clean(risks) == {"honeypot", "degraded"} \intersect risks = {}

(* A clean answer (not a honeypot, not degraded) is never older than the time to
   live plus one scan, be it one a scan is about to give or one the cache would:
   neither hits, nor evictions, nor a slow scan that overwrites the verdict of a
   later one stretch it. *)
CleanIsFresh ==
  /\ \A s \in Scans :
       scan[s].at = "finish" /\ Clean(scan[s].risks) => turned[scan[s].token] >= now - MaxScan
  /\ \A i \in DOMAIN scanCache :
       Clean(scanCache[i].risks) /\ now - scanCache[i].timestamp <= CacheTtl
         => turned[scanCache[i].token] >= now - CacheTtl - MaxScan
=============================================================================
