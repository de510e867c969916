---------------------------- MODULE PriceService ----------------------------
(* packages/toolkit/src/services/PriceService.ts: prices from a list of sources,
   one asked after the other, with a cache for a minute, the last known price
   and a configured one behind them.  A price is the time it was read at its
   source.  getBNBPrice and getTokenPrice share an entry of the cache; a token
   asked for by address has one of its own. *)
EXTENDS Integers, Sequences

CONSTANTS Callers, Ttl,        \* TTL_MS, in ticks
          MaxAsk,              \* ticks a source has to answer
          MaxTick              \* bound

VARIABLES tick, settings, priceCache, query

priceVars == <<tick, settings, priceCache, query>>

Configured == -1
NoPrice == -2        \* thrown, or 0
Insane == -3         \* not a number, not above 0, or above a million
Keys == {"BNB", "address"}
Idle == [pc |-> "idle"]

Init ==
  /\ tick = 0 /\ query = [c \in Callers |-> Idle]
  /\ settings \in [oracle : BOOLEAN, strict : BOOLEAN, fallback : BOOLEAN]
  /\ priceCache = [k \in Keys |-> [read |-> NoPrice, expires |-> 0]]

key(kind) == IF kind = "address" THEN "address" ELSE "BNB"
getCached(k) == priceCache[k].read # NoPrice /\ tick < priceCache[k].expires
setCached(k, price) == priceCache' = [priceCache EXCEPT ![k] = [read |-> price, expires |-> tick + Ttl]]

oracle == IF settings.oracle THEN <<"oracle">> ELSE <<>>
sources(kind) ==
  CASE kind = "bnb" -> oracle \o (IF settings.strict THEN <<>> ELSE <<"gecko", "binance", "mirror">>)
    [] kind = "symbol" -> oracle \o (IF settings.strict THEN <<>> ELSE <<"gecko">>)
    [] OTHER -> IF settings.strict THEN <<>> ELSE <<"dexscreener">>

returns(c, q, price, outage) ==
  query' = [query EXCEPT ![c] = [pc |-> "done", outage |-> outage,
                                   age |-> IF price < 0 THEN 0 ELSE q.since - price]]
asks(c, q, left) ==
  /\ query' = [query EXCEPT ![c] = [q EXCEPT !.left = left, !.asked = tick]]
  /\ UNCHANGED priceCache

\* Mutant: a price that had to do is good for another minute.
proceed_renewing(c, q, left) ==
  IF left # <<>> THEN asks(c, q, left)
  ELSE IF q.kind = "bnb" /\ q.stale # NoPrice THEN returns(c, q, q.stale, TRUE) /\ setCached("BNB", q.stale)
  ELSE returns(c, q, NoPrice, TRUE) /\ UNCHANGED priceCache

(* The next source, or what is left when all have failed: the price that was
   cached when the call began, the configured one, at last Pyth's. *)
proceed(c, q, left) ==
  IF left # <<>> THEN asks(c, q, left)
  ELSE IF q.kind # "bnb" THEN returns(c, q, NoPrice, TRUE) /\ UNCHANGED priceCache
  ELSE IF q.stale # NoPrice THEN returns(c, q, q.stale, TRUE) /\ UNCHANGED priceCache
  ELSE IF settings.fallback THEN returns(c, q, Configured, TRUE) /\ setCached("BNB", Configured)
  ELSE IF settings.strict \/ q.left = <<"pyth">> THEN returns(c, q, NoPrice, TRUE) /\ UNCHANGED priceCache
  ELSE asks(c, q, <<"pyth">>)

getPrice(c, kind) ==
  LET q == [pc |-> "asking", kind |-> kind, since |-> tick, asked |-> tick, left |-> <<>>,
            stale |-> priceCache[key(kind)].read]
  IN /\ query[c].pc # "asking"
     /\ IF getCached(key(kind)) THEN returns(c, q, q.stale, FALSE) /\ UNCHANGED priceCache
        ELSE proceed(c, q, sources(kind))
     /\ UNCHANGED <<tick, settings>>

(* fetchMultiplePrices neither checks what it returns nor caches what the oracle
   says. *)
answered(c, price) ==
  LET q == query[c] IN
  /\ q.pc = "asking" /\ price \in (q.asked..tick) \cup {Insane}
  /\ IF price = Insane /\ q.kind # "symbol" THEN proceed(c, q, Tail(q.left))
     ELSE /\ returns(c, q, price, FALSE)
          /\ IF price = Insane \/ (q.kind = "symbol" /\ Head(q.left) = "oracle")
             THEN UNCHANGED priceCache ELSE setCached(key(q.kind), price)
  /\ UNCHANGED <<tick, settings>>

failed(c) ==
  /\ query[c].pc = "asking" /\ proceed(c, query[c], Tail(query[c].left))
  /\ UNCHANGED <<tick, settings>>

(* The gateway's timeouts bound a question. *)
ticks ==
  /\ tick < MaxTick /\ tick' = tick + 1
  /\ \A c \in Callers : query[c].pc = "asking" => tick - query[c].asked < MaxAsk
  /\ UNCHANGED <<settings, priceCache, query>>

Next ==
  \/ \E c \in Callers : \/ \E kind \in {"bnb", "symbol", "address"} : getPrice(c, kind)
                        \/ \E price \in (0..tick) \cup {Insane} : answered(c, price)
                        \/ failed(c)
  \/ ticks

Spec == Init /\ [][Next]_priceVars

(* A price older than its time in the cache, and the time its source took, is
   returned only by a call all of whose own sources failed: what stands in for a
   price during an outage does not outlive it (PriceService.ts:85-185). *)
OldMeansOutage ==
  \A c \in Callers :
    query[c].pc = "done" /\ ~query[c].outage => query[c].age < Ttl + MaxAsk
=============================================================================
