---------------------------- MODULE PriceSensors ----------------------------
(* How the soul senses the price of BNB: PythAdapter keeps the last price its
   WebSocket brought, PriceAggregator asks it, Binance and the DEX together and
   judges what they say, ClawOracle probes the market's depth with the result.
   Prices are numbers; those of the aggregator are kept doubled, so that the mean
   of two is one of them. *)
EXTENDS Integers, FiniteSets

CONSTANT Prices     \* what the market, or who moves the DEX, may show

VARIABLES market,
          feed, feedTimer, disposed,   \* the WebSocket: "none", "connecting", "open", "closed"
          pythPrice,                   \* priceCache, which nothing in it ever expires
          readings                     \* of the last getPrice, the warm-up it may need, and its answer

sensorVars == <<market, feed, feedTimer, disposed, pythPrice, readings>>
feedVars == <<feed, feedTimer, disposed>>

None == -1
Pending == -2
NotANumber == -3
Refused == -4       \* CRITICAL_ORACLE_DIVERGENCE, or no source
Asking == -5
Sources == {"Pyth", "Binance", "DEX"}

Init ==
  /\ market \in Prices /\ pythPrice = None
  /\ feed = "connecting" /\ feedTimer = FALSE /\ disposed = FALSE
  /\ readings = [Pyth |-> None, Binance |-> None, DEX |-> None, warmUp |-> None, seen |-> {},
                 answer |-> Refused, depth |-> "THIN"]

(* connect, scheduleReconnect, dispose *)
opens == feed = "connecting" /\ feed' = "open" /\ UNCHANGED <<feedTimer, disposed>>
closes == feed \in {"connecting", "open"} /\ feed' = "closed" /\ feedTimer' = TRUE /\ UNCHANGED disposed
reconnects == feedTimer /\ feedTimer' = FALSE /\ feed' = "connecting" /\ UNCHANGED disposed
notMade == feedTimer /\ feed' = "none" /\ UNCHANGED <<feedTimer, disposed>>    \* new WebSocket throws
dispose == ~disposed /\ disposed' = TRUE /\ feedTimer' = FALSE /\ feed' = "none"
feedStep == (opens \/ closes \/ reconnects \/ notMade \/ dispose) /\ UNCHANGED <<market, pythPrice, readings>>

handleWsMessage ==
  /\ feed = "open" /\ pythPrice' = market
  /\ UNCHANGED <<market, feedVars, readings>>

marketMoves(p) ==
  /\ market' = p /\ p # market
  /\ readings' = [readings EXCEPT !.seen = IF readings.answer = Asking THEN @ \cup {p} ELSE @]
  /\ UNCHANGED <<feedVars, pythPrice>>

(* Promise.allSettled over the three: Pyth's price is there at once if there is
   any, else it is fetched, and what was fetched replaces what came meanwhile. *)
getPrice ==
  /\ readings.answer # Asking
  /\ readings' = [Pyth |-> IF pythPrice = None THEN Pending ELSE pythPrice, Binance |-> Pending,
                  DEX |-> Pending, warmUp |-> None, seen |-> {market}, answer |-> Asking, depth |-> "THIN"]
  /\ UNCHANGED <<market, feedVars, pythPrice>>

fetchHttpOneOff ==
  /\ readings.Pyth = Pending /\ readings.warmUp = None /\ readings' = [readings EXCEPT !.warmUp = market]
  /\ UNCHANGED <<market, feedVars, pythPrice>>
warmed ==
  /\ readings.Pyth = Pending /\ readings.warmUp # None
  /\ pythPrice' = readings.warmUp /\ readings' = [readings EXCEPT !.Pyth = readings.warmUp]
  /\ UNCHANGED <<market, feedVars>>
sourceAnswers(s, p) ==
  /\ readings[s] = Pending
  /\ p \in IF s = "Pyth" THEN {None} ELSE IF s = "Binance" THEN {None, NotANumber, market} ELSE Prices \cup {None}
  /\ readings' = [readings EXCEPT ![s] = p]
  /\ UNCHANGED <<market, feedVars, pythPrice>>

above(r, s, t, percent) == 100 * (r[s] - r[t]) > percent * r[t]
heavier(S) == IF "Pyth" \in S THEN "Pyth" ELSE "Binance"
middle(r, S) == CHOOSE s \in S :
  Cardinality({t \in S : r[t] < r[s]}) <= 1 /\ Cardinality({t \in S : r[t] > r[s]}) <= 1
apart(r, S, percent) == \E s, t \in S : above(r, s, t, percent)
total(r, S) == LET v(s) == IF s \in S THEN r[s] ELSE 0 IN v("Pyth") + v("Binance") + v("DEX")
median(r, S) == IF Cardinality(S) = 2 THEN total(r, S) ELSE 2 * r[middle(r, S)]
far(r, S) == LET m == median(r, S) IN
  \E s \in S : 100 * (2 * r[s] - m) > 20 * m \/ 100 * (m - 2 * r[s]) > 20 * m

\* Mutant: two sources that differ are settled by their weight.
calculateConsensus_weighing(r, S) ==
  IF S = {} \/ far(r, S) THEN Refused
  ELSE IF Cardinality(S) = 2 /\ apart(r, S, 5) THEN 2 * r[heavier(S)] ELSE median(r, S)

(* No comparison with NaN holds: it passes every check and is the median. *)
calculateConsensus(r, S) ==
  IF S # {} /\ r.Binance = NotANumber THEN NotANumber
  ELSE IF S = {} \/ far(r, S) \/ (Cardinality(S) = 2 /\ apart(r, S, 10)) THEN Refused
  ELSE IF Cardinality(S) = 2 /\ apart(r, S, 5) THEN 2 * r[heavier(S)]
  ELSE median(r, S)

(* sense and probeLiquidity: without a number the market is thin. *)
senses(depth) ==
  /\ readings.answer = Asking /\ \A s \in Sources : readings[s] # Pending
  /\ LET answer == calculateConsensus(readings, {s \in Sources : readings[s] # None})
     IN /\ answer = NotANumber => depth = "THIN"
        /\ readings' = [readings EXCEPT !.answer = answer, !.depth = depth, !.Pyth = None, !.DEX = None, !.warmUp = None]
  /\ UNCHANGED <<market, feedVars, pythPrice>>

Next ==
  \/ feedStep \/ handleWsMessage \/ getPrice \/ fetchHttpOneOff \/ warmed
  \/ \E p \in Prices : marketMoves(p)
  \/ \E s \in Sources, p \in Prices \cup {None, NotANumber} : sourceAnswers(s, p)
  \/ \E depth \in {"THIN", "DEEP"} : senses(depth)

Spec == Init /\ [][Next]_sensorVars

(* Whatever the feed kept while it was cut off and however the DEX was moved, an
   answer that Binance had a part in, in numbers, is within a fifth of a price the
   market had while it was asked (PriceAggregator.ts:103-149). *)
MarketAgrees ==
  readings.answer > 0 /\ readings.Binance > 0 =>
    \E p \in readings.seen :
      100 * (2 * p - readings.answer) <= 20 * readings.answer /\ 100 * (readings.answer - 2 * p) <= 20 * readings.answer

(* Until it is disposed the feed has a socket that lives or a timer that will
   make one (PythAdapter.ts:40-72, 230-247). *)
FeedAlive == ~disposed => feed \in {"connecting", "open"} \/ feedTimer
=============================================================================
