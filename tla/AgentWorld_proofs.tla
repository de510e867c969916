------------------------- MODULE AgentWorld_proofs --------------------------
(* What the agent sees and how it copes with what fails: the price stream, the
   circuit breaker of the helpers, the price service, the event bus, the sensors,
   the replicated storage and the order book, each with its inductive invariant and for every
   size of it. *)
EXTENDS MC_AgentWorld, FiniteSetTheorems, TLAPS

(* The price stream is never dead, with any number of sockets. *)

(* What the argument needs of the types: the timer of the code is armed or not,
   this.ws is a socket or null. *)
StreamTyping ==
  /\ socket \in [Stream!Sockets -> {"none", "connecting", "open", "closing", "closed"}]
  /\ ws \in {0} \cup Stream!Sockets
  /\ reconnectTimer \in {"none", "armed"}

StreamInv == StreamTyping /\ Stream!NeverDead

(* Closing a socket leaves it and every other alive that was. *)
LEMMA ClosingKeeps ==
  ASSUME NEW states \in [Stream!Sockets -> {"none", "connecting", "open", "closing", "closed"}],
         NEW i \in {0} \cup Stream!Sockets
  PROVE  /\ Stream!Closing(states, i) \in [Stream!Sockets -> {"none", "connecting", "open", "closing", "closed"}]
         /\ \A j \in Stream!Sockets : states[j] \in {"connecting", "open", "closing"} =>
                                 Stream!Closing(states, i)[j] \in {"connecting", "open", "closing"}
  BY DEF Stream!Closing, Stream!Sockets

(* A connection attempt leaves a socket on its way or an armed timer. *)
LEMMA ConnectLives ==
  ASSUME StreamTyping, Stream!connect(reconnectTimer) \/ Stream!connect("none")
  PROVE  /\ StreamTyping'
         /\ reconnectTimer' = "armed" \/ \E i \in Stream!Sockets : Stream!Live(i)'
  <1>1. PICK timer \in {"none", "armed"} : Stream!connect(timer)
    BY DEF StreamTyping
  <1>2. CASE \E i \in Stream!Sockets :
               /\ socket' = [socket EXCEPT ![i] = "connecting"]
               /\ ws' = i /\ reconnectTimer' = timer
    BY <1>2 DEF StreamTyping, Stream!Live
  <1>3. CASE reconnectTimer' = Stream!scheduleReconnect(timer) /\ UNCHANGED <<socket, ws>>
    BY <1>3 DEF StreamTyping, Stream!scheduleReconnect
  <1> QED
    BY <1>1, <1>2, <1>3 DEF Stream!connect

LEMMA StreamKeeps == StreamInv /\ [Stream!Next]_Stream!streamVars => StreamInv'
  <1> SUFFICES ASSUME StreamInv, [Stream!Next]_Stream!streamVars PROVE StreamInv'
    OBVIOUS
  <1> USE DEF StreamInv
  <1>1. CASE Stream!start
    BY <1>1, ConnectLives DEF Stream!start, Stream!NeverDead
  <1>2. CASE Stream!timerFires
    BY <1>2, ConnectLives DEF Stream!timerFires, Stream!NeverDead
  <1>3. CASE Stream!stop
    BY <1>3, ClosingKeeps DEF Stream!stop, StreamTyping, Stream!NeverDead
  <1>4. ASSUME NEW i \in Stream!Sockets, Stream!opens(i) PROVE StreamInv'
    BY <1>4 DEF Stream!opens, StreamTyping, Stream!NeverDead, Stream!Live
  <1>5. ASSUME NEW i \in Stream!Sockets, Stream!fails(i) PROVE StreamInv'
    <2> DEFINE first == Stream!Closing(socket, ws)
    <2>1. /\ first \in [Stream!Sockets -> {"none", "connecting", "open", "closing", "closed"}]
          /\ \A j \in Stream!Sockets : socket[j] \in {"connecting", "open", "closing"} =>
                                  first[j] \in {"connecting", "open", "closing"}
      BY ClosingKeeps DEF StreamTyping
    <2>2. socket' = Stream!Closing(first, i)
      BY <1>5 DEF Stream!fails
    <2> HIDE DEF first
    <2>3. /\ socket' \in [Stream!Sockets -> {"none", "connecting", "open", "closing", "closed"}]
          /\ \A j \in Stream!Sockets : first[j] \in {"connecting", "open", "closing"} =>
                                  socket'[j] \in {"connecting", "open", "closing"}
      BY <2>1, <2>2, ClosingKeeps
    <2> QED
      BY <1>5, <2>1, <2>3 DEF Stream!fails, StreamTyping, Stream!NeverDead, Stream!Live
  <1>6. ASSUME NEW i \in Stream!Sockets, Stream!closes(i) PROVE StreamInv'
    BY <1>6 DEF Stream!closes, Stream!scheduleReconnect, StreamTyping, Stream!NeverDead
  <1>7. CASE UNCHANGED Stream!streamVars
    BY <1>7 DEF Stream!streamVars, StreamTyping, Stream!NeverDead, Stream!Live
  <1> QED
    BY <1>1, <1>2, <1>3, <1>4, <1>5, <1>6, <1>7 DEF Stream!Next

(* In the composition the stream makes steps of its own, or none. *)
LEMMA StreamSteps == [MCNext]_MCVars => [Stream!Next]_Stream!streamVars
  BY DEF MCNext, SoulNext, OutsideNext, HelperNext, MCVars, soulVars, streamVars, Stream!streamVars

(* A stream that was started and not stopped has a socket or an armed timer,
   whatever the order of start(), stop(), failures and late close events
   (MarketStream.ts:53-110). *)
THEOREM StreamLives == MCSpec => []NeverDead
  <1>1. MCInit => StreamInv
    BY DEF MCInit, Stream!Init, StreamInv, StreamTyping, Stream!NeverDead
  <1>2. StreamInv /\ [MCNext]_MCVars => StreamInv'
    BY StreamKeeps, StreamSteps
  <1>3. StreamInv => NeverDead
    BY DEF StreamInv, NeverDead
  <1> QED
    BY <1>1, <1>2, <1>3, PTL DEF MCSpec

-----------------------------------------------------------------------------
(* The circuit breaker is never left half open, and never closed on a window that
   calls for a trip, with any number of callers and any settings. *)

(* The verdict just recorded is the last of the window. *)
LEMMA RecordedLast ==
  ASSUME NEW w \in Seq(BOOLEAN), NEW ok \in BOOLEAN
  PROVE  Fuse!recorded(w, ok) \in Seq(BOOLEAN) /\ Fuse!recorded(w, ok) # <<>> /\ Fuse!Last(Fuse!recorded(w, ok)) = ok
  <1> DEFINE longer == Append(w, ok)
  <1>1. longer \in Seq(BOOLEAN) /\ Len(longer) = Len(w) + 1 /\ longer[Len(longer)] = ok
    OBVIOUS
  <1>2. CASE Len(longer) > WindowSize
    <2>1. Tail(longer) \in Seq(BOOLEAN) /\ Len(Tail(longer)) = Len(longer) - 1
      BY <1>1
    <2>2. Len(longer) - 1 \in 1..Len(Tail(longer))
      BY <1>2, <2>1, WindowAssumption
    <2>3. Tail(longer)[Len(longer) - 1] = longer[Len(longer)]
      BY <1>1, <2>1, <2>2
    <2> QED
      BY <1>1, <1>2, <2>1, <2>2, <2>3 DEF Fuse!recorded, Fuse!Last
  <1>3. CASE ~(Len(longer) > WindowSize)
    BY <1>1, <1>3 DEF Fuse!recorded, Fuse!Last
  <1> QED
    BY <1>2, <1>3

BreakerInv == window \in Seq(BOOLEAN) /\ DOMAIN call = Firing /\ Fuse!BreakerSound

(* BreakerSound with a name for what it says of the window. *)
Judged(w) == w # <<>> /\ ~Fuse!Last(w) => ~Fuse!tooMany(w)

LEMMA SameWindow ==
  /\ Fuse!BreakerSound <=> (/\ breaker = "HALF_OPEN" => \E c \in Firing : call[c] = "HALF_OPEN"
                            /\ breaker = "CLOSED" => Judged(window))
  /\ Fuse!BreakerSound' <=> (/\ breaker' = "HALF_OPEN" => \E c \in Firing : call'[c] = "HALF_OPEN"
                             /\ breaker' = "CLOSED" => Judged(window'))
  BY DEF Fuse!BreakerSound, Judged

LEMMA SettlesKeeps ==
  ASSUME BreakerInv, NEW c \in Firing, Fuse!settles(c)
  PROVE  BreakerInv'
  <1>1. DOMAIN call' = Firing
    BY DEF Fuse!settles, BreakerInv
  <1>2. CASE Fuse!onSuccess
    <2>1. PICK w \in Seq(BOOLEAN) : window' = Fuse!recorded(w, TRUE)
      <3>1. <<>> \in Seq(BOOLEAN) /\ window \in Seq(BOOLEAN)
        BY DEF BreakerInv
      <3>2. window' = Fuse!recorded(<<>>, TRUE) \/ window' = Fuse!recorded(window, TRUE)
        BY <1>2 DEF Fuse!onSuccess
      <3> QED
        BY <3>1, <3>2
    <2>2. window' \in Seq(BOOLEAN) /\ Fuse!Last(window') = TRUE
      BY <2>1, RecordedLast
    <2>3. breaker' # "HALF_OPEN"
      BY <1>2 DEF Fuse!onSuccess
    <2>4. Fuse!BreakerSound'
      BY <2>2, <2>3, Zenon DEF Fuse!BreakerSound
    <2> QED
      BY <1>1, <2>2, <2>4 DEF BreakerInv
  <1>3. CASE Fuse!onFailure
    <2>1. window' \in Seq(BOOLEAN)
      BY <1>3, RecordedLast DEF Fuse!onFailure, BreakerInv
    <2>2. breaker' # "HALF_OPEN" /\ (breaker' = "CLOSED" => ~Fuse!tooMany(window'))
      <3>1. CASE breaker = "HALF_OPEN" \/ (breaker = "CLOSED" /\ Fuse!tooMany(window'))
        BY <1>3, <3>1 DEF Fuse!onFailure, Fuse!opens
      <3>2. CASE ~(breaker = "HALF_OPEN" \/ (breaker = "CLOSED" /\ Fuse!tooMany(window')))
        <4>1. breaker' = breaker
          BY <1>3, <3>2 DEF Fuse!onFailure
        <4> QED
          BY <3>2, <4>1
      <3> QED
        BY <3>1, <3>2
    <2>3. Fuse!BreakerSound'
      BY <2>2, Zenon DEF Fuse!BreakerSound
    <2> QED
      BY <1>1, <2>1, <2>3 DEF BreakerInv
  <1> QED
    BY <1>2, <1>3 DEF Fuse!settles

LEMMA BreakerKeeps ==
  ASSUME BreakerInv, [Fuse!Next]_Fuse!breakerVars
  PROVE  BreakerInv'
  <1>1. CASE Fuse!passes \/ UNCHANGED Fuse!breakerVars
    <2>1. UNCHANGED <<breaker, window, call>>
      BY <1>1 DEF Fuse!passes, Fuse!breakerVars
    <2>2. DOMAIN call' = Firing /\ window' \in Seq(BOOLEAN)
      BY <2>1 DEF BreakerInv
    <2>3. Fuse!BreakerSound'
      BY <2>1, SameWindow DEF BreakerInv
    <2> QED
      BY <2>2, <2>3, Zenon DEF BreakerInv
  <1>2. ASSUME NEW c \in Firing, Fuse!fire(c) PROVE BreakerInv'
    <2>1. breaker' = Fuse!maybeHalfOpen /\ window' = window /\ call' = [call EXCEPT ![c] = Fuse!maybeHalfOpen]
      BY <1>2 DEF Fuse!fire
    <2>2. DOMAIN call' = Firing
      BY <2>1 DEF BreakerInv
    <2>3. call'[c] = breaker'
      BY <2>1 DEF BreakerInv
    <2>4. breaker' = "CLOSED" => breaker = "CLOSED"
      BY <2>1 DEF Fuse!maybeHalfOpen
    <2>5. Fuse!BreakerSound'
      BY <2>1, <2>3, <2>4, SameWindow DEF BreakerInv
    <2> QED
      BY <2>1, <2>2, <2>5 DEF BreakerInv
  <1> QED
    BY <1>1, <1>2, SettlesKeeps DEF Fuse!Next

(* In the composition the breaker makes steps of its own, or none. *)
LEMMA FuseSteps == [MCNext]_MCVars => [Fuse!Next]_Fuse!breakerVars
  BY DEF MCNext, SoulNext, OutsideNext, HelperNext, MCVars, helperVars, fuseVars, Fuse!breakerVars

(* With any number of callers of fire(), a window of any length but 0 and any
   threshold, the verdicts that calls from before a trip bring in late never
   leave the breaker half open with nobody to decide, and it is not closed after
   a failure whose window calls for a trip (Resilience.ts:182-250). *)
THEOREM BreakerStaysSound == MCSpec => []BreakerSound
  <1>1. MCInit => BreakerInv
    <2> SUFFICES ASSUME MCInit PROVE BreakerInv
      OBVIOUS
    <2>1. window = <<>> /\ window \in Seq(BOOLEAN) /\ DOMAIN call = Firing /\ breaker # "HALF_OPEN"
      BY DEF MCInit, Fuse!Init
    <2> QED
      BY <2>1, Zenon DEF BreakerInv, Fuse!BreakerSound
  <1>2. BreakerInv /\ [MCNext]_MCVars => BreakerInv'
    BY BreakerKeeps, FuseSteps
  <1>3. BreakerInv => BreakerSound
    BY DEF BreakerInv, BreakerSound
  <1> QED
    BY <1>1, <1>2, <1>3, PTL DEF MCSpec

-----------------------------------------------------------------------------
(* The price service.  A price in the cache expires a Ttl after it came, and it
   came at most MaxAsk after it was read. *)
CacheYoung ==
  /\ tick \in Int /\ DOMAIN priceCache = Quotes!Keys
  /\ \A k \in Quotes!Keys :
       /\ priceCache[k].read \in Int /\ priceCache[k].expires \in Int
       /\ priceCache[k].read >= 0 => priceCache[k].expires <= priceCache[k].read + Ttl + MaxAsk

Asked(q) ==
  /\ q.pc = "asking" =>
       /\ q.since \in Int /\ q.asked \in Int
       /\ q.since <= q.asked /\ q.asked <= tick /\ tick <= q.asked + MaxAsk
  /\ q.pc = "done" /\ ~q.outage => q.age < Ttl + MaxAsk

PriceInv == CacheYoung /\ DOMAIN query = Callers /\ \A c \in Callers : Asked(query[c])

(* A step that sets one query, and the cache at most, at the same tick. *)
LEMMA QuerySet ==
  ASSUME PriceInv, NEW c \in Callers, NEW q,
         query' = [query EXCEPT ![c] = q], tick' = tick, Asked(q)
  PROVE  DOMAIN query' = Callers /\ \A d \in Callers : Asked(query[d])'
  <1>1. DOMAIN query' = Callers
    BY DEF PriceInv
  <1>2. ASSUME NEW d \in Callers PROVE Asked(query[d])'
    <2>1. query'[d] = q \/ query'[d] = query[d]
      BY DEF PriceInv
    <2>2. Asked(query[d])
      BY DEF PriceInv
    <2> QED
      BY <2>1, <2>2 DEF Asked
  <1> QED
    BY <1>1, <1>2

LEMMA CacheSet ==
  ASSUME CacheYoung, NEW k \in Quotes!Keys, NEW price \in Int, tick' = tick,
         price >= 0 => price >= tick - MaxAsk,
         Quotes!setCached(k, price)
  PROVE  CacheYoung'
  BY PriceAssumption DEF CacheYoung, Quotes!setCached

LEMMA ProceedKeeps ==
  ASSUME PriceInv, NEW c \in Callers, NEW q, NEW left, Quotes!proceed(c, q, left), tick' = tick,
         q.pc = "asking", q.since \in Int, q.since <= tick
  PROVE  PriceInv'
  <1>1. CASE Quotes!asks(c, q, left) \/ Quotes!asks(c, q, <<"pyth">>)
    <2>1. PICK l : query' = [query EXCEPT ![c] = [q EXCEPT !.left = l, !.asked = tick]]
      BY <1>1 DEF Quotes!asks
    <2> DEFINE r == [q EXCEPT !.left = l, !.asked = tick]
    <2>2. r.pc = "asking" /\ r.since = q.since /\ r.asked = tick
      OBVIOUS
    <2> HIDE DEF r
    <2>3. Asked(r)
      BY <2>2, PriceAssumption DEF Asked, PriceInv, CacheYoung
    <2>4. query' = [query EXCEPT ![c] = r]
      BY <2>1 DEF r
    <2>5. DOMAIN query' = Callers /\ \A d \in Callers : Asked(query[d])'
      BY <2>3, <2>4, QuerySet
    <2>6. CacheYoung'
      BY <1>1 DEF Quotes!asks, PriceInv, CacheYoung
    <2> QED
      BY <2>5, <2>6 DEF PriceInv
  <1>2. CASE \E price : Quotes!returns(c, q, price, TRUE)
    <2>1. PICK a : query' = [query EXCEPT ![c] = [pc |-> "done", outage |-> TRUE, age |-> a]]
      BY <1>2 DEF Quotes!returns
    <2>2. Asked([pc |-> "done", outage |-> TRUE, age |-> a])
      BY DEF Asked
    <2>3. DOMAIN query' = Callers /\ \A d \in Callers : Asked(query[d])'
      BY <2>1, <2>2, QuerySet
    <2>4. UNCHANGED priceCache \/ Quotes!setCached("BNB", Quotes!Configured) \/ Quotes!asks(c, q, left) \/ Quotes!asks(c, q, <<"pyth">>)
      BY DEF Quotes!proceed
    <2>5. CacheYoung'
      BY <2>4, CacheSet DEF PriceInv, CacheYoung, Quotes!Configured, Quotes!Keys, Quotes!asks
    <2> QED
      BY <2>3, <2>5 DEF PriceInv
  <1> QED
    BY <1>1, <1>2 DEF Quotes!proceed

LEMMA GetPriceKeeps ==
  ASSUME PriceInv, NEW c \in Callers, NEW kind, Quotes!getPrice(c, kind)
  PROVE  PriceInv'
  <1> DEFINE k == Quotes!key(kind)
             q == [pc |-> "asking", kind |-> kind, since |-> tick, asked |-> tick, left |-> <<>>,
                   stale |-> priceCache[k].read]
  <1>1. k \in Quotes!Keys
    BY DEF Quotes!key, Quotes!Keys
  <1>2. /\ tick' = tick
        /\ \/ Quotes!getCached(k) /\ Quotes!returns(c, q, q.stale, FALSE) /\ UNCHANGED priceCache
           \/ Quotes!proceed(c, q, Quotes!sources(kind))
    BY DEF Quotes!getPrice
  <1>3. q.pc = "asking" /\ q.since = tick /\ q.stale = priceCache[k].read
    OBVIOUS
  <1> HIDE DEF k, q
  <1>4. CASE Quotes!getCached(k) /\ Quotes!returns(c, q, q.stale, FALSE) /\ UNCHANGED priceCache
    <2>1. /\ priceCache[k].read \in Int /\ priceCache[k].expires \in Int /\ tick \in Int
          /\ tick < priceCache[k].expires
          /\ priceCache[k].read >= 0 => priceCache[k].expires <= priceCache[k].read + Ttl + MaxAsk
      BY <1>1, <1>4 DEF PriceInv, CacheYoung, Quotes!getCached
    <2> DEFINE age == IF q.stale < 0 THEN 0 ELSE q.since - q.stale
    <2>2. age < Ttl + MaxAsk
      BY <1>3, <2>1, PriceAssumption
    <2>3. query' = [query EXCEPT ![c] = [pc |-> "done", outage |-> FALSE, age |-> age]]
      BY <1>4 DEF Quotes!returns
    <2> HIDE DEF age
    <2>4. Asked([pc |-> "done", outage |-> FALSE, age |-> age])
      BY <2>2 DEF Asked
    <2>5. DOMAIN query' = Callers /\ \A d \in Callers : Asked(query[d])'
      BY <1>2, <2>3, <2>4, QuerySet
    <2> QED
      BY <1>2, <1>4, <2>5 DEF PriceInv, CacheYoung
  <1>5. CASE Quotes!proceed(c, q, Quotes!sources(kind))
    BY <1>2, <1>3, <1>5, ProceedKeeps DEF PriceInv, CacheYoung
  <1> QED
    BY <1>2, <1>4, <1>5

LEMMA AnsweredKeeps ==
  ASSUME PriceInv, NEW c \in Callers, NEW price \in Int, Quotes!answered(c, price)
  PROVE  PriceInv'
  <1> DEFINE q == query[c]
  <1>1. /\ q.pc = "asking" /\ tick' = tick
        /\ price \in (q.asked)..tick \/ price = Quotes!Insane
        /\ \/ Quotes!proceed(c, q, Tail(q.left))
           \/ /\ Quotes!returns(c, q, price, FALSE)
              /\ UNCHANGED priceCache \/ (price # Quotes!Insane /\ Quotes!setCached(Quotes!key(q.kind), price))
    BY DEF Quotes!answered
  <1>2. /\ tick \in Int /\ q.since \in Int /\ q.asked \in Int
        /\ q.since <= q.asked /\ q.asked <= tick /\ tick <= q.asked + MaxAsk
    BY <1>1 DEF PriceInv, CacheYoung, Asked
  <1> HIDE DEF q
  <1>3. CASE Quotes!proceed(c, q, Tail(q.left))
    BY <1>1, <1>2, <1>3, ProceedKeeps
  <1>4. CASE /\ Quotes!returns(c, q, price, FALSE)
             /\ UNCHANGED priceCache \/ (price # Quotes!Insane /\ Quotes!setCached(Quotes!key(q.kind), price))
    <2> DEFINE age == IF price < 0 THEN 0 ELSE q.since - price
    <2>1. age < Ttl + MaxAsk
      BY <1>1, <1>2, PriceAssumption DEF Quotes!Insane
    <2>2. query' = [query EXCEPT ![c] = [pc |-> "done", outage |-> FALSE, age |-> age]]
      BY <1>4 DEF Quotes!returns
    <2> HIDE DEF age
    <2>3. Asked([pc |-> "done", outage |-> FALSE, age |-> age])
      BY <2>1 DEF Asked
    <2>4. DOMAIN query' = Callers /\ \A d \in Callers : Asked(query[d])'
      BY <1>1, <2>2, <2>3, QuerySet
    <2>5. CASE UNCHANGED priceCache
      BY <1>1, <2>4, <2>5 DEF PriceInv, CacheYoung
    <2>6. CASE price # Quotes!Insane /\ Quotes!setCached(Quotes!key(q.kind), price)
      <3>1. Quotes!key(q.kind) \in Quotes!Keys
        BY DEF Quotes!key, Quotes!Keys
      <3>2. price >= tick - MaxAsk
        BY <1>1, <1>2, <2>6, PriceAssumption
      <3> QED
        BY <1>1, <2>4, <2>6, <3>1, <3>2, CacheSet DEF PriceInv
    <2> QED
      BY <1>4, <2>5, <2>6
  <1> QED
    BY <1>1, <1>3, <1>4

LEMMA PriceKeeps ==
  ASSUME PriceInv, [Quotes!Next]_Quotes!priceVars
  PROVE  PriceInv'
  <1>1. ASSUME NEW c \in Callers, NEW kind \in {"bnb", "symbol", "address"}, Quotes!getPrice(c, kind)
        PROVE  PriceInv'
    BY <1>1, GetPriceKeeps
  <1>2. ASSUME NEW c \in Callers, NEW price \in (0..tick) \cup {Quotes!Insane}, Quotes!answered(c, price)
        PROVE  PriceInv'
    <2>1. price \in Int
      BY DEF Quotes!Insane
    <2> QED
      BY <1>2, <2>1, AnsweredKeeps
  <1>3. ASSUME NEW c \in Callers, Quotes!failed(c) PROVE PriceInv'
    <2>1. /\ query[c].pc = "asking" /\ tick' = tick
          /\ Quotes!proceed(c, query[c], Tail(query[c].left))
      BY <1>3 DEF Quotes!failed
    <2>2. query[c].since \in Int /\ query[c].since <= tick
      BY <2>1 DEF PriceInv, CacheYoung, Asked
    <2> QED
      BY <2>1, <2>2, ProceedKeeps
  <1>4. CASE Quotes!ticks
    <2>1. /\ tick' = tick + 1 /\ UNCHANGED <<priceCache, query>>
          /\ \A c \in Callers : query[c].pc = "asking" => tick - query[c].asked < MaxAsk
      BY <1>4 DEF Quotes!ticks
    <2>2. CacheYoung'
      BY <2>1 DEF PriceInv, CacheYoung
    <2>3. ASSUME NEW c \in Callers PROVE Asked(query[c])'
      BY <2>1, PriceAssumption DEF Asked, PriceInv, CacheYoung
    <2> QED
      BY <2>1, <2>2, <2>3 DEF PriceInv
  <1>5. CASE UNCHANGED Quotes!priceVars
    BY <1>5 DEF Quotes!priceVars, PriceInv, CacheYoung, Asked
  <1> QED
    BY <1>1, <1>2, <1>3, <1>4, <1>5 DEF Quotes!Next

(* In the composition the price service makes steps of its own, or none. *)
LEMMA PriceSteps == [MCNext]_MCVars => [Quotes!Next]_Quotes!priceVars
  BY DEF MCNext, SoulNext, OutsideNext, HelperNext, MCVars, outsideVars, priceVars, Quotes!priceVars

(* With any number of callers, any time to live and any settings, a price that
   is older than a cached one may be is returned only by a call all of whose
   sources failed (PriceService.ts:85-185). *)
THEOREM PricesStayYoung == MCSpec => []OldMeansOutage
  <1>1. MCInit => PriceInv
    BY PriceAssumption DEF MCInit, Quotes!Init, PriceInv, CacheYoung, Asked, Quotes!Idle, Quotes!NoPrice
  <1>2. PriceInv /\ [MCNext]_MCVars => PriceInv'
    BY PriceKeeps, PriceSteps
  <1>3. PriceInv => OldMeansOutage
    BY DEF PriceInv, Asked, OldMeansOutage, Quotes!OldMeansOutage
  <1> QED
    BY <1>1, <1>2, <1>3, PTL DEF MCSpec

-----------------------------------------------------------------------------
(* The event bus.  Every event is delivered or waits, never both; what waits is
   in the order of emission, behind all that was delivered unless a throw has
   left it there; and on an idle bus a throw has left all that waits. *)
In(e, s) == \E i \in 1..Len(s) : s[i] = e

Ordered(s) ==
  /\ \A i, j \in 1..Len(s) : i < j => s[i] # s[j]
  /\ \A i, j \in 1..Len(s) : i < j /\ s[i] > s[j] => s[j] \in stranded
Increasing(s) == \A i, j \in 1..Len(s) : i < j => s[i] < s[j]

BusInv ==
  /\ emitted \in Nat /\ processed \in Seq(Nat) /\ pendingQueue \in Seq(Nat)
  /\ Ordered(processed) /\ Increasing(pendingQueue)
  /\ \A e \in Nat : In(e, processed) \/ In(e, pendingQueue) <=> e \in 1..emitted
  /\ \A e \in Nat : ~(In(e, processed) /\ In(e, pendingQueue))
  /\ \A p, e \in Nat : In(p, pendingQueue) /\ p \notin stranded /\ In(e, processed) => e < p
  /\ ~isDraining => \A p \in Nat : In(p, pendingQueue) => p \in stranded
  /\ toCall # <<>> => isDraining

LEMMA InAppend ==
  ASSUME NEW s \in Seq(Nat), NEW e \in Nat
  PROVE  /\ Append(s, e) \in Seq(Nat)
         /\ \A x : In(x, Append(s, e)) <=> In(x, s) \/ x = e
  <1>1. Append(s, e) \in Seq(Nat) /\ Len(Append(s, e)) = Len(s) + 1 /\ Len(s) \in Nat
    OBVIOUS
  <1>2. Append(s, e)[Len(s) + 1] = e /\ \A i \in 1..Len(s) : Append(s, e)[i] = s[i]
    OBVIOUS
  <1>3. ASSUME NEW x PROVE In(x, Append(s, e)) <=> In(x, s) \/ x = e
    BY <1>1, <1>2 DEF In
  <1> QED
    BY <1>1, <1>3

LEMMA InTail ==
  ASSUME NEW s \in Seq(Nat), s # <<>>, Increasing(s)
  PROVE  /\ Tail(s) \in Seq(Nat) /\ Head(s) \in Nat /\ Increasing(Tail(s))
         /\ \A x : In(x, s) <=> In(x, Tail(s)) \/ x = Head(s)
         /\ \A x : In(x, Tail(s)) => Head(s) < x
  <1>1. /\ Tail(s) \in Seq(Nat) /\ Len(Tail(s)) = Len(s) - 1 /\ Len(s) \in Nat /\ Len(s) > 0
        /\ \A i \in 1..(Len(s) - 1) : Tail(s)[i] = s[i + 1]
        /\ Head(s) = s[1] /\ Head(s) \in Nat
    OBVIOUS
  <1>2. Increasing(Tail(s))
    BY <1>1 DEF Increasing
  <1>3. ASSUME NEW x PROVE In(x, s) <=> In(x, Tail(s)) \/ x = Head(s)
    <2>1. ASSUME In(x, s) PROVE In(x, Tail(s)) \/ x = Head(s)
      <3>1. PICK i \in 1..Len(s) : s[i] = x
        BY <2>1 DEF In
      <3>2. CASE i = 1
        BY <1>1, <3>1, <3>2
      <3>3. CASE i # 1
        <4>1. i - 1 \in 1..Len(Tail(s)) /\ Tail(s)[i - 1] = x
          BY <1>1, <3>1, <3>3
        <4> QED
          BY <4>1 DEF In
      <3> QED
        BY <3>2, <3>3
    <2>2. ASSUME In(x, Tail(s)) PROVE In(x, s)
      <3>1. PICK i \in 1..Len(Tail(s)) : Tail(s)[i] = x
        BY <2>2 DEF In
      <3>2. i + 1 \in 1..Len(s) /\ s[i + 1] = x
        BY <1>1, <3>1
      <3> QED
        BY <3>2 DEF In
    <2>3. In(Head(s), s)
      BY <1>1 DEF In
    <2> QED
      BY <2>1, <2>2, <2>3
  <1>4. ASSUME NEW x, In(x, Tail(s)) PROVE Head(s) < x
    <2>1. PICK i \in 1..Len(Tail(s)) : Tail(s)[i] = x
      BY <1>4 DEF In
    <2> QED
      BY <1>1, <2>1 DEF Increasing
  <1> QED
    BY <1>1, <1>2, <1>3, <1>4

(* Delivering an event keeps the order, if it is new and late by a throw only. *)
LEMMA DeliveryKeeps ==
  ASSUME NEW s \in Seq(Nat), Ordered(s), NEW e \in Nat, ~In(e, s),
         e \in stranded \/ \A x \in Nat : In(x, s) => x < e
  PROVE  Ordered(Append(s, e))
  <1>1. /\ Len(Append(s, e)) = Len(s) + 1
        /\ Append(s, e)[Len(s) + 1] = e /\ \A i \in 1..Len(s) : Append(s, e)[i] = s[i] /\ s[i] \in Nat
    OBVIOUS
  <1>2. \A i \in 1..Len(s) : In(s[i], s)
    BY DEF In
  <1>3. ASSUME NEW i \in 1..Len(Append(s, e)), NEW j \in 1..Len(Append(s, e)), i < j
        PROVE  /\ Append(s, e)[i] # Append(s, e)[j]
               /\ Append(s, e)[i] > Append(s, e)[j] => Append(s, e)[j] \in stranded
    <2>1. CASE j = Len(s) + 1
      <3>1. i \in 1..Len(s) /\ Len(s) \in Nat
        BY <1>1, <1>3, <2>1
      <3>2. Append(s, e)[j] = e /\ Append(s, e)[i] = s[i] /\ s[i] \in Nat
        BY <1>1, <2>1, <3>1
      <3>3. s[i] \in Int /\ e \in Int
        BY <3>2
      <3>4. s[i] # e /\ (e \in stranded \/ s[i] < e)
        BY <1>2, <3>1, <3>2
      <3> QED
        BY <3>2, <3>3, <3>4
    <2>2. CASE j # Len(s) + 1
      BY <1>1, <1>3, <2>2 DEF Ordered
    <2> QED
      BY <2>1, <2>2
  <1> QED
    BY <1>3 DEF Ordered

LEMMA WaitingKeeps ==
  ASSUME NEW s \in Seq(Nat), Increasing(s), NEW e \in Nat, \A x \in Nat : In(x, s) => x < e
  PROVE  Increasing(Append(s, e))
  <1>1. /\ Len(Append(s, e)) = Len(s) + 1
        /\ Append(s, e)[Len(s) + 1] = e /\ \A i \in 1..Len(s) : Append(s, e)[i] = s[i] /\ s[i] \in Nat
    OBVIOUS
  <1>2. \A i \in 1..Len(s) : In(s[i], s)
    BY DEF In
  <1>3. ASSUME NEW i \in 1..Len(Append(s, e)), NEW j \in 1..Len(Append(s, e)), i < j
        PROVE  Append(s, e)[i] < Append(s, e)[j]
    <2>1. CASE j = Len(s) + 1
      BY <1>1, <1>2, <1>3, <2>1
    <2>2. CASE j # Len(s) + 1
      <3>1. i \in 1..Len(s) /\ j \in 1..Len(s)
        BY <1>1, <1>3, <2>2
      <3> QED
        BY <1>1, <1>3, <3>1 DEF Increasing
    <2> QED
      BY <2>1, <2>2
  <1> QED
    BY <1>3 DEF Increasing

LEMMA EmitKeeps == BusInv /\ Bus!emitEvent => BusInv'
  <1> SUFFICES ASSUME BusInv, Bus!emitEvent PROVE BusInv'
    OBVIOUS
  <1> DEFINE e == emitted + 1
  <1>1. /\ ~isDraining /\ isDraining' /\ emitted' = e /\ processed' = Append(processed, e)
        /\ UNCHANGED <<pendingQueue, stranded>>
    BY DEF Bus!emitEvent, Bus!processEvent
  <1>2. e \in Nat /\ ~In(e, processed) /\ ~In(e, pendingQueue) /\ \A x \in Nat : In(x, processed) => x < e
    BY DEF BusInv
  <1>3. Ordered(Append(processed, e))
    BY <1>2, DeliveryKeeps DEF BusInv
  <1>4. Append(processed, e) \in Seq(Nat) /\ \A x : In(x, Append(processed, e)) <=> In(x, processed) \/ x = e
    BY <1>2, InAppend DEF BusInv
  <1> HIDE DEF e
  <1>5. Ordered(processed)' /\ Increasing(pendingQueue)'
    BY <1>1, <1>3 DEF BusInv, Ordered, Increasing
  <1>6. \A x \in Nat : In(x, processed)' <=> In(x, processed) \/ x = e
    BY <1>1, <1>4 DEF In
  <1>7. \A x \in Nat : In(x, pendingQueue)' <=> In(x, pendingQueue)
    BY <1>1 DEF In
  <1>8. \A x \in Nat : x \in 1..emitted' <=> x \in 1..emitted \/ x = e
    BY <1>1 DEF e, BusInv
  <1> QED
    BY <1>1, <1>2, <1>4, <1>5, <1>6, <1>7, <1>8 DEF BusInv

LEMMA DrainKeeps == BusInv /\ Bus!drains => BusInv'
  <1> SUFFICES ASSUME BusInv, Bus!drains PROVE BusInv'
    OBVIOUS
  <1> DEFINE e == Head(pendingQueue)
  <1>1. /\ isDraining /\ isDraining' = isDraining /\ pendingQueue # <<>> /\ emitted' = emitted
        /\ processed' = Append(processed, e) /\ pendingQueue' = Tail(pendingQueue) /\ stranded' = stranded
    BY DEF Bus!drains, Bus!processEvent
  <1>2. /\ Tail(pendingQueue) \in Seq(Nat) /\ e \in Nat /\ Increasing(Tail(pendingQueue))
        /\ \A x : In(x, pendingQueue) <=> In(x, Tail(pendingQueue)) \/ x = e
        /\ \A x : In(x, Tail(pendingQueue)) => e < x
    BY <1>1, InTail DEF BusInv
  <1>3. ~In(e, processed) /\ (e \in stranded \/ \A x \in Nat : In(x, processed) => x < e)
    BY <1>2 DEF BusInv
  <1>4. Ordered(Append(processed, e))
    BY <1>2, <1>3, DeliveryKeeps DEF BusInv
  <1>5. Append(processed, e) \in Seq(Nat) /\ \A x : In(x, Append(processed, e)) <=> In(x, processed) \/ x = e
    BY <1>2, InAppend DEF BusInv
  <1> HIDE DEF e
  <1>6. Ordered(processed)' /\ Increasing(pendingQueue)'
    BY <1>1, <1>2, <1>4 DEF Ordered, Increasing
  <1>7. \A x \in Nat : In(x, processed)' <=> In(x, processed) \/ x = e
    BY <1>1, <1>5 DEF In
  <1>8. \A x \in Nat : In(x, pendingQueue)' <=> In(x, Tail(pendingQueue))
    BY <1>1 DEF In
  <1>9. /\ emitted' \in Nat /\ processed' \in Seq(Nat) /\ pendingQueue' \in Seq(Nat)
        /\ \A x \in Nat : In(x, processed)' \/ In(x, pendingQueue)' <=> x \in 1..emitted'
    BY <1>1, <1>2, <1>5, <1>7, <1>8 DEF BusInv
  <1>10. \A x \in Nat : ~(In(x, processed)' /\ In(x, pendingQueue)')
    BY <1>2, <1>7, <1>8 DEF BusInv
  <1>11. \A p, x \in Nat : In(p, pendingQueue)' /\ p \notin stranded' /\ In(x, processed)' => x < p
    BY <1>1, <1>2, <1>7, <1>8 DEF BusInv
  <1> QED
    BY <1>1, <1>6, <1>9, <1>10, <1>11 DEF BusInv

LEMMA ReturnKeeps ==
  ASSUME BusInv, NEW emits \in BOOLEAN, Bus!returns(emits)
  PROVE  BusInv'
  <1>1. /\ toCall # <<>> /\ isDraining' = isDraining /\ UNCHANGED <<processed, stranded>>
    BY DEF Bus!returns
  <1>2. isDraining
    BY <1>1 DEF BusInv
  <1>3. CASE ~emits
    <2>1. UNCHANGED <<emitted, pendingQueue>>
      BY <1>3 DEF Bus!returns
    <2> QED
      BY <1>1, <1>2, <2>1 DEF BusInv, Ordered, Increasing, In
  <1>4. CASE emits
    <2> DEFINE e == emitted + 1
    <2>1. emitted' = e /\ pendingQueue' = Append(pendingQueue, e)
      BY <1>4 DEF Bus!returns
    <2>2. e \in Nat /\ ~In(e, processed) /\ \A x \in Nat : In(x, processed) \/ In(x, pendingQueue) => x < e
      BY DEF BusInv
    <2>3. Increasing(Append(pendingQueue, e))
      BY <2>2, WaitingKeeps DEF BusInv
    <2>4. /\ Append(pendingQueue, e) \in Seq(Nat)
          /\ \A x : In(x, Append(pendingQueue, e)) <=> In(x, pendingQueue) \/ x = e
      BY <2>2, InAppend DEF BusInv
    <2> HIDE DEF e
    <2>5. Ordered(processed)' /\ Increasing(pendingQueue)'
      BY <1>1, <2>1, <2>3 DEF BusInv, Ordered, Increasing
    <2>6. \A x \in Nat : In(x, pendingQueue)' <=> In(x, pendingQueue) \/ x = e
      BY <2>1, <2>4 DEF In
    <2>7. \A x \in Nat : In(x, processed)' <=> In(x, processed)
      BY <1>1 DEF In
    <2>8. \A x \in Nat : x \in 1..emitted' <=> x \in 1..emitted \/ x = e
      BY <2>1 DEF e, BusInv
    <2> QED
      BY <1>1, <1>2, <2>1, <2>2, <2>4, <2>5, <2>6, <2>7, <2>8 DEF BusInv
  <1> QED
    BY <1>3, <1>4

LEMMA BusKeeps ==
  ASSUME BusInv, [Bus!Next]_Bus!busVars
  PROVE  BusInv'
  <1>1. CASE Bus!throws
    <2>1. /\ UNCHANGED <<processed, pendingQueue, emitted>>
          /\ stranded' = stranded \cup Bus!ToSet(pendingQueue) /\ toCall' = <<>>
      BY <1>1 DEF Bus!throws
    <2>2. \A p \in Nat : In(p, pendingQueue) => p \in stranded'
      BY <2>1 DEF In, Bus!ToSet, BusInv
    <2>3. Ordered(processed)' /\ Increasing(pendingQueue)'
      BY <2>1 DEF BusInv, Ordered, Increasing
    <2> QED
      BY <2>1, <2>2, <2>3 DEF BusInv, In
  <1>2. CASE Bus!ends
    BY <1>2 DEF Bus!ends, BusInv, Ordered, Increasing, In
  <1>3. ASSUME NEW l \in Listeners, Bus!unsubscribes(l) PROVE BusInv'
    BY <1>3 DEF Bus!unsubscribes, BusInv, Ordered, Increasing, In
  <1>4. CASE UNCHANGED Bus!busVars
    BY <1>4 DEF Bus!busVars, BusInv, Ordered, Increasing, In
  <1> QED
    BY <1>1, <1>2, <1>3, <1>4, EmitKeeps, DrainKeeps, ReturnKeeps DEF Bus!Next

(* In the composition the bus makes steps of its own, or none. *)
LEMMA BusSteps == [MCNext]_MCVars => [Bus!Next]_Bus!busVars
  BY DEF MCNext, SoulNext, OutsideNext, HelperNext, MCVars, soulVars, busVars, Bus!busVars

(* With any number of listeners and events, and whatever listeners emit,
   unsubscribe or throw, an event is delivered once, late only after a throw has
   left it waiting, and none is lost (events/index.ts). *)
THEOREM BusDelivers == MCSpec => []LateOnlyByThrow
  <1>1. MCInit => BusInv
    <2> SUFFICES ASSUME MCInit PROVE BusInv
      OBVIOUS
    <2>1. processed = <<>> /\ pendingQueue = <<>> /\ emitted = 0 /\ isDraining = FALSE /\ toCall = <<>>
      BY DEF MCInit, Bus!Init
    <2>2. \A x : ~In(x, <<>>)
      BY DEF In
    <2> QED
      BY <2>1, <2>2 DEF BusInv, Ordered, Increasing
  <1>2. BusInv /\ [MCNext]_MCVars => BusInv'
    BY BusKeeps, BusSteps
  <1>3. BusInv => LateOnlyByThrow
    <2> SUFFICES ASSUME BusInv PROVE Bus!LateOnlyByThrow
      BY DEF LateOnlyByThrow
    <2>1. DOMAIN processed = 1..Len(processed) /\ DOMAIN pendingQueue = 1..Len(pendingQueue)
      BY DEF BusInv
    <2>2. \A x : (x \in Bus!ToSet(processed) <=> In(x, processed)) /\ (x \in Bus!ToSet(pendingQueue) <=> In(x, pendingQueue))
      BY <2>1 DEF Bus!ToSet, In
    <2>3. \A x : In(x, processed) \/ In(x, pendingQueue) => x \in Nat
      BY DEF BusInv, In
    <2>4. ~isDraining => 1..emitted = Bus!ToSet(processed) \cup (Bus!ToSet(pendingQueue) \cap stranded)
      BY <2>2, <2>3 DEF BusInv
    <2> QED
      BY <2>1, <2>4 DEF Bus!LateOnlyByThrow, BusInv, Ordered
  <1> QED
    BY <1>1, <1>2, <1>3, PTL DEF MCSpec

-----------------------------------------------------------------------------
(* The sensors.  What Binance answered is a price the market showed while the
   aggregator was asked, and nothing is pending once it has answered. *)
Said == Prices \union {Sensors!None, Sensors!Pending}
Numbers == Said \union {Sensors!NotANumber}
Readings ==
  [Pyth : Said, Binance : Said \union {Sensors!NotANumber}, DEX : Said, warmUp : Prices \union {Sensors!None}, seen : SUBSET Prices, answer : Int,
   depth : {"THIN", "DEEP"}]

SensorsTyping == market \in Prices /\ pythPrice \in Prices \union {Sensors!None} /\ readings \in Readings

SensorsInv ==
  /\ SensorsTyping
  /\ readings.Binance > 0 => readings.Binance \in readings.seen
  /\ readings.answer = Sensors!Asking => market \in readings.seen
  /\ readings.answer # Sensors!Asking => \A s \in Sensors!Sources : readings[s] # Sensors!Pending
  /\ Sensors!MarketAgrees
  /\ Sensors!FeedAlive

LEMMA SameCardinality == \A T : Sensors!Cardinality(T) = Cardinality(T)
  BY DEF Sensors!Cardinality, Cardinality

LEMMA Singleton ==
  ASSUME NEW T, NEW x, T \subseteq {x} PROVE Cardinality(T) <= 1
  <1>1. IsFiniteSet({x}) /\ Cardinality({x}) = 1
    BY FS_Singleton
  <1>2. Cardinality(T) <= Cardinality({x})
    BY <1>1, FS_Subset
  <1> QED
    BY <1>1, <1>2

(* Of up to three numbers one has at most one on either side. *)
LEMMA MiddleExists ==
  ASSUME NEW r, NEW S, S \subseteq Sensors!Sources, S # {}, \A s \in S : r[s] \in Int
  PROVE  Sensors!middle(r, S) \in S
  <1> DEFINE below(s) == {t \in S : r[t] < r[s]}
             over(s) == {t \in S : r[t] > r[s]}
  <1>1. ASSUME NEW T, NEW x, T \subseteq {x} PROVE Cardinality(T) <= 1
    BY <1>1, Singleton
  <1>2. \E s \in S : \E x, y : below(s) \subseteq {x} /\ over(s) \subseteq {y}
    <2>1. CASE \E s \in S, t \in S : S \subseteq {s, t} /\ r[s] <= r[t]
      <3>1. PICK s \in S, t \in S : S \subseteq {s, t} /\ r[s] <= r[t]
        BY <2>1
      <3>2. below(s) \subseteq {t} /\ over(s) \subseteq {t}
        BY <3>1
      <3> QED
        BY <3>2
    <2>2. CASE \E s \in S, t \in S, u \in S : S \subseteq {s, t, u} /\ r[s] <= r[t] /\ r[t] <= r[u]
      <3>1. PICK s \in S, t \in S, u \in S : S \subseteq {s, t, u} /\ r[s] <= r[t] /\ r[t] <= r[u]
        BY <2>2
      <3>2. below(t) \subseteq {s} /\ over(t) \subseteq {u}
        BY <3>1
      <3> QED
        BY <3>2
    <2>3. CASE \E s \in S, t \in S : S \subseteq {s, t}
      <3>1. PICK s \in S, t \in S : S \subseteq {s, t}
        BY <2>3
      <3>2. r[s] <= r[t] \/ r[t] <= r[s]
        OBVIOUS
      <3> QED
        BY <2>1, <3>1, <3>2
    <2>4. CASE S = Sensors!Sources
      <3>1. /\ "Pyth" \in S /\ "Binance" \in S /\ "DEX" \in S /\ S \subseteq {"Pyth", "Binance", "DEX"}
        BY <2>4 DEF Sensors!Sources
      <3>2. ASSUME NEW s \in S, NEW t \in S, NEW u \in S, S \subseteq {s, t, u}, r[s] <= r[t]
            PROVE  \E x \in S, y \in S, z \in S : S \subseteq {x, y, z} /\ r[x] <= r[y] /\ r[y] <= r[z]
        <4>1. S \subseteq {u, s, t} /\ S \subseteq {s, u, t} /\ S \subseteq {s, t, u}
          BY <3>2
        <4>2. r[u] <= r[s] \/ (r[s] <= r[u] /\ r[u] <= r[t]) \/ r[t] <= r[u]
          OBVIOUS
        <4> QED
          BY <3>2, <4>1, <4>2
      <3>3. r["Pyth"] <= r["Binance"] \/ r["Binance"] <= r["Pyth"]
        BY <3>1
      <3> QED
        BY <2>2, <3>1, <3>2, <3>3
    <2>5. S = Sensors!Sources \/ \E s \in S, t \in S : S \subseteq {s, t}
      <3>1. ASSUME NEW x, NEW y, S \subseteq {x, y}
            PROVE  \E s \in S, t \in S : S \subseteq {s, t}
        <4>1. CASE x \in S /\ y \in S
          BY <3>1, <4>1
        <4>2. CASE x \notin S
          <5>1. y \in S /\ S \subseteq {y, y}
            BY <3>1, <4>2
          <5> QED
            BY <5>1
        <4>3. CASE y \notin S
          <5>1. x \in S /\ S \subseteq {x, x}
            BY <3>1, <4>3
          <5> QED
            BY <5>1
        <4> QED
          BY <4>1, <4>2, <4>3
      <3>2. \/ S = Sensors!Sources \/ S \subseteq {"Binance", "DEX"} \/ S \subseteq {"Pyth", "DEX"}
            \/ S \subseteq {"Pyth", "Binance"}
        BY DEF Sensors!Sources
      <3> QED
        BY <3>1, <3>2
    <2> QED
      BY <2>3, <2>4, <2>5
  <1>3. \E s \in S : Cardinality(below(s)) <= 1 /\ Cardinality(over(s)) <= 1
    BY <1>1, <1>2
  <1> DEFINE between(s) == /\ Sensors!Cardinality({t \in S : r[t] < r[s]}) <= 1
                        /\ Sensors!Cardinality({t \in S : r[t] > r[s]}) <= 1
  <1>4. Sensors!middle(r, S) = CHOOSE s \in S : between(s)
    BY DEF Sensors!middle
  <1>5. \E s \in S : between(s)
    BY <1>3, SameCardinality
  <1> HIDE DEF between
  <1> QED
    BY <1>4, <1>5

LEMMA MedianIsInt ==
  ASSUME NEW r, NEW S, S \subseteq Sensors!Sources, S # {}, \A s \in S : r[s] \in Int
  PROVE  Sensors!median(r, S) \in Int
  <1>1. Sensors!total(r, S) \in Int
    BY DEF Sensors!total
  <1>2. r[Sensors!middle(r, S)] \in Int
    BY MiddleExists
  <1> QED
    BY <1>1, <1>2 DEF Sensors!median

(* An answer in numbers is within a fifth of what Binance said. *)
LEMMA ConsensusAgrees ==
  ASSUME NEW r, NEW S, S \subseteq Sensors!Sources, "Binance" \in S, r.Binance = r["Binance"],
         \A s \in S : r[s] \in Int /\ (r[s] < 0 => s = "Binance"), r["Binance"] > 0,
         NEW answer, answer = Sensors!calculateConsensus(r, S), answer > 0
  PROVE  100 * (2 * r["Binance"] - answer) <= 20 * answer /\ 100 * (answer - 2 * r["Binance"]) <= 20 * answer
  <1> DEFINE m == Sensors!median(r, S)
             B == r["Binance"]
  <1>1. m \in Int /\ B \in Int
    BY MedianIsInt
  <1>2. r.Binance # Sensors!NotANumber /\ answer # Sensors!Refused
    BY <1>1 DEF Sensors!NotANumber, Sensors!Refused
  <1>3. /\ ~Sensors!far(r, S) /\ ~(Cardinality(S) = 2 /\ Sensors!apart(r, S, 10))
        /\ \/ answer = m
           \/ Cardinality(S) = 2 /\ answer = 2 * r[Sensors!heavier(S)]
    <2>1. answer = IF S = {} \/ Sensors!far(r, S) \/ (Cardinality(S) = 2 /\ Sensors!apart(r, S, 10)) THEN Sensors!Refused
                   ELSE IF Cardinality(S) = 2 /\ Sensors!apart(r, S, 5) THEN 2 * r[Sensors!heavier(S)] ELSE m
      BY <1>2, SameCardinality DEF Sensors!calculateConsensus
    <2> HIDE DEF m
    <2> QED
      BY <1>2, <2>1
  <1>4. CASE answer = m
    <2>1. ~(100 * (2 * B - m) > 20 * m) /\ ~(100 * (m - 2 * B) > 20 * m)
      BY <1>3 DEF Sensors!far
    <2> HIDE DEF m, B
    <2>2. 100 * (2 * B - m) <= 20 * m /\ 100 * (m - 2 * B) <= 20 * m
      BY <1>1, <2>1
    <2> QED
      BY <1>4, <2>2 DEF B
  <1>5. CASE Cardinality(S) = 2 /\ answer = 2 * r[Sensors!heavier(S)]
    <2>1. CASE "Pyth" \in S
      <3> DEFINE P == r["Pyth"]
      <3>1. answer = 2 * P /\ P \in Int /\ P >= 0
        BY <1>5, <2>1 DEF Sensors!heavier
      <3>2. ~(100 * (P - B) > 10 * B) /\ ~(100 * (B - P) > 10 * P)
        BY <1>3, <1>5, <2>1 DEF Sensors!apart, Sensors!above
      <3> HIDE DEF P, B
      <3> QED
        BY <1>1, <3>1, <3>2 DEF B
    <2>2. CASE "Pyth" \notin S
      <3>1. answer = 2 * B
        BY <1>5, <2>2 DEF Sensors!heavier
      <3> HIDE DEF B
      <3> QED
        BY <1>1, <3>1 DEF B
    <2> QED
      BY <2>1, <2>2
  <1> QED
    BY <1>3, <1>4, <1>5

(* Whatever it is, an answer is not the mark of one that is still asked for. *)
LEMMA ConsensusAnswers ==
  ASSUME NEW r, NEW S, S \subseteq Sensors!Sources, r.Binance = r["Binance"],
         \A s \in S : r[s] \in Nat \/ (s = "Binance" /\ r[s] = Sensors!NotANumber)
  PROVE  Sensors!calculateConsensus(r, S) \in Int /\ Sensors!calculateConsensus(r, S) # Sensors!Asking
  <1> DEFINE m == Sensors!median(r, S)
             answer == Sensors!calculateConsensus(r, S)
  <1>1. CASE answer \in {Sensors!NotANumber, Sensors!Refused}
    BY <1>1 DEF Sensors!NotANumber, Sensors!Refused, Sensors!Asking
  <1>2. CASE ~(answer \in {Sensors!NotANumber, Sensors!Refused})
    <2>1. /\ S # {} /\ r["Binance"] # Sensors!NotANumber /\ ~Sensors!far(r, S)
          /\ answer = m \/ (Cardinality(S) = 2 /\ answer = 2 * r[Sensors!heavier(S)])
      BY <1>2, SameCardinality DEF Sensors!calculateConsensus
    <2>2. \A s \in S : r[s] \in Nat
      BY <2>1
    <2>3. CASE answer = m
      <3>1. PICK s \in S : TRUE
        BY <2>1
      <3>2. m \in Int
        BY <2>1, <2>2, MedianIsInt
      <3>3. ~(100 * (2 * r[s] - m) > 20 * m)
        BY <2>1, <3>1 DEF Sensors!far
      <3> HIDE DEF m, answer
      <3>4. m >= 0
        BY <2>2, <3>2, <3>3
      <3> QED
        BY <2>3, <3>2, <3>4 DEF answer, Sensors!Asking
    <2>4. CASE Cardinality(S) = 2 /\ answer = 2 * r[Sensors!heavier(S)]
      <3>1. Sensors!heavier(S) \in S
        <4>1. CASE "Pyth" \notin S /\ "Binance" \notin S
          <5>1. S \subseteq {"DEX"}
            BY <4>1 DEF Sensors!Sources
          <5>2. Cardinality(S) <= 1
            BY <5>1, Singleton
          <5> QED
            BY <2>4, <5>2
        <4> QED
          BY <4>1 DEF Sensors!heavier
      <3>2. r[Sensors!heavier(S)] \in Nat
        BY <2>2, <3>1
      <3> HIDE DEF answer
      <3> QED
        BY <2>4, <3>2 DEF answer, Sensors!Asking
    <2> QED
      BY <2>1, <2>3, <2>4
  <1> QED
    BY <1>1, <1>2

LEMMA SensorsKeep ==
  ASSUME SensorsInv, [Sensors!Next]_Sensors!sensorVars
  PROVE  SensorsInv'
  <1> USE DEF SensorsTyping
  <1>0. /\ Prices \subseteq Nat /\ Numbers \subseteq Int /\ Sensors!Asking \in Int /\ Sensors!Asking < 0
    BY PricesAssumption DEF Numbers, Said, Sensors!None, Sensors!Pending, Sensors!NotANumber, Sensors!Asking
  <1>1. CASE Sensors!feedStep
    BY <1>1 DEF SensorsInv, Sensors!feedStep, Sensors!opens, Sensors!closes, Sensors!reconnects, Sensors!notMade,
             Sensors!dispose, Sensors!MarketAgrees, Sensors!FeedAlive
  <1>2. CASE Sensors!handleWsMessage
    BY <1>2 DEF SensorsInv, Sensors!handleWsMessage, Sensors!MarketAgrees, Sensors!FeedAlive, Sensors!feedVars
  <1>3. ASSUME NEW p \in Prices, Sensors!marketMoves(p) PROVE SensorsInv'
    <2>1. /\ market' = p /\ pythPrice' = pythPrice /\ UNCHANGED <<feed, feedTimer, disposed>>
          /\ readings' = [readings EXCEPT !.seen = IF readings.answer = Sensors!Asking THEN @ \cup {p} ELSE @]
      BY <1>3 DEF Sensors!marketMoves, Sensors!feedVars
    <2>2. /\ readings' \in Readings /\ readings.seen \subseteq readings'.seen
          /\ readings'.answer = readings.answer /\ readings'.Binance = readings.Binance
          /\ readings.answer = Sensors!Asking => p \in readings'.seen
          /\ \A s \in Sensors!Sources : readings'[s] = readings[s]
      BY <2>1 DEF SensorsInv, Readings, Sensors!Sources
    <2> QED
      BY <2>1, <2>2 DEF SensorsInv, Sensors!MarketAgrees, Sensors!FeedAlive
  <1>4. CASE Sensors!getPrice
    <2>1. /\ UNCHANGED <<market, pythPrice, feed, feedTimer, disposed>>
          /\ readings' = [Pyth |-> IF pythPrice = Sensors!None THEN Sensors!Pending ELSE pythPrice,
                  Binance |-> Sensors!Pending, DEX |-> Sensors!Pending, warmUp |-> Sensors!None, seen |-> {market},
                  answer |-> Sensors!Asking, depth |-> "THIN"]
      BY <1>4 DEF Sensors!getPrice, Sensors!feedVars
    <2>2. /\ readings' \in Readings /\ readings'.Binance < 0 /\ readings'.answer = Sensors!Asking
          /\ readings'.seen = {market}
      BY <1>0, <2>1 DEF SensorsInv, Readings, Numbers, Said, Sensors!Pending
    <2>3. ~(readings'.Binance > 0) /\ ~(readings'.answer > 0)
      <3>1. readings'.Binance = Sensors!Pending /\ ~(Sensors!Pending > 0) /\ ~(Sensors!Asking > 0)
        BY <2>1 DEF Sensors!Pending, Sensors!Asking
      <3> QED
        BY <2>2, <3>1
    <2> QED
      BY <2>1, <2>2, <2>3 DEF SensorsInv, Sensors!MarketAgrees, Sensors!FeedAlive
  <1>5. CASE Sensors!fetchHttpOneOff \/ Sensors!warmed
    <2>1. /\ UNCHANGED <<market, feed, feedTimer, disposed>> /\ readings.Pyth = Sensors!Pending
      BY <1>5 DEF Sensors!fetchHttpOneOff, Sensors!warmed, Sensors!feedVars
    <2>2. /\ readings' \in Readings /\ pythPrice' \in Prices \union {Sensors!None}
          /\ readings'.answer = readings.answer /\ readings'.Binance = readings.Binance
          /\ readings'.seen = readings.seen
      <3>1. CASE Sensors!fetchHttpOneOff
        BY <3>1 DEF SensorsInv, Readings, Numbers, Said, Sensors!fetchHttpOneOff
      <3>2. CASE Sensors!warmed
        BY <3>2 DEF SensorsInv, Readings, Numbers, Said, Sensors!warmed
      <3> QED
        BY <1>5, <3>1, <3>2
    <2>3. readings.answer = Sensors!Asking
      BY <2>1 DEF SensorsInv, Sensors!Sources
    <2> QED
      BY <1>0, <2>1, <2>2, <2>3 DEF SensorsInv, Sensors!MarketAgrees, Sensors!FeedAlive
  <1>6. ASSUME NEW s \in Sensors!Sources, NEW p, Sensors!sourceAnswers(s, p) PROVE SensorsInv'
    <2>1. /\ UNCHANGED <<market, pythPrice, feed, feedTimer, disposed>> /\ readings[s] = Sensors!Pending
          /\ readings' = [readings EXCEPT ![s] = p]
          /\ p \in IF s = "Pyth" THEN {Sensors!None} ELSE IF s = "Binance"
                   THEN {Sensors!None, Sensors!NotANumber, market} ELSE Prices \cup {Sensors!None}
      BY <1>6 DEF Sensors!sourceAnswers, Sensors!feedVars
    <2>2. readings.answer = Sensors!Asking /\ market \in readings.seen
      BY <2>1 DEF SensorsInv
    <2>3. p \in Numbers /\ (s = "Binance" /\ p > 0 => p = market)
      BY <2>1 DEF SensorsInv, Numbers, Said, Sensors!None, Sensors!NotANumber
    <2>4. /\ readings' \in Readings /\ readings'.answer = readings.answer /\ readings'.seen = readings.seen
          /\ IF s = "Binance" THEN readings'.Binance = p ELSE readings'.Binance = readings.Binance
      <3>1. readings \in Readings
        BY DEF SensorsInv
      <3>2. CASE s = "Pyth"
        BY <2>1, <2>3, <3>1, <3>2 DEF Readings, Said
      <3>3. CASE s = "Binance"
        BY <2>1, <2>3, <3>1, <3>3 DEF Readings, Numbers, Said
      <3>4. CASE s = "DEX"
        BY <2>1, <2>3, <3>1, <3>4 DEF Readings, Said
      <3> QED
        BY <3>2, <3>3, <3>4 DEF Sensors!Sources
    <2> QED
      BY <1>0, <2>1, <2>2, <2>3, <2>4 DEF SensorsInv, Sensors!MarketAgrees, Sensors!FeedAlive
  <1>7. ASSUME NEW depth \in {"THIN", "DEEP"}, Sensors!senses(depth) PROVE SensorsInv'
    <2> DEFINE S == {s \in Sensors!Sources : readings[s] # Sensors!None}
               answer == Sensors!calculateConsensus(readings, S)
    <2>1. /\ UNCHANGED <<market, pythPrice, feed, feedTimer, disposed>>
          /\ \A s \in Sensors!Sources : readings[s] # Sensors!Pending
          /\ readings' = [readings EXCEPT !.answer = answer, !.depth = depth, !.Pyth = Sensors!None,
                                          !.DEX = Sensors!None, !.warmUp = Sensors!None]
      BY <1>7 DEF Sensors!senses, Sensors!feedVars
    <2>2. S \subseteq Sensors!Sources
      OBVIOUS
    <2>3. answer \in Int /\ answer # Sensors!Asking
      <3>1. \A s \in S : readings[s] \in Nat \/ (s = "Binance" /\ readings[s] = Sensors!NotANumber)
        BY <1>0, <2>1 DEF SensorsInv, Readings, Said, Sensors!Sources
      <3>2. readings.Binance = readings["Binance"]
        OBVIOUS
      <3> HIDE DEF S
      <3> QED
        BY <2>2, <3>1, <3>2, ConsensusAnswers
    <2>4. /\ readings' \in Readings /\ readings'.answer = answer /\ readings'.seen = readings.seen
          /\ readings'.Binance = readings.Binance /\ readings'["Binance"] = readings["Binance"]
          /\ readings'["Pyth"] = Sensors!None /\ readings'["DEX"] = Sensors!None
      <3> HIDE DEF answer
      <3> QED
        BY <2>1, <2>3 DEF SensorsInv, Readings, Numbers, Said
    <2>5. \A s \in Sensors!Sources : readings'[s] # Sensors!Pending
      <3>1. Sensors!None # Sensors!Pending /\ "Binance" \in Sensors!Sources
        BY DEF Sensors!Sources, Sensors!None, Sensors!Pending
      <3>2. readings["Binance"] # Sensors!Pending
        BY <2>1, <3>1
      <3> HIDE DEF answer, S
      <3> QED
        BY <2>4, <3>1, <3>2 DEF Sensors!Sources
    <2>6. ASSUME answer > 0, readings.Binance > 0
          PROVE  \E p \in readings.seen : 100 * (2 * p - answer) <= 20 * answer /\ 100 * (answer - 2 * p) <= 20 * answer
      <3>1. readings.Binance = readings["Binance"] /\ readings["Binance"] \in readings.seen
        BY <2>6 DEF SensorsInv
      <3>2. "Binance" \in S
        BY <2>6 DEF Sensors!Sources, Sensors!None
      <3>3. \A s \in S : readings[s] \in Int /\ (readings[s] < 0 => s = "Binance")
        <4>1. \A s \in S : readings[s] \in Prices \/ (s = "Binance" /\ readings[s] = Sensors!NotANumber)
          BY <2>1 DEF SensorsInv, Readings, Said, Sensors!Sources
        <4>2. Sensors!NotANumber \in Int /\ \A p \in Prices : p \in Int /\ ~(p < 0)
          BY <1>0 DEF Sensors!NotANumber
        <4> QED
          BY <4>1, <4>2
      <3> HIDE DEF S
      <3>4. /\ 100 * (2 * readings["Binance"] - answer) <= 20 * answer
            /\ 100 * (answer - 2 * readings["Binance"]) <= 20 * answer
        BY <2>2, <2>6, <3>1, <3>2, <3>3, ConsensusAgrees
      <3> QED
        BY <3>1, <3>4
    <2> HIDE DEF answer, S
    <2> QED
      BY <2>1, <2>3, <2>4, <2>5, <2>6 DEF SensorsInv, Sensors!MarketAgrees, Sensors!FeedAlive
  <1>8. CASE UNCHANGED Sensors!sensorVars
    BY <1>8 DEF SensorsInv, Sensors!sensorVars, Sensors!MarketAgrees, Sensors!FeedAlive
  <1> QED
    BY <1>1, <1>2, <1>3, <1>4, <1>5, <1>6, <1>7, <1>8 DEF Sensors!Next

(* A price answered with Binance in it is within a fifth of what the market
   showed while it was asked, and the feed never dies unless disposed of. *)
THEOREM SensorsSense == MCSpec => []SensorsSound
  <1>1. MCInit => SensorsInv
    <2> SUFFICES ASSUME MCInit PROVE SensorsInv
      OBVIOUS
    <2>1. /\ market \in Prices /\ pythPrice = Sensors!None /\ feed = "connecting"
          /\ readings = [Pyth |-> Sensors!None, Binance |-> Sensors!None, DEX |-> Sensors!None, warmUp |-> Sensors!None,
                 seen |-> {}, answer |-> Sensors!Refused, depth |-> "THIN"]
      BY DEF MCInit, Sensors!Init
    <2>2. readings \in Readings
      BY <2>1 DEF Readings, Numbers, Said, Sensors!Refused
    <2> QED
      BY <2>1, <2>2 DEF SensorsInv, SensorsTyping, Sensors!MarketAgrees, Sensors!FeedAlive, Sensors!Sources,
           Sensors!None, Sensors!Refused, Sensors!Asking, Sensors!Pending
  <1>2. SensorsInv /\ [MCNext]_MCVars => SensorsInv'
    <2>1. [MCNext]_MCVars => [Sensors!Next]_Sensors!sensorVars
      BY DEF MCNext, SoulNext, MCVars, soulVars, sensorVars, Sensors!sensorVars
    <2> QED
      BY <2>1, SensorsKeep
  <1>3. SensorsInv => SensorsSound
    BY DEF SensorsInv, SensorsSound
  <1> QED
    BY <1>1, <1>2, <1>3, PTL DEF MCSpec

-----------------------------------------------------------------------------
(* The replicated storage.  A save that still runs when a later one was called
   ran beside it; hence what a copy takes is as new as what it acknowledged. *)
CopyOf(where) == IF where = "remote" THEN remoteCopy ELSE localCopy

Holds(copy, n) == copy >= n \/ copy \in concurrent[n]

StorageTyping ==
  /\ remoteCopy \in Int /\ localCopy \in Int /\ calls \in Nat
  /\ DOMAIN home = Greenfield!Saves /\ DOMAIN concurrent = Greenfield!Saves
  /\ DOMAIN save = Savers

Runs(r) ==
  /\ r.at # "idle" =>
       /\ r.n \in Greenfield!Saves /\ r.n <= calls
       /\ \A n \in Greenfield!Saves : r.n < n /\ n <= calls => r.n \in concurrent[n]
       /\ r.at = "answer" => Holds(remoteCopy, r.n) \/ remoteCopy \in abandoned
  /\ r.n # 0 => r.at # "idle"

Acknowledged(n) ==
  home[n] # "none" =>
    /\ n <= calls
    /\ Holds(CopyOf(home[n]), n) \/ (home[n] = "remote" /\ remoteCopy \in abandoned)

StorageInv ==
  /\ StorageTyping
  /\ \A s \in Savers : Runs(save[s])
  /\ \A n \in Greenfield!Saves : Acknowledged(n)

(* A step of one save that leaves the copies and the calls alone. *)
LEMMA SaveSet ==
  ASSUME StorageInv, NEW s \in Savers, NEW r, save' = [save EXCEPT ![s] = r], Runs(r),
         UNCHANGED <<remoteCopy, localCopy, calls, home, concurrent>>, abandoned \subseteq abandoned'
  PROVE  StorageInv'
  <1>1. ASSUME NEW q \in Savers PROVE Runs(save[q])'
    <2>1. save'[q] = r \/ save'[q] = save[q]
      BY DEF StorageInv, StorageTyping
    <2>2. Runs(save[q])
      BY DEF StorageInv
    <2> QED
      BY <2>1, <2>2 DEF Runs, Holds
  <1>2. ASSUME NEW n \in Greenfield!Saves PROVE Acknowledged(n)'
    BY DEF StorageInv, Acknowledged, Holds, CopyOf
  <1> QED
    BY <1>1, <1>2 DEF StorageInv, StorageTyping

LEMMA StartsSave ==
  ASSUME StorageInv, NEW s \in Savers, Greenfield!starts(s)
  PROVE  StorageInv'
  <1> DEFINE r == [at |-> IF useLocalFallback THEN "dir" ELSE "put", n |-> calls + 1]
  <1>1. /\ calls < MaxSaves /\ calls' = calls + 1 /\ save' = [save EXCEPT ![s] = r]
        /\ UNCHANGED <<remoteCopy, localCopy, home, abandoned>>
        /\ concurrent' = [n \in Greenfield!Saves |->
             IF n = calls + 1 THEN {n} \union Greenfield!Running
             ELSE IF n \in Greenfield!Running THEN concurrent[n] \union {calls + 1} ELSE concurrent[n]]
    BY DEF Greenfield!starts
  <1>2. calls + 1 \in Greenfield!Saves /\ calls \in Nat
    BY <1>1, SavesAssumption DEF StorageInv, StorageTyping, Greenfield!Saves
  <1>3. \A n \in Greenfield!Saves : n # calls + 1 => concurrent[n] \subseteq concurrent'[n]
    BY <1>1
  <1>4. Greenfield!Running \subseteq concurrent'[calls + 1] /\ calls + 1 \in concurrent'[calls + 1]
    BY <1>1, <1>2
  <1>5. ASSUME NEW q \in Savers PROVE Runs(save[q])'
    <2>1. CASE q = s
      <3>1. save'[q] = r
        BY <1>1, <2>1 DEF StorageInv, StorageTyping
      <3> QED
        BY <1>1, <1>2, <3>1 DEF Runs, Greenfield!Saves
    <2>2. CASE q # s
      <3>1. save'[q] = save[q] /\ Runs(save[q])
        BY <1>1, <2>2 DEF StorageInv, StorageTyping
      <3>2. CASE save[q].n = 0
        BY <3>1, <3>2 DEF Runs, Greenfield!Saves
      <3>3. CASE save[q].n # 0
        <4>1. save[q].n \in Greenfield!Running /\ save[q].n # calls + 1
          BY <1>2, <3>1, <3>3 DEF Runs, Greenfield!Running, Greenfield!Saves
        <4>2. ASSUME NEW n \in Greenfield!Saves, save[q].n < n, n <= calls + 1
              PROVE  save[q].n \in concurrent'[n]
          BY <1>2, <1>3, <1>4, <3>1, <3>3, <4>1, <4>2 DEF Runs, Greenfield!Saves
        <4>3. Holds(remoteCopy, save[q].n) => Holds(remoteCopy, save[q].n)'
          BY <1>1, <1>3, <3>1, <3>3, <4>1 DEF Holds, Runs
        <4>4. /\ save'[q].at # "idle" /\ save'[q].n \in Greenfield!Saves
              /\ save'[q].n <= calls' /\ save[q].n <= calls
          BY <1>1, <1>2, <3>1, <3>3 DEF Runs, Greenfield!Saves
        <4>5. \A n \in Greenfield!Saves : save'[q].n < n /\ n <= calls' => save'[q].n \in concurrent'[n]
          BY <1>1, <3>1, <4>2
        <4>6. save'[q].at = "answer" => Holds(remoteCopy, save[q].n)' \/ (remoteCopy \in abandoned)'
          <5>1. save[q].at = "answer" => Holds(remoteCopy, save[q].n) \/ remoteCopy \in abandoned
            BY <3>1, <4>4 DEF Runs
          <5>2. save'[q].n = save[q].n /\ save'[q].at = save[q].at
            BY <3>1
          <5> QED
            BY <1>1, <4>3, <5>1, <5>2 DEF Holds
        <4> HIDE DEF Holds
        <4> QED
          BY <4>4, <4>5, <4>6 DEF Runs
      <3> QED
        BY <3>2, <3>3
    <2> QED
      BY <2>1, <2>2
  <1>6. ASSUME NEW n \in Greenfield!Saves PROVE Acknowledged(n)'
    <2>1. Acknowledged(n)
      BY DEF StorageInv
    <2>2. home[n] # "none" => n # calls + 1 /\ n <= calls + 1
      BY <1>2, <2>1 DEF Acknowledged, Greenfield!Saves
    <2> QED
      BY <1>1, <1>3, <2>1, <2>2 DEF Acknowledged, Holds, CopyOf
  <1> QED
    BY <1>1, <1>2, <1>5, <1>6 DEF StorageInv, StorageTyping

(* A copy takes a save that runs: it holds that one, and what it held. *)
LEMMA TakesRunning ==
  ASSUME StorageInv, NEW s \in Savers, save[s].at # "idle", UNCHANGED <<calls, concurrent>>
  PROVE  \A n \in Greenfield!Saves : n <= calls => Holds(save[s].n, n)
  <1>1. Runs(save[s])
    BY DEF StorageInv
  <1>2. ASSUME NEW n \in Greenfield!Saves, n <= calls PROVE Holds(save[s].n, n)
    BY <1>1, <1>2 DEF Runs, Holds, Greenfield!Saves
  <1> QED
    BY <1>2

LEMMA StorageKeeps ==
  ASSUME StorageInv, [Greenfield!Next]_Greenfield!greenfieldVars
  PROVE  StorageInv'
  <1>1. ASSUME NEW s \in Savers, Greenfield!serverTakes(s) PROVE StorageInv'
    <2> DEFINE r == [save[s] EXCEPT !.at = "answer"]
    <2>1. /\ save[s].at = "put" /\ remoteCopy' = save[s].n /\ save' = [save EXCEPT ![s] = r]
          /\ UNCHANGED <<localCopy, calls, home, concurrent, abandoned>>
      BY <1>1 DEF Greenfield!serverTakes, Greenfield!Goto
    <2>2. Runs(save[s])
      BY DEF StorageInv
    <2>3. \A n \in Greenfield!Saves : n <= calls => Holds(save[s].n, n)
      BY <2>1, TakesRunning
    <2>4. ASSUME NEW q \in Savers PROVE Runs(save[q])'
      <3>1. /\ save'[q].n = save[q].n /\ Runs(save[q])
            /\ save'[q].at = "idle" => save[q].at = "idle"
            /\ save[q].at = "idle" => save'[q].at = "idle"
        BY <2>1, <2>2 DEF StorageInv, StorageTyping, Runs
      <3>2. save[q].at # "idle" => Holds(remoteCopy, save[q].n)'
        BY <2>1, <2>3, <3>1 DEF Runs, Holds
      <3> QED
        BY <2>1, <3>1, <3>2 DEF Runs
    <2>5. ASSUME NEW n \in Greenfield!Saves PROVE Acknowledged(n)'
      BY <2>1, <2>3 DEF StorageInv, Acknowledged, Holds, CopyOf
    <2>6. remoteCopy' \in Int
      BY <2>1, <2>2 DEF Runs, Greenfield!Saves
    <2> QED
      BY <2>1, <2>4, <2>5, <2>6 DEF StorageInv, StorageTyping
  <1>2. ASSUME NEW s \in Savers, Greenfield!serverAnswers(s) PROVE StorageInv'
    <2>1. /\ save[s].at = "answer" /\ home' = [home EXCEPT ![save[s].n] = "remote"]
          /\ save' = [save EXCEPT ![s] = Greenfield!NoSave]
          /\ UNCHANGED <<remoteCopy, localCopy, calls, concurrent, abandoned>>
      BY <1>2 DEF Greenfield!serverAnswers, Greenfield!acknowledged
    <2>2. Runs(save[s])
      BY DEF StorageInv
    <2>3. ASSUME NEW q \in Savers PROVE Runs(save[q])'
      <3>1. save'[q] = Greenfield!NoSave \/ save'[q] = save[q]
        BY <2>1 DEF StorageInv, StorageTyping
      <3> QED
        BY <2>1, <3>1 DEF StorageInv, Runs, Holds, Greenfield!NoSave
    <2>4. ASSUME NEW n \in Greenfield!Saves PROVE Acknowledged(n)'
      <3>1. CASE n = save[s].n
        BY <2>1, <2>2, <3>1 DEF StorageInv, StorageTyping, Runs, Acknowledged, Holds, CopyOf
      <3>2. CASE n # save[s].n
        BY <2>1, <3>2 DEF StorageInv, StorageTyping, Acknowledged, Holds, CopyOf
      <3> QED
        BY <3>1, <3>2
    <2> QED
      BY <2>1, <2>3, <2>4 DEF StorageInv, StorageTyping
  <1>3. ASSUME NEW s \in Savers, Greenfield!renames(s) PROVE StorageInv'
    <2>1. /\ save[s].at = "rename" /\ home' = [home EXCEPT ![save[s].n] = "local"] /\ localCopy' = save[s].n
          /\ save' = [save EXCEPT ![s] = Greenfield!NoSave]
          /\ UNCHANGED <<remoteCopy, calls, concurrent, abandoned>>
      BY <1>3 DEF Greenfield!renames, Greenfield!acknowledged
    <2>2. Runs(save[s]) /\ save[s].n \in Int
      BY <2>1 DEF StorageInv, Runs, Greenfield!Saves
    <2>3. ASSUME NEW q \in Savers PROVE Runs(save[q])'
      <3>1. save'[q] = Greenfield!NoSave \/ save'[q] = save[q]
        BY <2>1 DEF StorageInv, StorageTyping
      <3> QED
        BY <2>1, <3>1 DEF StorageInv, Runs, Holds, Greenfield!NoSave
    <2>4. \A n \in Greenfield!Saves : n <= calls => Holds(save[s].n, n)
      BY <2>1, TakesRunning
    <2>5. ASSUME NEW n \in Greenfield!Saves PROVE Acknowledged(n)'
      <3>1. home'[n] # "none" => n <= calls
        BY <2>1, <2>2 DEF StorageInv, StorageTyping, Acknowledged, Runs
      <3>2. home'[n] # "remote" /\ home'[n] # "none" => Holds(CopyOf(home[n]), n)'
        BY <2>1, <2>4, <3>1 DEF Holds, CopyOf
      <3>3. home'[n] = "remote" => home[n] = "remote"
        BY <2>1 DEF StorageInv, StorageTyping
      <3> QED
        BY <2>1, <3>1, <3>2, <3>3 DEF StorageInv, Acknowledged, Holds, CopyOf
    <2> QED
      BY <2>1, <2>2, <2>3, <2>5 DEF StorageInv, StorageTyping
  <1>4. ASSUME NEW s \in Savers,
               \/ Greenfield!putFails(s) \/ Greenfield!ensureLocalDir(s) \/ Greenfield!writesTemp(s)
        PROVE  StorageInv'
    <2>1. PICK at \in {"dir", "write", "rename"} :
            /\ save' = [save EXCEPT ![s].at = at] /\ save[s].at # "idle"
            /\ UNCHANGED <<remoteCopy, localCopy, calls, home, concurrent>> /\ abandoned \subseteq abandoned'
      BY <1>4 DEF Greenfield!putFails, Greenfield!ensureLocalDir, Greenfield!writesTemp, Greenfield!Goto
    <2> DEFINE r == [save[s] EXCEPT !.at = at]
    <2>2. save' = [save EXCEPT ![s] = r]
      BY <2>1
    <2>3. Runs(save[s])
      BY DEF StorageInv
    <2>4. r.n = save[s].n /\ (r.at = at \/ r.at = save[s].at)
      OBVIOUS
    <2>5. Runs(r)
      BY <2>1, <2>3, <2>4 DEF Runs
    <2> QED
      BY <2>1, <2>2, <2>5, SaveSet
  <1>5. ASSUME NEW s \in Savers, Greenfield!diskFails(s) PROVE StorageInv'
    <2>1. Runs(Greenfield!NoSave)
      BY DEF Runs, Greenfield!NoSave
    <2> QED
      BY <1>5, <2>1, SaveSet DEF Greenfield!diskFails
  <1>6. CASE Greenfield!crash
    <2>1. /\ save' = [s \in Savers |-> Greenfield!NoSave] /\ abandoned \subseteq abandoned'
          /\ UNCHANGED <<remoteCopy, localCopy, calls, home, concurrent>>
      BY <1>6 DEF Greenfield!crash
    <2>2. \A s \in Savers : Runs(save[s])'
      BY <2>1 DEF Runs, Greenfield!NoSave
    <2>3. \A n \in Greenfield!Saves : Acknowledged(n)'
      BY <2>1 DEF StorageInv, Acknowledged, Holds, CopyOf
    <2> QED
      BY <2>1, <2>2, <2>3 DEF StorageInv, StorageTyping
  <1>7. ASSUME NEW n \in Greenfield!Saves, Greenfield!arrivesLate(n) PROVE StorageInv'
    <2>1. /\ n \in abandoned /\ remoteCopy' = n /\ n \in Int
          /\ UNCHANGED <<localCopy, save, calls, home, concurrent, abandoned>>
      BY <1>7 DEF Greenfield!arrivesLate, Greenfield!Saves
    <2>2. \A s \in Savers : Runs(save[s])'
      BY <2>1 DEF StorageInv, Runs
    <2>3. \A m \in Greenfield!Saves : Acknowledged(m)'
      BY <2>1 DEF StorageInv, Acknowledged, Holds, CopyOf
    <2> QED
      BY <2>1, <2>2, <2>3 DEF StorageInv, StorageTyping
  <1>8. CASE UNCHANGED Greenfield!greenfieldVars
    BY <1>8 DEF Greenfield!greenfieldVars, StorageInv, StorageTyping, Runs, Acknowledged, Holds, CopyOf
  <1> QED
    BY <1>1, <1>2, <1>3, <1>4, <1>5, <1>6, <1>7, <1>8, StartsSave DEF Greenfield!Next

LEMMA StorageSteps == [MCNext]_MCVars => [Greenfield!Next]_Greenfield!greenfieldVars
  BY DEF MCNext, SoulNext, OutsideNext, HelperNext, MCVars, soulVars, greenfieldVars, Greenfield!greenfieldVars

(* With any number of savers, saves, refused or late uploads and crashes, a copy
   that acknowledged a save never goes back behind one that was over before it
   began, but for an upload that was given up (GreenfieldAdapter.ts:78-160). *)
THEOREM CopiesGoForward == MCSpec => []CopyNeverGoesBack
  <1>1. MCInit => StorageInv
    <2> SUFFICES ASSUME Greenfield!Init PROVE StorageInv
      BY DEF MCInit
    <2>1. \A s \in Savers : Runs(save[s])
      BY DEF Greenfield!Init, Greenfield!NoSave, Runs
    <2> QED
      BY <2>1 DEF Greenfield!Init, StorageInv, StorageTyping, Acknowledged
  <1>2. StorageInv /\ [MCNext]_MCVars => StorageInv'
    BY StorageKeeps, StorageSteps
  <1>3. StorageInv => CopyNeverGoesBack
    BY DEF StorageInv, Acknowledged, Holds, CopyOf, CopyNeverGoesBack, Greenfield!CopyNeverGoesBack
  <1> QED
    BY <1>1, <1>2, <1>3, PTL DEF MCSpec

-----------------------------------------------------------------------------
(* The order book.  Sequences first: membership, and what insertion and removal do
   to them. *)
Distinct(s) == \A i, j \in 1..Len(s) : s[i] = s[j] => i = j

LEMMA Concat ==
  ASSUME NEW S, NEW a \in Seq(S), NEW b \in Seq(S)
  PROVE  /\ a \o b \in Seq(S) /\ Len(a \o b) = Len(a) + Len(b)
         /\ \A i \in 1..Len(a) + Len(b) : (a \o b)[i] = IF i <= Len(a) THEN a[i] ELSE b[i - Len(a)]
  OBVIOUS

LEMMA Inserted ==
  ASSUME NEW S, NEW s \in Seq(S), NEW y \in S, NEW p \in 1..Len(s) + 1
  PROVE  LET t == Book!InsertAt(s, p, y)
         IN /\ t \in Seq(S) /\ Len(t) = Len(s) + 1
            /\ \A i \in 1..Len(t) : t[i] = IF i < p THEN s[i] ELSE IF i = p THEN y ELSE s[i - 1]
            /\ \A x : In(x, t) <=> In(x, s) \/ x = y
            /\ Distinct(s) /\ ~In(y, s) => Distinct(t)
  <1> DEFINE a == SubSeq(s, 1, p - 1)
             b == SubSeq(s, p, Len(s))
             t == Book!InsertAt(s, p, y)
  <1>1. /\ a \in Seq(S) /\ Len(a) = p - 1 /\ \A i \in 1..p - 1 : a[i] = s[i]
    OBVIOUS
  <1>2. /\ b \in Seq(S) /\ Len(b) = Len(s) - p + 1 /\ \A i \in 1..Len(s) - p + 1 : b[i] = s[p + i - 1]
    OBVIOUS
  <1>3. t = a \o <<y>> \o b /\ Len(s) \in Nat /\ p \in Nat
    BY DEF Book!InsertAt
  <1> HIDE DEF a, b, t
  <1>4. a \o <<y>> \in Seq(S) /\ Len(a \o <<y>>) = p /\ \A i \in 1..p : (a \o <<y>>)[i] = IF i < p THEN s[i] ELSE y
    BY <1>1, <1>3
  <1>5. t \in Seq(S) /\ Len(t) = Len(s) + 1
    <2> DEFINE c == a \o <<y>>
    <2>1. c \in Seq(S) /\ b \in Seq(S) /\ Len(c) = p /\ t = c \o b
      BY <1>2, <1>3, <1>4
    <2> HIDE DEF c
    <2>2. c \o b \in Seq(S) /\ Len(c \o b) = Len(c) + Len(b)
      BY <2>1, Concat
    <2>3. Len(t) = p + (Len(s) - p + 1)
      BY <1>2, <2>1, <2>2
    <2>4. Len(t) = Len(s) + 1
      BY <1>3, <2>3
    <2> QED
      BY <2>1, <2>2, <2>4
  <1>6. ASSUME NEW i \in 1..Len(t) PROVE t[i] = IF i < p THEN s[i] ELSE IF i = p THEN y ELSE s[i - 1]
    <2>1. CASE i <= p
      BY <1>2, <1>3, <1>4, <1>5, <2>1
    <2>2. CASE i > p
      <3>1. t[i] = b[i - p] /\ i - p \in 1..Len(s) - p + 1
        BY <1>2, <1>3, <1>4, <1>5, <2>2
      <3>2. p + (i - p) - 1 = i - 1 /\ ~(i < p) /\ i # p
        BY <1>3, <2>2
      <3>3. b[i - p] = s[p + (i - p) - 1]
        BY <1>2, <3>1
      <3> QED
        BY <3>1, <3>2, <3>3
    <2> QED
      BY <1>3, <2>1, <2>2
  <1>7. ASSUME NEW x, In(x, t) PROVE In(x, s) \/ x = y
    <2>1. PICK i \in 1..Len(t) : t[i] = x
      BY <1>7 DEF In
    <2>2. i < p => i \in 1..Len(s) /\ x = s[i]
      BY <1>3, <1>5, <1>6, <2>1
    <2>3. i > p => i - 1 \in 1..Len(s) /\ x = s[i - 1]
      BY <1>3, <1>5, <1>6, <2>1
    <2>4. i = p => x = y
      BY <1>3, <1>6, <2>1
    <2> QED
      BY <1>3, <2>2, <2>3, <2>4 DEF In
  <1>8. In(y, t)
    <2>1. p \in 1..Len(t) /\ t[p] = y
      BY <1>3, <1>5, <1>6
    <2> QED
      BY <2>1 DEF In
  <1>9. ASSUME NEW x, In(x, s) PROVE In(x, t)
    <2>1. PICK i \in 1..Len(s) : s[i] = x
      BY <1>9 DEF In
    <2>2. CASE i < p
      <3>1. i \in 1..Len(t) /\ t[i] = x
        BY <1>3, <1>5, <1>6, <2>1, <2>2
      <3> QED
        BY <3>1 DEF In
    <2>3. CASE i >= p
      <3>1. i + 1 \in 1..Len(t) /\ t[i + 1] = x
        BY <1>3, <1>5, <1>6, <2>1, <2>3
      <3> QED
        BY <3>1 DEF In
    <2> QED
      BY <1>3, <2>2, <2>3
  <1>10. ASSUME Distinct(s), ~In(y, s), NEW i \in 1..Len(t), NEW j \in 1..Len(t), t[i] = t[j] PROVE i = j
    <2> DEFINE k(n) == IF n < p THEN n ELSE n - 1
    <2>1. \A n \in 1..Len(t) : n # p => k(n) \in 1..Len(s) /\ t[n] = s[k(n)] /\ t[n] # y
      <3> SUFFICES ASSUME NEW n \in 1..Len(t), n # p PROVE k(n) \in 1..Len(s) /\ t[n] = s[k(n)] /\ t[n] # y
        OBVIOUS
      <3>1. k(n) \in 1..Len(s) /\ t[n] = s[k(n)]
        BY <1>3, <1>5, <1>6
      <3> QED
        BY <1>10, <3>1 DEF In
    <2>2. t[p] = y /\ p \in 1..Len(t)
      BY <1>3, <1>5, <1>6
    <2>3. CASE i = p \/ j = p
      BY <1>10, <2>1, <2>2, <2>3
    <2>4. CASE i # p /\ j # p
      <3>1. k(i) = k(j)
        BY <1>10, <2>1, <2>4 DEF Distinct
      <3> QED
        BY <1>3, <1>5, <2>4, <3>1
    <2> QED
      BY <2>3, <2>4
  <1> QED
    BY <1>5, <1>6, <1>7, <1>8, <1>9, <1>10 DEF Distinct, t

LEMMA Removed ==
  ASSUME NEW S, NEW s \in Seq(S), NEW p \in 1..Len(s)
  PROVE  LET t == Book!RemoveAt(s, p)
         IN /\ t \in Seq(S) /\ Len(t) = Len(s) - 1
            /\ \A i \in 1..Len(t) : t[i] = IF i < p THEN s[i] ELSE s[i + 1]
            /\ \A x : In(x, s) => In(x, t) \/ x = s[p]
            /\ \A x : In(x, t) => In(x, s)
            /\ Distinct(s) => Distinct(t) /\ ~In(s[p], t)
  <1> DEFINE a == SubSeq(s, 1, p - 1)
             b == SubSeq(s, p + 1, Len(s))
             t == Book!RemoveAt(s, p)
             k(n) == IF n < p THEN n ELSE n + 1
  <1>1. /\ a \in Seq(S) /\ Len(a) = p - 1 /\ \A i \in 1..p - 1 : a[i] = s[i]
    OBVIOUS
  <1>2. /\ b \in Seq(S) /\ Len(b) = Len(s) - p /\ \A i \in 1..Len(s) - p : b[i] = s[p + i]
    OBVIOUS
  <1>3. t = a \o b /\ Len(s) \in Nat /\ p \in Nat /\ p <= Len(s)
    BY DEF Book!RemoveAt
  <1> HIDE DEF a, b, t
  <1>4. t \in Seq(S) /\ Len(t) = Len(s) - 1
    <2>1. a \o b \in Seq(S) /\ Len(a \o b) = Len(a) + Len(b)
      <3>1. a \in Seq(S) /\ b \in Seq(S)
        BY <1>1, <1>2
      <3> QED
        BY <3>1, Concat
    <2> QED
      BY <1>1, <1>2, <1>3, <2>1
  <1>5. ASSUME NEW i \in 1..Len(t) PROVE t[i] = s[k(i)] /\ k(i) \in 1..Len(s) /\ k(i) # p
    <2>1. CASE i < p
      BY <1>1, <1>2, <1>3, <1>4, <2>1
    <2>2. CASE i >= p
      <3>1. t[i] = b[i - (p - 1)] /\ i - (p - 1) \in 1..Len(s) - p
        BY <1>1, <1>2, <1>3, <1>4, <2>2
      <3> QED
        BY <1>2, <1>3, <1>4, <2>2, <3>1
    <2> QED
      BY <1>3, <2>1, <2>2
  <1>6. \A x : In(x, t) => In(x, s)
    BY <1>5 DEF In
  <1>7. ASSUME NEW x, In(x, s), x # s[p] PROVE In(x, t)
    <2>1. PICK i \in 1..Len(s) : s[i] = x
      BY <1>7 DEF In
    <2>2. CASE i < p
      <3>1. i \in 1..Len(t) /\ k(i) = i
        BY <1>3, <1>4, <2>1, <2>2
      <3> HIDE DEF k
      <3>2. t[i] = x
        BY <1>5, <2>1, <3>1
      <3> QED
        BY <3>1, <3>2 DEF In
    <2>3. CASE i > p
      <3>1. i - 1 \in 1..Len(t) /\ k(i - 1) = i
        BY <1>3, <1>4, <2>1, <2>3
      <3> HIDE DEF k
      <3>2. t[i - 1] = x
        BY <1>5, <2>1, <3>1
      <3> QED
        BY <3>1, <3>2 DEF In
    <2> QED
      BY <1>3, <1>7, <2>1, <2>2, <2>3
  <1>8. ASSUME Distinct(s) PROVE Distinct(t) /\ ~In(s[p], t)
    <2>1. ASSUME NEW i \in 1..Len(t), NEW j \in 1..Len(t), t[i] = t[j] PROVE i = j
      <3>1. k(i) = k(j)
        BY <1>5, <1>8, <2>1 DEF Distinct
      <3> QED
        BY <1>3, <1>4, <3>1
    <2>2. ASSUME NEW i \in 1..Len(t), t[i] = s[p] PROVE FALSE
      BY <1>5, <1>8, <2>2 DEF Distinct
    <2> QED
      BY <2>1, <2>2 DEF Distinct, In
  <1> QED
    BY <1>4, <1>5, <1>6, <1>7, <1>8 DEF t

LEMMA LastOff ==
  ASSUME NEW S, NEW s \in Seq(S), s # << >>
  PROVE  /\ Book!Last(s) \in S /\ Book!Last(s) = s[Len(s)] /\ Len(s) \in 1..Len(s) /\ In(Book!Last(s), s)
         /\ Book!Front(s) = Book!RemoveAt(s, Len(s))
  <1>1. Len(s) \in Nat /\ Len(s) >= 1 /\ Len(s) \in 1..Len(s) /\ s[Len(s)] \in S
    OBVIOUS
  <1>2. SubSeq(s, Len(s) + 1, Len(s)) = << >>
    BY <1>1
  <1>3. SubSeq(s, 1, Len(s) - 1) \in Seq(S)
    BY <1>1
  <1>4. SubSeq(s, 1, Len(s) - 1) \o << >> = SubSeq(s, 1, Len(s) - 1)
    BY <1>3
  <1> QED
    BY <1>1, <1>2, <1>4 DEF Book!Last, Book!Front, Book!RemoveAt, In

LEMMA Appends ==
  ASSUME NEW S, NEW s \in Seq(S), NEW y \in S
  PROVE  LET t == Append(s, y)
         IN /\ t \in Seq(S) /\ Len(t) = Len(s) + 1
            /\ \A x : In(x, t) <=> In(x, s) \/ x = y
            /\ Distinct(s) /\ ~In(y, s) => Distinct(t)
  <1> DEFINE t == Append(s, y)
  <1>1. /\ t \in Seq(S) /\ Len(t) = Len(s) + 1 /\ Len(s) \in Nat /\ t[Len(s) + 1] = y
        /\ \A i \in 1..Len(s) : t[i] = s[i]
    OBVIOUS
  <1> HIDE DEF t
  <1>2. \A i \in 1..Len(t) : i \in 1..Len(s) \/ i = Len(s) + 1
    BY <1>1
  <1>3. ASSUME NEW x PROVE In(x, t) <=> In(x, s) \/ x = y
    <2>1. In(x, t) => In(x, s) \/ x = y
      BY <1>1, <1>2 DEF In
    <2>2. 1..Len(s) \subseteq 1..Len(t) /\ Len(s) + 1 \in 1..Len(t)
      BY <1>1
    <2>3. In(x, s) => In(x, t)
      BY <1>1, <2>2 DEF In
    <2>4. x = y => In(x, t)
      BY <1>1, <2>2 DEF In
    <2> QED
      BY <2>1, <2>3, <2>4
  <1>4. Distinct(s) /\ ~In(y, s) => Distinct(t)
    BY <1>1, <1>2 DEF Distinct, In
  <1> QED
    BY <1>1, <1>3, <1>4 DEF t

-----------------------------------------------------------------------------
(* Where an index is: free, in the one side, in the other, or with the taker. *)
Apart(s, t) == \A x : ~(In(x, s) /\ In(x, t))

Places(f, s, t, k) ==
  /\ f \in Seq(Book!Slab) /\ s \in Seq(Book!Slab) /\ t \in Seq(Book!Slab) /\ k \in Book!Slab \union {-1}
  /\ Distinct(f) /\ Distinct(s) /\ Distinct(t) /\ Apart(f, s) /\ Apart(f, t) /\ Apart(s, t)
  /\ ~In(k, f) /\ ~In(k, s) /\ ~In(k, t)
  /\ \A x \in Book!Slab : In(x, f) \/ In(x, s) \/ In(x, t) \/ x = k
  /\ Len(f) + Len(s) + Len(t) + (IF k = -1 THEN 0 ELSE 1) = SlabCapacity

LEMMA SlabIsNat == -1 \notin Book!Slab /\ \A i \in Book!Slab : i \in Nat
  BY BookAssumption DEF Book!Slab

LEMMA PlacesSymmetric ==
  ASSUME NEW f, NEW s, NEW t, NEW k, Places(f, s, t, k)
  PROVE  Places(f, t, s, k)
  <1>1. Len(f) \in Nat /\ Len(s) \in Nat /\ Len(t) \in Nat
    BY DEF Places
  <1>2. Len(f) + Len(t) + Len(s) = Len(f) + Len(s) + Len(t)
    BY <1>1
  <1>3. Apart(t, s)
    BY DEF Places, Apart
  <1> QED
    BY <1>2, <1>3 DEF Places

LEMMA PlacesTaken ==
  ASSUME NEW f, NEW s, NEW t, Places(f, s, t, -1), f # << >>
  PROVE  Places(Book!Front(f), s, t, Book!Last(f))
  <1> DEFINE g == Book!RemoveAt(f, Len(f))
             k == Book!Last(f)
  <1>1. f \in Seq(Book!Slab) /\ s \in Seq(Book!Slab) /\ t \in Seq(Book!Slab) /\ Distinct(f)
    BY DEF Places
  <1>2. k \in Book!Slab /\ k = f[Len(f)] /\ Len(f) \in 1..Len(f) /\ In(k, f) /\ Book!Front(f) = g
    BY <1>1, LastOff
  <1>3. /\ g \in Seq(Book!Slab) /\ Len(g) = Len(f) - 1 /\ Distinct(g) /\ ~In(k, g)
        /\ \A x : In(x, f) => In(x, g) \/ x = k
        /\ \A x : In(x, g) => In(x, f)
    BY <1>1, <1>2, Removed
  <1> HIDE DEF g, k
  <1>4. Apart(g, s) /\ Apart(g, t) /\ ~In(k, s) /\ ~In(k, t)
    BY <1>2, <1>3 DEF Places, Apart
  <1>5. \A x \in Book!Slab : In(x, g) \/ In(x, s) \/ In(x, t) \/ x = k
    BY <1>3, SlabIsNat DEF Places
  <1>6. Len(g) + Len(s) + Len(t) + 1 = SlabCapacity /\ k # -1
    BY <1>1, <1>2, <1>3, SlabIsNat DEF Places
  <1> QED
    BY <1>1, <1>2, <1>3, <1>4, <1>5, <1>6 DEF Places, k

LEMMA PlacesFreed ==
  ASSUME NEW f, NEW s, NEW t, NEW k, Places(f, s, t, k), NEW p \in 1..Len(s)
  PROVE  Places(Append(f, s[p]), Book!RemoveAt(s, p), t, k)
  <1> DEFINE g == Append(f, s[p])
             u == Book!RemoveAt(s, p)
             y == s[p]
  <1>1. f \in Seq(Book!Slab) /\ s \in Seq(Book!Slab) /\ t \in Seq(Book!Slab) /\ Distinct(f) /\ Distinct(s)
        /\ y \in Book!Slab /\ In(y, s)
    BY DEF Places, In
  <1>2. ~In(y, f) /\ ~In(y, t) /\ y # k
    BY <1>1 DEF Places, Apart
  <1>3. /\ g \in Seq(Book!Slab) /\ Len(g) = Len(f) + 1 /\ Distinct(g)
        /\ \A x : In(x, g) <=> In(x, f) \/ x = y
    BY <1>1, <1>2, Appends
  <1>4. /\ u \in Seq(Book!Slab) /\ Len(u) = Len(s) - 1 /\ Distinct(u) /\ ~In(y, u)
        /\ \A x : In(x, s) => In(x, u) \/ x = y
        /\ \A x : In(x, u) => In(x, s)
    BY <1>1, Removed
  <1> HIDE DEF g, u, y
  <1>5. /\ Apart(g, u) /\ Apart(g, t) /\ Apart(u, t) /\ Distinct(t)
        /\ ~In(k, g) /\ ~In(k, u) /\ ~In(k, t)
    BY <1>2, <1>3, <1>4 DEF Places, Apart
  <1>6. \A x \in Book!Slab : In(x, g) \/ In(x, u) \/ In(x, t) \/ x = k
    BY <1>3, <1>4 DEF Places
  <1>7. Len(g) + Len(u) + Len(t) + (IF k = -1 THEN 0 ELSE 1) = SlabCapacity
    <2>1. Len(f) \in Nat /\ Len(s) \in Nat /\ Len(t) \in Nat
      BY <1>1
    <2> QED
      BY <1>3, <1>4, <2>1 DEF Places
  <1>8. k \in Book!Slab \union {-1}
    BY DEF Places
  <1> QED
    BY <1>1, <1>3, <1>4, <1>5, <1>6, <1>7, <1>8 DEF Places, g, u, y

LEMMA PlacesRested ==
  ASSUME NEW f, NEW s, NEW t, NEW k \in Book!Slab, Places(f, s, t, k), NEW p \in 1..Len(s) + 1
  PROVE  Places(f, Book!InsertAt(s, p, k), t, -1)
  <1> DEFINE u == Book!InsertAt(s, p, k)
  <1>1. f \in Seq(Book!Slab) /\ s \in Seq(Book!Slab) /\ t \in Seq(Book!Slab) /\ Distinct(s) /\ ~In(k, s)
    BY DEF Places
  <1>2. u \in Seq(Book!Slab) /\ Len(u) = Len(s) + 1 /\ Distinct(u) /\ \A x : In(x, u) <=> In(x, s) \/ x = k
    BY <1>1, Inserted
  <1> HIDE DEF u
  <1>3. \A x : In(x, f) \/ In(x, u) \/ In(x, t) => x \in Book!Slab
    BY <1>1, <1>2 DEF In
  <1>4. Apart(f, u) /\ Apart(u, t) /\ ~In(-1, f) /\ ~In(-1, u) /\ ~In(-1, t)
    BY <1>2, <1>3, SlabIsNat DEF Places, Apart
  <1>5. Len(f) + Len(u) + Len(t) = SlabCapacity
    <2>1. Len(f) \in Nat /\ Len(s) \in Nat /\ Len(t) \in Nat
      BY <1>1
    <2>2. Len(f) + Len(s) + Len(t) + 1 = SlabCapacity
      BY SlabIsNat DEF Places
    <2> QED
      BY <1>2, <2>1, <2>2
  <1> QED
    BY <1>1, <1>2, <1>4, <1>5 DEF Places, u

LEMMA PlacesDropped ==
  ASSUME NEW f, NEW s, NEW t, NEW k \in Book!Slab, Places(f, s, t, k)
  PROVE  Places(Append(f, k), s, t, -1)
  <1> DEFINE g == Append(f, k)
  <1>1. f \in Seq(Book!Slab) /\ s \in Seq(Book!Slab) /\ t \in Seq(Book!Slab) /\ Distinct(f) /\ ~In(k, f)
    BY DEF Places
  <1>2. g \in Seq(Book!Slab) /\ Len(g) = Len(f) + 1 /\ Distinct(g) /\ \A x : In(x, g) <=> In(x, f) \/ x = k
    BY <1>1, Appends
  <1> HIDE DEF g
  <1>3. \A x : In(x, g) \/ In(x, s) \/ In(x, t) => x \in Book!Slab
    BY <1>1, <1>2 DEF In
  <1>4. Apart(g, s) /\ Apart(g, t) /\ ~In(-1, g) /\ ~In(-1, s) /\ ~In(-1, t)
    BY <1>2, <1>3, SlabIsNat DEF Places, Apart
  <1>5. Len(g) + Len(s) + Len(t) = SlabCapacity
    <2>1. Len(f) \in Nat /\ Len(s) \in Nat /\ Len(t) \in Nat
      BY <1>1
    <2>2. Len(f) + Len(s) + Len(t) + 1 = SlabCapacity
      BY SlabIsNat DEF Places
    <2> QED
      BY <1>2, <2>1, <2>2
  <1> QED
    BY <1>1, <1>2, <1>4, <1>5 DEF Places, g

-----------------------------------------------------------------------------
(* A side lists its open orders, worst first. *)
Sides == {"Buy", "Sell"}
Order == [id : Nat, price : Int, quantity : Int, filled : Int, side : Sides, timestamp : Int,
          status : {"Open", "Filled", "Cancelled"}]
Slots == [Book!Slab -> Order]

Left(o, i) == o[i].quantity - o[i].filled
Worse(o, i, j, side) ==
  \/ IF side = "Buy" THEN o[i].price < o[j].price ELSE o[i].price > o[j].price
  \/ o[i].price = o[j].price /\ o[i].timestamp > o[j].timestamp

Live(o, i, side) == o[i].side = side /\ o[i].status = "Open" /\ Left(o, i) > 0
Sorted(o, s, side) == \A p \in 1..Len(s) : \A r \in 1..p - 1 : ~Worse(o, s[p], s[r], side)
Good(o, s, side) == (\A x : In(x, s) => Live(o, x, side)) /\ Sorted(o, s, side)

LEMMA Transitive ==
  ASSUME NEW o \in Slots, NEW i \in Book!Slab, NEW j \in Book!Slab, NEW k \in Book!Slab, NEW side,
         ~Worse(o, i, j, side), ~Worse(o, j, k, side)
  PROVE  ~Worse(o, i, k, side)
  <1>1. o[i] \in Order /\ o[j] \in Order /\ o[k] \in Order
    BY DEF Slots
  <1> QED
    BY <1>1 DEF Order, Worse

LEMMA NeitherWorse ==
  ASSUME NEW o \in Slots, NEW i \in Book!Slab, NEW j \in Book!Slab, NEW side
  PROVE  ~(Worse(o, i, j, side) /\ Worse(o, j, i, side))
  <1>1. o[i] \in Order /\ o[j] \in Order
    BY DEF Slots
  <1> QED
    BY <1>1 DEF Order, Worse

LEMMA GoodSame ==
  ASSUME NEW o, NEW n, NEW s \in Seq(Book!Slab), NEW side, Good(o, s, side),
         \A x : In(x, s) => n[x].price = o[x].price /\ n[x].timestamp = o[x].timestamp /\ Live(n, x, side)
  PROVE  Good(n, s, side)
  <1>1. \A p \in 1..Len(s) : In(s[p], s)
    BY DEF In
  <1>2. \A p \in 1..Len(s) : \A r \in 1..p - 1 : r \in 1..Len(s)
    OBVIOUS
  <1>3. Sorted(n, s, side)
    BY <1>1, <1>2 DEF Good, Sorted, Worse
  <1> QED
    BY <1>3 DEF Good

LEMMA GoodRemoved ==
  ASSUME NEW o, NEW s \in Seq(Book!Slab), NEW p \in 1..Len(s), NEW side, Good(o, s, side)
  PROVE  Good(o, Book!RemoveAt(s, p), side)
  <1> DEFINE t == Book!RemoveAt(s, p)
             k(i) == IF i < p THEN i ELSE i + 1
  <1>1. /\ Len(t) = Len(s) - 1 /\ Len(s) \in Nat /\ p \in Nat /\ p <= Len(s)
        /\ \A i \in 1..Len(t) : t[i] = s[k(i)]
        /\ \A x : In(x, t) => In(x, s)
    BY Removed
  <1> HIDE DEF t
  <1>2. ASSUME NEW i \in 1..Len(t), NEW r \in 1..i - 1 PROVE ~Worse(o, t[i], t[r], side)
    <2>1. k(i) \in 1..Len(s) /\ k(r) \in 1..k(i) - 1 /\ r \in 1..Len(t)
      BY <1>1
    <2>2. t[i] = s[k(i)] /\ t[r] = s[k(r)]
      BY <1>1, <2>1
    <2> HIDE DEF k
    <2> QED
      BY <2>1, <2>2 DEF Good, Sorted
  <1> QED
    BY <1>1, <1>2 DEF Good, Sorted, t

(* An order may be put where all before are worse or as good, and all behind
   better or as good. *)
LEMMA GoodInserted ==
  ASSUME NEW o, NEW s \in Seq(Book!Slab), NEW y \in Book!Slab, NEW p \in 1..Len(s) + 1, NEW side, Good(o, s, side),
         Live(o, y, side),
         \A r \in 1..Len(s) : r < p => ~Worse(o, y, s[r], side),
         \A r \in 1..Len(s) : r >= p => ~Worse(o, s[r], y, side)
  PROVE  Good(o, Book!InsertAt(s, p, y), side)
  <1> DEFINE t == Book!InsertAt(s, p, y)
  <1>1. /\ Len(t) = Len(s) + 1 /\ Len(s) \in Nat /\ p \in Nat /\ p <= Len(s) + 1
        /\ \A i \in 1..Len(t) : t[i] = IF i < p THEN s[i] ELSE IF i = p THEN y ELSE s[i - 1]
        /\ \A x : In(x, t) <=> In(x, s) \/ x = y
    BY Inserted
  <1> HIDE DEF t
  <1>2. ASSUME NEW i \in 1..Len(t), NEW r \in 1..i - 1 PROVE ~Worse(o, t[i], t[r], side)
    <2>1. r \in 1..Len(t) /\ r < i
      BY <1>1
    <2>2. CASE i < p
      <3>1. t[i] = s[i] /\ t[r] = s[r] /\ i \in 1..Len(s)
        BY <1>1, <2>1, <2>2
      <3> QED
        BY <3>1 DEF Good, Sorted
    <2>3. CASE i = p
      <3>1. t[i] = y /\ t[r] = s[r] /\ r \in 1..Len(s) /\ r < p
        BY <1>1, <2>1, <2>3
      <3> QED
        BY <3>1
    <2>4. CASE i > p
      <3>1. t[i] = s[i - 1] /\ i - 1 \in 1..Len(s) /\ i - 1 >= p
        BY <1>1, <2>1, <2>4
      <3>2. CASE r = p
        BY <1>1, <2>1, <3>1, <3>2
      <3>3. CASE r < p
        <4>1. t[r] = s[r] /\ r \in 1..(i - 1) - 1
          BY <1>1, <2>1, <2>4, <3>3
        <4> QED
          BY <3>1, <4>1 DEF Good, Sorted
      <3>4. CASE r > p
        <4>1. t[r] = s[r - 1] /\ r - 1 \in 1..(i - 1) - 1
          BY <1>1, <2>1, <2>4, <3>4
        <4> QED
          BY <3>1, <4>1 DEF Good, Sorted
      <3> QED
        BY <1>1, <2>1, <3>2, <3>3, <3>4
    <2> QED
      BY <1>1, <2>1, <2>2, <2>3, <2>4
  <1> QED
    BY <1>1, <1>2 DEF Good, Sorted, t

LEMMA BookWorse == \A i, j, side : Book!worse(i, j, side) <=> Worse(orders, i, j, side)
  BY DEF Book!worse, Worse

LEMMA BookCardinality == \A T : Book!Cardinality(T) = Cardinality(T)
  BY DEF Book!Cardinality, Cardinality

(* What is closed downwards is a beginning. *)
LEMMA Beginning ==
  ASSUME NEW n \in Nat, NEW W \in SUBSET (1..n), \A q \in W : \A r \in 1..q : r \in W
  PROVE  Cardinality(W) \in 0..n /\ W = 1..Cardinality(W)
  <1>1. IsFiniteSet(1..n) /\ Cardinality(1..n) = n
    BY FS_Interval
  <1>2. IsFiniteSet(W) /\ Cardinality(W) <= n /\ Cardinality(W) \in Nat
    BY <1>1, FS_Subset, FS_CardinalityType
  <1> DEFINE c == Cardinality(W)
  <1>3. ASSUME NEW q \in W PROVE q \in 1..c
    <2>1. 1..q \in SUBSET W /\ q \in Nat /\ q >= 1
      BY <1>3
    <2>2. Cardinality(1..q) = q /\ Cardinality(1..q) <= c
      <3>1. Cardinality(1..q) = q
        BY <2>1, FS_Interval
      <3> QED
        BY <1>2, <2>1, <3>1, FS_Subset
    <2> QED
      BY <1>2, <2>1, <2>2
  <1>4. IsFiniteSet(1..c) /\ Cardinality(1..c) = c
    BY <1>2, FS_Interval
  <1>5. W \in SUBSET (1..c)
    BY <1>3
  <1> HIDE DEF c
  <1>6. 1..c = W
    BY <1>4, <1>5, FS_Subset DEF c
  <1> QED
    BY <1>2, <1>6 DEF c

LEMMA PointsFit ==
  ASSUME orders \in Slots, NEW s \in Seq(Book!Slab), NEW side, Sorted(orders, s, side), NEW i \in Book!Slab,
         NEW p \in Book!insertPoints(s, i, side)
  PROVE  /\ p \in 1..Len(s) + 1
         /\ \A r \in 1..Len(s) : r < p => ~Worse(orders, i, s[r], side)
         /\ \A r \in 1..Len(s) : r >= p => ~Worse(orders, s[r], i, side)
  <1> DEFINE equals == {q \in 1..Len(s) : ~Worse(orders, s[q], i, side) /\ ~Worse(orders, i, s[q], side)}
             W == {q \in 1..Len(s) : Worse(orders, s[q], i, side)}
  <1>1. p \in IF equals # {} THEN equals ELSE {Cardinality(W) + 1}
    BY BookWorse, BookCardinality DEF Book!insertPoints
  <1>2. Len(s) \in Nat /\ \A q \in 1..Len(s) : s[q] \in Book!Slab
    OBVIOUS
  <1>3. \A q \in 1..Len(s) : \A r \in 1..Len(s) : r < q => ~Worse(orders, s[q], s[r], side)
    BY <1>2 DEF Sorted
  <1>4. CASE equals # {}
    <2>1. p \in 1..Len(s) /\ ~Worse(orders, s[p], i, side) /\ ~Worse(orders, i, s[p], side)
      BY <1>1, <1>4
    <2>2. ASSUME NEW r \in 1..Len(s), r < p PROVE ~Worse(orders, i, s[r], side)
      BY <1>2, <1>3, <2>1, <2>2, Transitive
    <2>3. ASSUME NEW r \in 1..Len(s), r >= p PROVE ~Worse(orders, s[r], i, side)
      <3>1. CASE r = p
        BY <2>1, <3>1
      <3>2. CASE r # p
        <4>1. p < r
          BY <2>1, <2>3, <3>2
        <4> QED
          BY <1>2, <1>3, <2>1, <4>1, Transitive
      <3> QED
        BY <3>1, <3>2
    <2>4. p \in 1..Len(s) + 1
      BY <1>2, <2>1
    <2>5. /\ \A r \in 1..Len(s) : r < p => ~Worse(orders, i, s[r], side)
          /\ \A r \in 1..Len(s) : r >= p => ~Worse(orders, s[r], i, side)
      BY <2>2, <2>3
    <2> HIDE DEF equals, W
    <2> QED
      BY <2>4, <2>5
  <1>5. CASE equals = {}
    <2>1. ASSUME NEW q \in W, NEW r \in 1..q PROVE r \in W
      <3>1. q \in 1..Len(s) /\ r \in 1..Len(s) /\ Worse(orders, s[q], i, side)
        BY <1>2, <2>1
      <3>2. CASE r = q
        BY <3>2
      <3>3. CASE r # q
        <4>1. r < q
          BY <3>1, <3>3
        <4>2. Worse(orders, s[r], i, side)
          BY <1>2, <1>3, <3>1, <4>1, Transitive
        <4> QED
          BY <3>1, <4>2
      <3> QED
        BY <3>2, <3>3
    <2>2. Cardinality(W) \in 0..Len(s) /\ W = 1..Cardinality(W)
      <3>1. W \in SUBSET (1..Len(s))
        OBVIOUS
      <3> HIDE DEF W
      <3> QED
        BY <1>2, <2>1, <3>1, Beginning
    <2>3. p = Cardinality(W) + 1
      BY <1>1, <1>5
    <2>4. ASSUME NEW r \in 1..Len(s), r < p PROVE ~Worse(orders, i, s[r], side)
      <3>1. r \in 1..Cardinality(W)
        <4> DEFINE c == Cardinality(W)
        <4>1. c \in Nat /\ p = c + 1 /\ r \in Nat /\ 1 <= r /\ r < p
          BY <1>2, <2>2, <2>3, <2>4
        <4> HIDE DEF c
        <4> QED
          BY <4>1 DEF c
      <3>2. r \in W
        BY <2>2, <3>1
      <3> QED
        BY <1>2, <3>2, NeitherWorse
    <2>5. ASSUME NEW r \in 1..Len(s), r >= p PROVE ~Worse(orders, s[r], i, side)
      <3>1. r \notin 1..Cardinality(W)
        BY <2>2, <2>3, <2>5
      <3> QED
        BY <2>2, <3>1
    <2> QED
      BY <1>2, <2>2, <2>3, <2>4, <2>5
  <1> QED
    BY <1>4, <1>5

-----------------------------------------------------------------------------
(* The book: every index is in one place, each side is in order and uncrossed, and
   the taker is open. *)
Crossed(o, b, a) == \E x, y : In(x, b) /\ In(y, a) /\ o[x].price >= o[y].price

Slab(o, f, b, a, k) ==
  /\ o \in Slots /\ Places(f, b, a, k)
  /\ Good(o, b, "Buy") /\ Good(o, a, "Sell") /\ ~Crossed(o, b, a)
  /\ k # -1 => o[k].status = "Open" /\ Left(o, k) >= 0

BookInv == Slab(orders, freeList, bids, asks, taker) /\ currentTime \in Int /\ nextOrderId \in Nat

LEMMA BookNext ==
  ASSUME Slab(orders', freeList', bids', asks', taker'), currentTime' \in Int, nextOrderId' \in Nat
  PROVE  BookInv'
  <1>1. Slab(orders, freeList, bids, asks, taker)'
    BY DEF Slab, Good, Sorted, Crossed, Places, Apart, Distinct, In, Live, Left, Worse
  <1> QED
    BY <1>1 DEF BookInv

LEMMA PlaceKeeps ==
  ASSUME BookInv, NEW price \in Int, NEW quantity \in Nat, NEW side \in Sides, Book!placeOrder(price, quantity, side)
  PROVE  BookInv'
  <1>1. /\ taker = -1 /\ nextOrderId' = nextOrderId + 1 /\ UNCHANGED <<bids, asks, currentTime>>
        /\ currentTime \in Int /\ nextOrderId \in Nat
        /\ orders \in Slots /\ Places(freeList, bids, asks, -1)
    BY DEF BookInv, Slab, Book!placeOrder, Book!Untaken
  <1>2. CASE freeList = << >>
    <2>1. UNCHANGED <<orders, freeList, taker>>
      BY <1>2 DEF Book!placeOrder
    <2> QED
      BY <1>1, <2>1, BookNext DEF BookInv
  <1>3. CASE freeList # << >>
    <2> DEFINE k == Book!Last(freeList)
               order == [id |-> nextOrderId, price |-> price, quantity |-> quantity, filled |-> 0,
                         side |-> side, timestamp |-> currentTime, status |-> "Open"]
    <2>1. taker' = k /\ freeList' = Book!Front(freeList) /\ orders' = [orders EXCEPT ![k] = order]
      BY <1>3 DEF Book!placeOrder
    <2>2. Places(freeList', bids', asks', k)
      BY <1>1, <1>3, <2>1, PlacesTaken
    <2>3. order \in Order /\ order.status = "Open" /\ order.quantity - order.filled >= 0
      BY <1>1 DEF Order
    <2> HIDE DEF order, k
    <2>4. k \in Book!Slab /\ k # -1 /\ ~In(k, bids) /\ ~In(k, asks) /\ bids \in Seq(Book!Slab) /\ asks \in Seq(Book!Slab)
      <3>1. k \in Book!Slab
        BY <1>1, <1>3, LastOff DEF Places, k
      <3> QED
        BY <1>1, <2>2, <3>1, SlabIsNat DEF Places
    <2>5. orders' \in Slots /\ orders'[k] = order /\ \A x \in Book!Slab : x # k => orders'[x] = orders[x]
      BY <1>1, <2>1, <2>3, <2>4 DEF Slots
    <2>6. \A x : In(x, bids) \/ In(x, asks) => orders'[x] = orders[x]
      BY <2>4, <2>5 DEF In
    <2>7. Good(orders', bids', "Buy") /\ Good(orders', asks', "Sell")
      <3>1. \A s \in Sides : \A x : orders'[x] = orders[x] /\ Live(orders, x, s) => Live(orders', x, s)
        BY DEF Live, Left
      <3>2. Good(orders, bids, "Buy") /\ Good(orders, asks, "Sell")
        BY DEF BookInv, Slab
      <3>3. \A x : In(x, bids) => Live(orders', x, "Buy")
        BY <2>6, <3>1, <3>2 DEF Good, Sides
      <3>4. \A x : In(x, asks) => Live(orders', x, "Sell")
        BY <2>6, <3>1, <3>2 DEF Good, Sides
      <3> QED
        BY <1>1, <2>4, <2>6, <3>2, <3>3, <3>4, GoodSame
    <2>8. ~Crossed(orders', bids', asks')
      BY <1>1, <2>6 DEF BookInv, Slab, Crossed
    <2>9. Slab(orders', freeList', bids', asks', taker')
      BY <2>1, <2>2, <2>3, <2>5, <2>7, <2>8 DEF Slab, Left
    <2> QED
      BY <1>1, <2>9, BookNext
  <1> QED
    BY <1>2, <1>3

LEMMA TheSmaller ==
  ASSUME NEW x \in Int, NEW y \in Int
  PROVE  LET q == Book!Min({x, y}) IN q \in Int /\ q <= x /\ q <= y /\ (q = x \/ q = y)
  <1>1. \E q \in {x, y} : \A z \in {x, y} : q <= z
    OBVIOUS
  <1>2. Book!Min({x, y}) \in {x, y} /\ \A z \in {x, y} : Book!Min({x, y}) <= z
    BY <1>1 DEF Book!Min
  <1> QED
    BY <1>2

Traded(r, q, st) == [r EXCEPT !.filled = @ + q, !.status = st]

LEMMA TradedIsOrder ==
  ASSUME NEW r \in Order, NEW q \in Int, NEW st \in {"Open", "Filled", "Cancelled"}
  PROVE  LET n == Traded(r, q, st)
         IN /\ n \in Order /\ n.price = r.price /\ n.timestamp = r.timestamp /\ n.side = r.side
            /\ n.quantity = r.quantity /\ n.filled = r.filled + q /\ n.status = st
  <1> DEFINE m == [r EXCEPT !.filled = @ + q]
             n == Traded(r, q, st)
  <1>1. /\ m \in Order /\ m.price = r.price /\ m.timestamp = r.timestamp /\ m.side = r.side
        /\ m.quantity = r.quantity /\ m.filled = r.filled + q
    BY DEF Order
  <1>2. n = [m EXCEPT !.status = st]
    BY DEF Order, Traded
  <1> HIDE DEF m, n
  <1>3. /\ n \in Order /\ n.price = m.price /\ n.timestamp = m.timestamp /\ n.side = m.side
        /\ n.quantity = m.quantity /\ n.filled = m.filled /\ n.status = st
    BY <1>1, <1>2 DEF Order
  <1> QED
    BY <1>1, <1>3 DEF n

(* One fill: the taker and the best of the other side. *)
AfterFill(o, m, k, q) ==
  [o EXCEPT ![m].filled = @ + q, ![k].filled = @ + q,
            ![m].status = IF q = Left(o, m) THEN "Filled" ELSE @]

LEMMA FillsTwo ==
  ASSUME NEW o \in Slots, NEW m \in Book!Slab, NEW k \in Book!Slab, m # k, NEW q \in Int,
         q <= Left(o, m), q <= Left(o, k)
  PROVE  LET n == AfterFill(o, m, k, q)
         IN /\ n \in Slots
            /\ \A x \in Book!Slab : x # m /\ x # k => n[x] = o[x]
            /\ \A x \in Book!Slab : n[x].price = o[x].price /\ n[x].timestamp = o[x].timestamp /\ n[x].side = o[x].side
            /\ n[k].status = o[k].status /\ Left(n, k) >= 0
            /\ Left(n, m) = Left(o, m) - q /\ (q # Left(o, m) => n[m].status = o[m].status)
  <1> DEFINE n == AfterFill(o, m, k, q)
             st == IF q = Left(o, m) THEN "Filled" ELSE o[m].status
             rm == Traded(o[m], q, st)
             rk == [o[k] EXCEPT !.filled = @ + q]
  <1>1. o[m] \in Order /\ o[k] \in Order
    BY DEF Slots
  <1>2. st \in {"Open", "Filled", "Cancelled"}
    BY <1>1 DEF Order
  <1>3. n = [x \in Book!Slab |-> IF x = m THEN rm ELSE IF x = k THEN rk ELSE o[x]]
    BY DEF AfterFill, Slots, Traded
  <1> HIDE DEF st
  <1>4. /\ rm \in Order /\ rm.price = o[m].price /\ rm.timestamp = o[m].timestamp /\ rm.side = o[m].side
        /\ rm.quantity = o[m].quantity /\ rm.filled = o[m].filled + q /\ rm.status = st
    BY <1>1, <1>2, TradedIsOrder
  <1>5. /\ rk \in Order /\ rk.price = o[k].price /\ rk.timestamp = o[k].timestamp /\ rk.side = o[k].side
        /\ rk.quantity = o[k].quantity /\ rk.filled = o[k].filled + q /\ rk.status = o[k].status
    BY <1>1 DEF Order
  <1> HIDE DEF n, rm, rk
  <1>6. n[m] = rm /\ n[k] = rk /\ \A x \in Book!Slab : x # m /\ x # k => n[x] = o[x]
    BY <1>3
  <1>7. n \in Slots
    BY <1>3, <1>4, <1>5 DEF Slots
  <1>8. \A x \in Book!Slab : n[x].price = o[x].price /\ n[x].timestamp = o[x].timestamp /\ n[x].side = o[x].side
    BY <1>4, <1>5, <1>6
  <1>9. Left(n, k) >= 0 /\ Left(n, m) = Left(o, m) - q
    BY <1>1, <1>4, <1>5, <1>6 DEF Left, Order
  <1>10. q # Left(o, m) => n[m].status = o[m].status
    BY <1>4, <1>6 DEF st
  <1> QED
    BY <1>5, <1>6, <1>7, <1>8, <1>9, <1>10 DEF n

LEMMA FillsOne ==
  ASSUME NEW o \in Slots, NEW f, NEW s, NEW t, NEW k \in Book!Slab, Places(f, s, t, k), s # << >>,
         NEW a, NEW b, Good(o, s, a), Good(o, t, b), o[k].status = "Open", Left(o, k) >= 0
  PROVE  LET m == Book!Last(s)
             q == Book!Min({Left(o, k), Left(o, m)})
             n == AfterFill(o, m, k, q)
             u == IF q = Left(o, m) THEN Book!Front(s) ELSE s
             g == IF q = Left(o, m) THEN Append(f, m) ELSE f
         IN /\ n \in Slots /\ Places(g, u, t, k) /\ Good(n, u, a) /\ Good(n, t, b)
            /\ \A x : In(x, u) => In(x, s)
            /\ \A x \in Book!Slab : n[x].price = o[x].price
            /\ n[k].status = "Open" /\ Left(n, k) >= 0
  <1> DEFINE m == Book!Last(s)
             q == Book!Min({Left(o, k), Left(o, m)})
             n == AfterFill(o, m, k, q)
             c == Book!RemoveAt(s, Len(s))
             u == IF q = Left(o, m) THEN Book!Front(s) ELSE s
             g == IF q = Left(o, m) THEN Append(f, m) ELSE f
  <1>1. f \in Seq(Book!Slab) /\ s \in Seq(Book!Slab) /\ t \in Seq(Book!Slab) /\ Distinct(s) /\ Apart(s, t)
        /\ ~In(k, s) /\ ~In(k, t)
    BY DEF Places
  <1>2. /\ m \in Book!Slab /\ m = s[Len(s)] /\ Len(s) \in 1..Len(s) /\ In(m, s) /\ Book!Front(s) = c
    BY <1>1, LastOff
  <1>3. c \in Seq(Book!Slab) /\ ~In(m, c) /\ \A x : In(x, c) => In(x, s)
    BY <1>1, <1>2, Removed
  <1>4. Good(o, c, a)
    BY <1>1, <1>2, GoodRemoved
  <1>5. Places(Append(f, m), c, t, k)
    BY <1>2, PlacesFreed
  <1> HIDE DEF m, c
  <1>6. m # k
    BY <1>1, <1>2
  <1>7. Left(o, m) \in Int /\ Left(o, k) \in Int
    BY <1>2 DEF Left, Slots, Order
  <1>8. q \in Int /\ q <= Left(o, m) /\ q <= Left(o, k)
    BY <1>7, TheSmaller
  <1> HIDE DEF q
  <1>9. /\ n \in Slots
        /\ \A x \in Book!Slab : x # m /\ x # k => n[x] = o[x]
        /\ \A x \in Book!Slab : n[x].price = o[x].price /\ n[x].timestamp = o[x].timestamp /\ n[x].side = o[x].side
        /\ n[k].status = o[k].status /\ Left(n, k) >= 0
        /\ Left(n, m) = Left(o, m) - q /\ (q # Left(o, m) => n[m].status = o[m].status)
    BY <1>2, <1>6, <1>8, FillsTwo
  <1> HIDE DEF n
  <1>10. \A x : In(x, s) \/ In(x, t) \/ In(x, c) => x \in Book!Slab
    BY <1>1, <1>3 DEF In
  <1>11. ASSUME NEW x \in Book!Slab, x # m, x # k, NEW side, Live(o, x, side) PROVE Live(n, x, side)
    BY <1>9, <1>11 DEF Live, Left
  <1>12. Good(n, t, b)
    <2>1. \A x : In(x, t) => x # m /\ x # k
      BY <1>1, <1>2 DEF Apart
    <2>2. \A x : In(x, t) => Live(n, x, b)
      BY <1>10, <1>11, <2>1 DEF Good
    <2> QED
      BY <1>1, <1>9, <1>10, <2>2, GoodSame
  <1>13. Good(n, c, a)
    <2>1. \A x : In(x, c) => x # m /\ x # k
      BY <1>1, <1>3
    <2>2. \A x : In(x, c) => Live(n, x, a)
      BY <1>4, <1>10, <1>11, <2>1 DEF Good
    <2> QED
      BY <1>3, <1>4, <1>9, <1>10, <2>2, GoodSame
  <1>14. ASSUME q # Left(o, m) PROVE Good(n, s, a)
    <2>1. Live(n, m, a)
      <3>1. Live(o, m, a)
        BY <1>2 DEF Good
      <3>2. Left(n, m) > 0
        BY <1>7, <1>8, <1>9, <1>14
      <3> QED
        BY <1>2, <1>9, <1>14, <3>1, <3>2 DEF Live
    <2>2. \A x : In(x, s) => x # k
      BY <1>1
    <2>3. \A x : In(x, s) => Live(n, x, a)
      BY <1>10, <1>11, <2>1, <2>2 DEF Good
    <2> QED
      BY <1>1, <1>9, <1>10, <2>3, GoodSame
  <1>15. Places(g, u, t, k) /\ Good(n, u, a) /\ \A x : In(x, u) => In(x, s)
    BY <1>2, <1>3, <1>5, <1>13, <1>14
  <1> QED
    BY <1>9, <1>12, <1>15 DEF m, q, n

LEMMA BookLeft == \A i : Book!remaining(i) = Left(orders, i)
  BY DEF Book!remaining, Left

LEMMA FillKeeps ==
  ASSUME BookInv, Book!fill
  PROVE  BookInv'
  <1> DEFINE k == taker
  <1>1. /\ orders \in Slots /\ Places(freeList, bids, asks, taker) /\ Good(orders, bids, "Buy") /\ Good(orders, asks, "Sell")
        /\ ~Crossed(orders, bids, asks) /\ currentTime \in Int /\ nextOrderId \in Nat
        /\ taker # -1 /\ orders[taker].status = "Open" /\ Left(orders, taker) >= 0
    BY DEF BookInv, Slab, Book!fill, Book!matching, Book!Untaken
  <1>2. taker \in Book!Slab /\ bids \in Seq(Book!Slab) /\ asks \in Seq(Book!Slab)
    BY <1>1 DEF Places
  <1>3. orders[taker].side \in Sides
    BY <1>1, <1>2 DEF Slots, Order
  <1>4. taker' = taker /\ nextOrderId' = nextOrderId /\ currentTime' = currentTime
    BY DEF Book!fill
  <1>5. \A x : In(x, bids) \/ In(x, asks) => x \in Book!Slab
    BY <1>2 DEF In
  <1>6. CASE orders[taker].side = "Buy"
    <2> DEFINE m == Book!Last(asks)
               q == Book!Min({Left(orders, taker), Left(orders, m)})
    <2>1. /\ asks # << >> /\ orders' = AfterFill(orders, m, taker, q)
          /\ asks' = (IF q = Left(orders, m) THEN Book!Front(asks) ELSE asks) /\ bids' = bids
          /\ freeList' = (IF q = Left(orders, m) THEN Append(freeList, m) ELSE freeList)
      BY <1>6, BookLeft DEF Book!fill, Book!matching, Book!opposite, Book!book, Book!setBook, AfterFill
    <2>2. Places(freeList, asks, bids, taker)
      BY <1>1, PlacesSymmetric
    <2>3. /\ orders' \in Slots /\ Places(freeList', asks', bids, taker) /\ Good(orders', asks', "Sell") /\ Good(orders', bids, "Buy")
          /\ \A x : In(x, asks') => In(x, asks)
          /\ \A x \in Book!Slab : orders'[x].price = orders[x].price
          /\ orders'[taker].status = "Open" /\ Left(orders', taker) >= 0
      BY <1>1, <1>2, <2>1, <2>2, FillsOne
    <2>4. Places(freeList', bids, asks', taker)
      BY <2>3, PlacesSymmetric
    <2>5. ~Crossed(orders', bids, asks')
      BY <1>1, <1>5, <2>3 DEF Crossed
    <2>6. Slab(orders', freeList', bids', asks', taker')
      BY <1>4, <2>1, <2>3, <2>4, <2>5 DEF Slab
    <2> QED
      BY <1>1, <1>4, <2>6, BookNext
  <1>7. CASE orders[taker].side = "Sell"
    <2> DEFINE m == Book!Last(bids)
               q == Book!Min({Left(orders, taker), Left(orders, m)})
    <2>1. /\ bids # << >> /\ orders' = AfterFill(orders, m, taker, q)
          /\ bids' = (IF q = Left(orders, m) THEN Book!Front(bids) ELSE bids) /\ asks' = asks
          /\ freeList' = (IF q = Left(orders, m) THEN Append(freeList, m) ELSE freeList)
      BY <1>7, BookLeft DEF Book!fill, Book!matching, Book!opposite, Book!book, Book!setBook, AfterFill
    <2>2. /\ orders' \in Slots /\ Places(freeList', bids', asks, taker) /\ Good(orders', bids', "Buy") /\ Good(orders', asks, "Sell")
          /\ \A x : In(x, bids') => In(x, bids)
          /\ \A x \in Book!Slab : orders'[x].price = orders[x].price
          /\ orders'[taker].status = "Open" /\ Left(orders', taker) >= 0
      BY <1>1, <1>2, <2>1, FillsOne
    <2>3. ~Crossed(orders', bids', asks)
      BY <1>1, <1>5, <2>2 DEF Crossed
    <2>4. Slab(orders', freeList', bids', asks', taker')
      BY <1>4, <2>1, <2>2, <2>3 DEF Slab
    <2> QED
      BY <1>1, <1>4, <2>4, BookNext
  <1> QED
    BY <1>3, <1>6, <1>7 DEF Sides

Restated(o, k, st) == [o EXCEPT ![k].status = st]

LEMMA StatusOnly ==
  ASSUME NEW o \in Slots, NEW k \in Book!Slab, NEW st \in {"Open", "Filled", "Cancelled"}
  PROVE  LET n == Restated(o, k, st)
         IN /\ n \in Slots /\ \A x \in Book!Slab : n[x].price = o[x].price
            /\ \A s \in Seq(Book!Slab) : \A side : Good(o, s, side) /\ ~In(k, s) => Good(n, s, side)
  <1> DEFINE n == Restated(o, k, st)
             r == [o[k] EXCEPT !.status = st]
  <1>1. n = [x \in Book!Slab |-> IF x = k THEN r ELSE o[x]] /\ o[k] \in Order
    BY DEF Slots, Restated
  <1>2. r \in Order /\ r.price = o[k].price
    BY <1>1 DEF Order
  <1> HIDE DEF n, r
  <1>3. n \in Slots /\ n[k] = r /\ \A x \in Book!Slab : x # k => n[x] = o[x]
    BY <1>1, <1>2 DEF Slots
  <1>4. ASSUME NEW s \in Seq(Book!Slab), NEW side, Good(o, s, side), ~In(k, s) PROVE Good(n, s, side)
    <2>1. \A x : In(x, s) => x \in Book!Slab /\ x # k
      BY <1>4 DEF In
    <2>2. \A x : In(x, s) => n[x] = o[x] /\ Live(n, x, side)
      BY <1>3, <1>4, <2>1 DEF Good, Live, Left
    <2> QED
      BY <1>4, <2>2, GoodSame
  <1> QED
    BY <1>2, <1>3, <1>4 DEF n

(* The last order of a side has its best price. *)
LEMMA LastIsBest ==
  ASSUME NEW o \in Slots, NEW s \in Seq(Book!Slab), NEW side \in Sides, Good(o, s, side), NEW x, In(x, s)
  PROVE  /\ s # << >>
         /\ IF side = "Buy" THEN o[x].price <= o[Book!Last(s)].price ELSE o[x].price >= o[Book!Last(s)].price
  <1>1. PICK p \in 1..Len(s) : s[p] = x
    BY DEF In
  <1>2. s # << >>
    BY <1>1
  <1>3. Book!Last(s) = s[Len(s)] /\ Len(s) \in 1..Len(s) /\ Book!Last(s) \in Book!Slab /\ x \in Book!Slab
    BY <1>1, <1>2, LastOff
  <1>4. o[x] \in Order /\ o[s[Len(s)]] \in Order
    BY <1>3 DEF Slots
  <1>5. p # Len(s) => ~Worse(o, s[Len(s)], s[p], side)
    BY <1>1, <1>3 DEF Good, Sorted
  <1>6. CASE p = Len(s)
    BY <1>1, <1>2, <1>3, <1>4, <1>6 DEF Order
  <1>7. CASE p # Len(s)
    BY <1>1, <1>2, <1>3, <1>4, <1>5, <1>7 DEF Order, Worse, Sides
  <1> QED
    BY <1>6, <1>7

LEMMA RestsOne ==
  ASSUME orders \in Slots, NEW f, NEW s, NEW t, NEW k \in Book!Slab, Places(f, s, t, k),
         NEW side, Good(orders, s, side), orders[k].status = "Open", Left(orders, k) > 0, orders[k].side = side,
         NEW p \in Book!insertPoints(s, k, side)
  PROVE  LET u == Book!InsertAt(s, p, k)
         IN /\ Places(f, u, t, -1) /\ Good(orders, u, side) /\ \A x : In(x, u) <=> In(x, s) \/ x = k
  <1>1. s \in Seq(Book!Slab) /\ Sorted(orders, s, side)
    BY DEF Places, Good
  <1>2. /\ p \in 1..Len(s) + 1
        /\ \A r \in 1..Len(s) : r < p => ~Worse(orders, k, s[r], side)
        /\ \A r \in 1..Len(s) : r >= p => ~Worse(orders, s[r], k, side)
    BY <1>1, PointsFit
  <1>3. Live(orders, k, side)
    BY DEF Live
  <1>4. Good(orders, Book!InsertAt(s, p, k), side)
    BY <1>1, <1>2, <1>3, GoodInserted
  <1>5. Places(f, Book!InsertAt(s, p, k), t, -1)
    BY <1>2, PlacesRested
  <1>6. \A x : In(x, Book!InsertAt(s, p, k)) <=> In(x, s) \/ x = k
    BY <1>1, <1>2, Inserted
  <1> QED
    BY <1>4, <1>5, <1>6

LEMMA RestKeeps ==
  ASSUME BookInv, Book!rest
  PROVE  BookInv'
  <1>1. /\ orders \in Slots /\ Places(freeList, bids, asks, taker) /\ Good(orders, bids, "Buy") /\ Good(orders, asks, "Sell")
        /\ ~Crossed(orders, bids, asks) /\ currentTime \in Int /\ nextOrderId \in Nat
        /\ taker # -1 /\ orders[taker].status = "Open" /\ Left(orders, taker) >= 0
    BY DEF BookInv, Slab, Book!rest, Book!Untaken
  <1>2. taker \in Book!Slab /\ bids \in Seq(Book!Slab) /\ asks \in Seq(Book!Slab) /\ ~In(taker, bids) /\ ~In(taker, asks)
    BY <1>1 DEF Places
  <1>3. orders[taker].side \in Sides
    BY <1>1, <1>2 DEF Slots, Order
  <1>4. taker' = -1 /\ nextOrderId' = nextOrderId /\ currentTime' = currentTime /\ ~Book!matching
    BY DEF Book!rest, Book!Untaken
  <1>5. \A x : In(x, bids) \/ In(x, asks) => x \in Book!Slab
    BY <1>2 DEF In
  <1>6. \A x \in Book!Slab : orders[x].price \in Int
    BY <1>1 DEF Slots, Order
  <1>7. CASE ~(Left(orders, taker) > 0)
    <2>1. /\ orders' = Restated(orders, taker, "Filled") /\ UNCHANGED <<bids, asks>>
          /\ freeList' = Append(freeList, taker)
      BY <1>7, BookLeft DEF Book!rest, Book!freeAfter, Restated
    <2>2. Places(freeList', bids', asks', -1)
      BY <1>1, <1>2, <2>1, PlacesDropped
    <2>3. /\ orders' \in Slots /\ \A x \in Book!Slab : orders'[x].price = orders[x].price
          /\ Good(orders', bids', "Buy") /\ Good(orders', asks', "Sell")
      BY <1>1, <1>2, <2>1, StatusOnly
    <2>4. ~Crossed(orders', bids', asks')
      BY <1>1, <1>5, <2>1, <2>3 DEF Crossed
    <2>5. Slab(orders', freeList', bids', asks', taker')
      BY <1>4, <2>2, <2>3, <2>4 DEF Slab
    <2> QED
      BY <1>1, <1>4, <2>5, BookNext
  <1>8. CASE Left(orders, taker) > 0 /\ orders[taker].side = "Buy"
    <2>1. PICK p \in Book!insertPoints(bids, taker, "Buy") :
            /\ bids' = Book!InsertAt(bids, p, taker) /\ asks' = asks /\ orders' = orders /\ freeList' = freeList
      BY <1>8, BookLeft DEF Book!rest, Book!freeAfter, Book!book, Book!setBook
    <2>2. /\ Places(freeList, bids', asks, -1) /\ Good(orders, bids', "Buy")
          /\ \A x : In(x, bids') <=> In(x, bids) \/ x = taker
      BY <1>1, <1>2, <1>8, <2>1, RestsOne
    <2>3. asks # << >> => orders[Book!Last(asks)].price > orders[taker].price
      <3>1. asks # << >> => ~Book!canMatch(Book!Last(asks), taker)
        BY <1>1, <1>4, <1>8, BookLeft DEF Book!matching, Book!opposite, Book!book, Book!Untaken
      <3>2. asks # << >> => Book!Last(asks) \in Book!Slab
        BY <1>2, LastOff
      <3> QED
        BY <1>2, <1>6, <1>8, <3>1, <3>2 DEF Book!canMatch
    <2>4. ASSUME NEW y, In(y, asks), orders[taker].price >= orders[y].price PROVE FALSE
      <3>1. asks # << >> /\ orders[y].price >= orders[Book!Last(asks)].price
        BY <1>1, <1>2, <2>4, LastIsBest DEF Sides
      <3>2. Book!Last(asks) \in Book!Slab /\ y \in Book!Slab
        BY <1>2, <1>5, <2>4, <3>1, LastOff
      <3> QED
        BY <1>2, <1>6, <2>3, <2>4, <3>1, <3>2
    <2>5. ~Crossed(orders, bids', asks)
      BY <1>1, <2>2, <2>4 DEF Crossed
    <2>6. Slab(orders', freeList', bids', asks', taker')
      BY <1>1, <1>4, <2>1, <2>2, <2>5 DEF Slab
    <2> QED
      BY <1>1, <1>4, <2>6, BookNext
  <1>9. CASE Left(orders, taker) > 0 /\ orders[taker].side = "Sell"
    <2>1. PICK p \in Book!insertPoints(asks, taker, "Sell") :
            /\ asks' = Book!InsertAt(asks, p, taker) /\ bids' = bids /\ orders' = orders /\ freeList' = freeList
      BY <1>9, BookLeft DEF Book!rest, Book!freeAfter, Book!book, Book!setBook
    <2>2. Places(freeList, asks, bids, taker)
      BY <1>1, PlacesSymmetric
    <2>3. /\ Places(freeList, asks', bids, -1) /\ Good(orders, asks', "Sell")
          /\ \A x : In(x, asks') <=> In(x, asks) \/ x = taker
      BY <1>1, <1>2, <1>9, <2>1, <2>2, RestsOne
    <2>4. Places(freeList, bids, asks', -1)
      BY <2>3, PlacesSymmetric
    <2>5. bids # << >> => orders[Book!Last(bids)].price < orders[taker].price
      <3>1. bids # << >> => ~Book!canMatch(Book!Last(bids), taker)
        BY <1>1, <1>4, <1>9, BookLeft DEF Book!matching, Book!opposite, Book!book, Book!Untaken
      <3>2. bids # << >> => Book!Last(bids) \in Book!Slab
        BY <1>2, LastOff
      <3> QED
        BY <1>2, <1>6, <1>9, <3>1, <3>2 DEF Book!canMatch
    <2>6. ASSUME NEW x, In(x, bids), orders[x].price >= orders[taker].price PROVE FALSE
      <3>1. bids # << >> /\ orders[x].price <= orders[Book!Last(bids)].price
        BY <1>1, <1>2, <2>6, LastIsBest DEF Sides
      <3>2. Book!Last(bids) \in Book!Slab /\ x \in Book!Slab
        BY <1>2, <1>5, <2>6, <3>1, LastOff
      <3> QED
        BY <1>2, <1>6, <2>5, <2>6, <3>1, <3>2
    <2>7. ~Crossed(orders, bids, asks')
      BY <1>1, <2>3, <2>6 DEF Crossed
    <2>8. Slab(orders', freeList', bids', asks', taker')
      BY <1>1, <1>4, <2>1, <2>3, <2>4, <2>7 DEF Slab
    <2> QED
      BY <1>1, <1>4, <2>8, BookNext
  <1> QED
    BY <1>3, <1>7, <1>8, <1>9 DEF Sides

LEMMA CancelsOne ==
  ASSUME NEW o \in Slots, NEW f, NEW s, NEW t, Places(f, s, t, -1), NEW a, NEW b, Good(o, s, a), Good(o, t, b),
         NEW p \in 1..Len(s)
  PROVE  LET n == Restated(o, s[p], "Cancelled")
             u == Book!RemoveAt(s, p)
         IN /\ n \in Slots /\ Places(Append(f, s[p]), u, t, -1) /\ Good(n, u, a) /\ Good(n, t, b)
            /\ \A x : In(x, u) => In(x, s)
            /\ \A x \in Book!Slab : n[x].price = o[x].price
  <1> DEFINE y == s[p]
             u == Book!RemoveAt(s, p)
             n == Restated(o, y, "Cancelled")
  <1>1. /\ s \in Seq(Book!Slab) /\ t \in Seq(Book!Slab) /\ Distinct(s) /\ Apart(s, t) /\ y \in Book!Slab /\ In(y, s)
    BY DEF Places, In
  <1>2. u \in Seq(Book!Slab) /\ ~In(y, u) /\ \A x : In(x, u) => In(x, s)
    BY <1>1, Removed
  <1>3. Places(Append(f, y), u, t, -1) /\ Good(o, u, a)
    BY <1>1, PlacesFreed, GoodRemoved
  <1>4. ~In(y, t)
    BY <1>1 DEF Apart
  <1> HIDE DEF u, y
  <1>5. /\ n \in Slots /\ \A x \in Book!Slab : n[x].price = o[x].price
        /\ \A r \in Seq(Book!Slab) : \A side : Good(o, r, side) /\ ~In(y, r) => Good(n, r, side)
    BY <1>1, StatusOnly
  <1> HIDE DEF n
  <1>6. Good(n, u, a) /\ Good(n, t, b)
    BY <1>1, <1>2, <1>3, <1>4, <1>5
  <1> QED
    BY <1>2, <1>3, <1>5, <1>6 DEF u, y, n

LEMMA CancelKeeps ==
  ASSUME BookInv, NEW p, NEW side \in Sides, Book!cancelOrder(p, side)
  PROVE  BookInv'
  <1>1. /\ orders \in Slots /\ Places(freeList, bids, asks, -1) /\ Good(orders, bids, "Buy") /\ Good(orders, asks, "Sell")
        /\ ~Crossed(orders, bids, asks) /\ currentTime' \in Int /\ nextOrderId' \in Nat /\ taker' = -1
    BY DEF BookInv, Slab, Book!cancelOrder, Book!Untaken
  <1>2. \A x : In(x, bids) \/ In(x, asks) => x \in Book!Slab
    BY <1>1 DEF In, Places
  <1>3. CASE side = "Buy"
    <2>1. /\ p \in 1..Len(bids) /\ orders' = Restated(orders, bids[p], "Cancelled")
          /\ freeList' = Append(freeList, bids[p]) /\ bids' = Book!RemoveAt(bids, p) /\ asks' = asks
      BY <1>3 DEF Book!cancelOrder, Book!book, Book!setBook, Restated
    <2>2. /\ orders' \in Slots /\ Places(freeList', bids', asks, -1) /\ Good(orders', bids', "Buy") /\ Good(orders', asks, "Sell")
          /\ \A x : In(x, bids') => In(x, bids)
          /\ \A x \in Book!Slab : orders'[x].price = orders[x].price
      BY <1>1, <2>1, CancelsOne
    <2>3. ~Crossed(orders', bids', asks)
      BY <1>1, <1>2, <2>2 DEF Crossed
    <2>4. Slab(orders', freeList', bids', asks', taker')
      BY <1>1, <2>1, <2>2, <2>3 DEF Slab
    <2> QED
      BY <1>1, <2>4, BookNext
  <1>4. CASE side = "Sell"
    <2>1. /\ p \in 1..Len(asks) /\ orders' = Restated(orders, asks[p], "Cancelled")
          /\ freeList' = Append(freeList, asks[p]) /\ asks' = Book!RemoveAt(asks, p) /\ bids' = bids
      BY <1>4 DEF Book!cancelOrder, Book!book, Book!setBook, Restated
    <2>2. Places(freeList, asks, bids, -1)
      BY <1>1, PlacesSymmetric
    <2>3. /\ orders' \in Slots /\ Places(freeList', asks', bids, -1) /\ Good(orders', asks', "Sell") /\ Good(orders', bids, "Buy")
          /\ \A x : In(x, asks') => In(x, asks)
          /\ \A x \in Book!Slab : orders'[x].price = orders[x].price
      BY <1>1, <2>1, <2>2, CancelsOne
    <2>4. Places(freeList', bids, asks', -1)
      BY <2>3, PlacesSymmetric
    <2>5. ~Crossed(orders', bids, asks')
      BY <1>1, <1>2, <2>3 DEF Crossed
    <2>6. Slab(orders', freeList', bids', asks', taker')
      BY <1>1, <2>1, <2>3, <2>4, <2>5 DEF Slab
    <2> QED
      BY <1>1, <2>6, BookNext
  <1> QED
    BY <1>3, <1>4 DEF Sides

LEMMA SetTimeKeeps ==
  ASSUME BookInv, NEW now \in Int, Book!setTime(now)
  PROVE  BookInv'
  <1>1. UNCHANGED <<orders, freeList, bids, asks, taker, nextOrderId>> /\ currentTime' \in Int
    BY DEF Book!setTime
  <1>2. Slab(orders', freeList', bids', asks', taker') /\ nextOrderId' \in Nat
    BY <1>1 DEF BookInv
  <1> QED
    BY <1>1, <1>2, BookNext

LEMMA BookStep ==
  ASSUME BookInv, [Book!Next]_(Book!bookVars)
  PROVE  BookInv'
  <1>1. CASE UNCHANGED Book!bookVars
    <2>1. UNCHANGED <<orders, freeList, bids, asks, taker, nextOrderId, currentTime>>
      BY <1>1 DEF Book!bookVars
    <2>2. Slab(orders', freeList', bids', asks', taker') /\ nextOrderId' \in Nat /\ currentTime' \in Int
      BY <2>1 DEF BookInv
    <2> QED
      BY <2>2, BookNext
  <1>2. ASSUME NEW now \in 0..MaxTime, Book!setTime(now) PROVE BookInv'
    BY <1>2, SetTimeKeeps, BookAssumption
  <1>3. ASSUME NEW price \in 1..MaxPrice, NEW quantity \in 1..MaxQuantity, NEW side \in {"Buy", "Sell"},
               Book!placeOrder(price, quantity, side)
        PROVE  BookInv'
    <2>1. price \in Int /\ quantity \in Nat /\ side \in Sides
      BY BookAssumption DEF Sides
    <2> QED
      BY <1>3, <2>1, PlaceKeeps
  <1>4. ASSUME NEW p, NEW side \in {"Buy", "Sell"}, Book!cancelOrder(p, side) PROVE BookInv'
    BY <1>4, CancelKeeps DEF Sides
  <1> QED
    BY <1>1, <1>2, <1>3, <1>4, FillKeeps, RestKeeps DEF Book!Next

LEMMA BookInit ==
  ASSUME Book!Init
  PROVE  BookInv
  <1>1. /\ freeList = [i \in 1..SlabCapacity |-> SlabCapacity - i]
        /\ bids = << >> /\ asks = << >> /\ taker = -1 /\ currentTime \in Int /\ nextOrderId \in Nat
    BY DEF Book!Init, Book!Untaken
  <1>2. \A i \in 1..SlabCapacity : SlabCapacity - i \in Book!Slab
    BY BookAssumption DEF Book!Slab
  <1>3. freeList \in Seq(Book!Slab) /\ Len(freeList) = SlabCapacity
    BY <1>1, <1>2, BookAssumption
  <1>4. \A i \in 1..SlabCapacity : freeList[i] = SlabCapacity - i
    BY <1>1
  <1>5. Distinct(freeList)
    BY <1>3, <1>4, BookAssumption DEF Distinct
  <1>6. ASSUME NEW x \in Book!Slab PROVE In(x, freeList)
    <2>1. SlabCapacity - x \in 1..SlabCapacity /\ SlabCapacity - (SlabCapacity - x) = x
      BY BookAssumption DEF Book!Slab
    <2> QED
      BY <1>3, <1>4, <2>1 DEF In
  <1>7. ~In(-1, freeList)
    BY <1>3, SlabIsNat DEF In
  <1>8. \A x : ~In(x, << >>)
    BY DEF In
  <1>9. << >> \in Seq(Book!Slab) /\ Len(<< >>) = 0 /\ Distinct(<< >>)
    BY DEF Distinct
  <1>10. Len(freeList) + 0 + 0 + 0 = SlabCapacity
    BY <1>3, BookAssumption
  <1>11. Places(freeList, << >>, << >>, -1)
    BY <1>3, <1>5, <1>6, <1>7, <1>8, <1>9, <1>10 DEF Places, Apart
  <1>12. \A side : Good(orders, << >>, side)
    BY <1>8, <1>9 DEF Good, Sorted
  <1>13. orders \in Slots
    BY DEF Book!Init, Slots, Order, Sides
  <1>14. ~Crossed(orders, << >>, << >>)
    BY <1>8 DEF Crossed
  <1> QED
    BY <1>1, <1>11, <1>12, <1>13, <1>14 DEF BookInv, Slab

LEMMA InConcat ==
  ASSUME NEW a \in Seq(Book!Slab), NEW b \in Seq(Book!Slab), NEW x
  PROVE  In(x, a \o b) <=> In(x, a) \/ In(x, b)
  <1> DEFINE c == a \o b
  <1>1. /\ Len(c) = Len(a) + Len(b) /\ Len(a) \in Nat /\ Len(b) \in Nat
        /\ \A i \in 1..Len(a) + Len(b) : c[i] = IF i <= Len(a) THEN a[i] ELSE b[i - Len(a)]
    BY Concat
  <1> HIDE DEF c
  <1>2. ASSUME In(x, c) PROVE In(x, a) \/ In(x, b)
    <2>1. PICK i \in 1..Len(c) : c[i] = x
      BY <1>2 DEF In
    <2>2. i <= Len(a) => i \in 1..Len(a) /\ a[i] = x
      BY <1>1, <2>1
    <2>3. ~(i <= Len(a)) => i - Len(a) \in 1..Len(b) /\ b[i - Len(a)] = x
      BY <1>1, <2>1
    <2> QED
      BY <2>2, <2>3 DEF In
  <1>3. ASSUME In(x, a) PROVE In(x, c)
    <2>1. PICK i \in 1..Len(a) : a[i] = x
      BY <1>3 DEF In
    <2>2. i \in 1..Len(c) /\ c[i] = x
      BY <1>1, <2>1
    <2> QED
      BY <2>2 DEF In
  <1>4. ASSUME In(x, b) PROVE In(x, c)
    <2>1. PICK i \in 1..Len(b) : b[i] = x
      BY <1>4 DEF In
    <2>2. i + Len(a) \in 1..Len(c) /\ ~(i + Len(a) <= Len(a)) /\ i + Len(a) - Len(a) = i
      BY <1>1, <2>1
    <2>3. c[i + Len(a)] = x
      BY <1>1, <2>1, <2>2
    <2> QED
      BY <2>2, <2>3 DEF In
  <1> QED
    BY <1>2, <1>3, <1>4 DEF c

LEMMA BookImplies ==
  ASSUME BookInv
  PROVE  Book!BookSound
  <1>1. /\ orders \in Slots /\ Places(freeList, bids, asks, taker) /\ Good(orders, bids, "Buy") /\ Good(orders, asks, "Sell")
        /\ ~Crossed(orders, bids, asks)
    BY DEF BookInv, Slab
  <1>2. freeList \in Seq(Book!Slab) /\ bids \in Seq(Book!Slab) /\ asks \in Seq(Book!Slab) /\ taker \in Book!Slab \union {-1}
    BY <1>1 DEF Places
  <1> DEFINE last == IF taker = -1 THEN << >> ELSE <<taker>>
             one == freeList \o bids
             two == one \o asks
             all == two \o last
  <1>3. Book!SlabPartition
    <2>1. last \in Seq(Book!Slab) /\ Len(last) = (IF taker = -1 THEN 0 ELSE 1)
          /\ \A x \in Book!Slab : In(x, last) <=> x = taker
      BY <1>2, SlabIsNat DEF In
    <2>2. one \in Seq(Book!Slab) /\ Len(one) = Len(freeList) + Len(bids)
      BY <1>2, Concat
    <2>3. \A x : In(x, one) <=> In(x, freeList) \/ In(x, bids)
      BY <1>2, InConcat
    <2> HIDE DEF last, one
    <2>4. two \in Seq(Book!Slab) /\ Len(two) = Len(one) + Len(asks)
      BY <1>2, <2>2, Concat
    <2>5. \A x : In(x, two) <=> In(x, one) \/ In(x, asks)
      BY <1>2, <2>2, InConcat
    <2> HIDE DEF two
    <2>6. all \in Seq(Book!Slab) /\ Len(all) = Len(two) + Len(last)
      BY <2>1, <2>4, Concat
    <2>7. \A x : In(x, all) <=> In(x, two) \/ In(x, last)
      BY <2>1, <2>4, InConcat
    <2> HIDE DEF all
    <2>8. Len(all) = SlabCapacity
      BY <1>1, <2>1, <2>2, <2>4, <2>6 DEF Places
    <2>9. \A x \in Book!Slab : In(x, all)
      BY <1>1, <2>1, <2>3, <2>5, <2>7 DEF Places
    <2>10. Book!ToSet(all) = Book!Slab
      BY <2>6, <2>9 DEF Book!ToSet, In
    <2> QED
      BY <2>8, <2>10 DEF Book!SlabPartition, Book!Untaken, all, two, one, last
  <1>4. Book!SidesSorted
    <2> SUFFICES ASSUME NEW side \in Sides, NEW p \in 1..Len(Book!book(side))
                 PROVE  LET x == Book!book(side)[p]
                        IN /\ orders[x].side = side /\ orders[x].status = "Open" /\ Book!remaining(x) > 0
                           /\ \A r \in 1..p - 1 : ~Book!worse(x, Book!book(side)[r], side)
      BY DEF Book!SidesSorted, Sides
    <2>1. Good(orders, Book!book(side), side)
      BY <1>1 DEF Book!book, Sides
    <2>2. In(Book!book(side)[p], Book!book(side))
      BY DEF In
    <2> QED
      BY <2>1, <2>2, BookLeft, BookWorse DEF Good, Live, Sorted
  <1>5. Book!Uncrossed
    <2> SUFFICES ASSUME bids # << >>, asks # << >> PROVE orders[Book!Last(bids)].price < orders[Book!Last(asks)].price
      BY DEF Book!Uncrossed
    <2>1. /\ In(Book!Last(bids), bids) /\ In(Book!Last(asks), asks)
          /\ Book!Last(bids) \in Book!Slab /\ Book!Last(asks) \in Book!Slab
      BY <1>2, LastOff
    <2>2. orders[Book!Last(bids)].price \in Int /\ orders[Book!Last(asks)].price \in Int
      BY <1>1, <2>1 DEF Slots, Order
    <2>3. ~(orders[Book!Last(bids)].price >= orders[Book!Last(asks)].price)
      BY <1>1, <2>1 DEF Crossed
    <2> QED
      BY <2>2, <2>3
  <1> QED
    BY <1>3, <1>4, <1>5 DEF Book!BookSound

(* Over any sequence of orders, fills, cancellations and clock settings, for a
   slab of any size: every index is free, in one side or with the taker, each
   side is sorted, and the book is uncrossed (order_book.rs). *)
THEOREM BookIsSound == MCSpec => []BookSound
  <1>1. MCInit => BookInv
    BY BookInit DEF MCInit
  <1>2. BookInv /\ [MCNext]_MCVars => BookInv'
    <2> SUFFICES ASSUME BookInv, [MCNext]_MCVars PROVE BookInv'
      OBVIOUS
    <2>1. [Book!Next]_(Book!bookVars)
      BY DEF MCNext, OutsideNext, MCVars, outsideVars, bookVars, Book!bookVars
    <2> QED
      BY <2>1, BookStep
  <1>3. BookInv => BookSound
    BY BookImplies DEF BookSound
  <1> QED
    BY <1>1, <1>2, <1>3, PTL DEF MCSpec
=============================================================================
