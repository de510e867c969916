---------------------------- MODULE MC_AgentWorld ----------------------------
(* The agent and the world it acts on: the guard, the event bus, two kinds of
   sensor, the replicated storage and the token checks of one agent; the price
   service, the swaps and the token scans; two contracts and the order book; the
   counts of tool calls and the circuit breaker of the packages.  They share no
   state, so they are checked side by side: `active' names the one that runs,
   the others stay in their first state. *)
EXTENDS Integers, SequencesExt

CONSTANTS
  Components,
  Validations, Actions, GuardTtl, GuardClock, MaxInputs,                 \* EidolonGuard
  Listeners, RingCapacity, MaxEmitted,                                   \* EidolonBus
  MaxSockets,                                                            \* MarketStream
  Prices,                                                                \* PriceSensors
  Savers, MaxSaves, MaxFaults,                                           \* GreenfieldAdapter
  Taxes,                                                                 \* AntiRug
  Callers, Ttl, MaxAsk, MaxTick,                                         \* PriceService
  Ops, Amounts, Losses,                                                  \* DefiTx
  Scans, Tokens, Findings, ScanTtl, CacheSize, MaxScan, ScanClock,       \* SecurityScan
  Executors, Owner, MaxValue, MaxCalls, MaxBalance,                      \* BatchExecutor
  Holders, Callees, Minters, BadgeTypes, MaxTokens, MaxDepth,            \* DynamicBadge
  SlabCapacity, MaxPrice, MaxQuantity, MaxTime, MaxOrders,               \* OrderBook
  RotateAt, Kinds, Recorders, ReadBack, MaxCount, MaxMissteps,           \* ToolTracker
  Firing, WindowSize, MinCalls, ThresholdPct, ResetTimeout               \* Resilience

ASSUME WindowAssumption == WindowSize \in Nat \ {0}
ASSUME GuardAssumption == GuardClock \in Nat \ {0} /\ GuardTtl \in Nat \ {0}
ASSUME PriceAssumption == Ttl \in Nat \ {0} /\ MaxAsk \in Nat
ASSUME PricesAssumption == Prices \subseteq Nat
ASSUME TaxesAssumption == Taxes \subseteq Nat
ASSUME AmountsAssumption == Amounts \subseteq Nat
ASSUME BadgeAssumption == "zero" \notin Holders /\ "none" \notin BadgeTypes /\ MaxTokens \in Nat
ASSUME SendersAssumption == IsFiniteSet(Executors)
ASSUME SavesAssumption == MaxSaves \in Nat
ASSUME BookAssumption == SlabCapacity \in Nat /\ MaxTime \in Nat /\ MaxPrice \in Nat /\ MaxQuantity \in Nat
ASSUME ReadBackAssumption == ReadBack \in Nat \ {0}
ASSUME ScanAssumption == {ScanTtl, MaxScan, ScanClock} \subseteq Nat /\ CacheSize \in Nat \ {0}

VARIABLES
  active,
  guardNow, snapshotTime, portfolio, nextRefresh, refreshing, refreshFailed, cortisolHigh,
  glucoseLow, since, blacklistedAt, scores, thinking, lastDecision, v, inputs,
  subscribed, pendingQueue, isDraining, toCall, ringCount, overflowCount, droppedEvents, emitted,
  processed, stranded,
  socket, ws, reconnectTimer, stopped,
  market, feed, feedTimer, disposed, pythPrice, readings,
  useLocalFallback, remoteCopy, localCopy, save, lockQueue, calls, mishapsLeft, home, concurrent,
  abandoned,
  flags, buyTax, sellTax, liquidity, lists,
  tick, settings, priceCache, query,
  ops, allowance, mempool,
  scanNow, reported, turned, scanCache, scan,
  authorizedExecutors, pendingRefunds, balance, tx, given, drained, overspent,
  authorizedMinters, nextTokenId, badgeTypes, ownerOf, ownerBadgeCounts, frames, undo,
  orders, freeList, bids, asks, nextOrderId, currentTime, taker,
  db, row, perfLog, records, hydrated, recorder, appending, misstepsLeft, acked, forgotten,
  breaker, window, resetIn, call

(* A market a buyer likes, and one nobody does. *)
Calm == [whaleFlow |-> "ACCUMULATING", gasPrice |-> "LOW", sentiment |-> "NEUTRAL",
         priceAction |-> "RANGING", liquidityDepth |-> "DEEP"]
Storm == [whaleFlow |-> "DUMPING", gasPrice |-> "HIGH", sentiment |-> "FEAR",
          priceAction |-> "DUMPING", liquidityDepth |-> "THIN"]

Guard == INSTANCE EidolonGuard WITH now <- guardNow, cache <- scores, Markets <- {Calm, Storm},
           Deltas <- {0, -10}, CacheTtl <- GuardTtl, MaxNow <- GuardClock
Bus == INSTANCE EidolonBus WITH calls <- toCall, Capacity <- RingCapacity
Stream == INSTANCE MarketStream
Sensors == INSTANCE PriceSensors
Greenfield == INSTANCE GreenfieldAdapter
Rug == INSTANCE AntiRug
Quotes == INSTANCE PriceService
Defi == INSTANCE DefiTx
Security == INSTANCE SecurityScan WITH now <- scanNow, CacheTtl <- ScanTtl, MaxNow <- ScanClock
Batch == INSTANCE BatchExecutor
Badge == INSTANCE DynamicBadge
Book == INSTANCE OrderBook WITH Capacity <- SlabCapacity
Tracker == INSTANCE ToolTracker
Fuse == INSTANCE Resilience

guardVars == <<guardNow, snapshotTime, portfolio, nextRefresh, refreshing, refreshFailed,
               cortisolHigh, glucoseLow, since, blacklistedAt, scores, thinking, lastDecision,
               v, inputs>>
busVars == <<subscribed, pendingQueue, isDraining, toCall, ringCount, overflowCount,
             droppedEvents, emitted, processed, stranded>>
streamVars == <<socket, ws, reconnectTimer, stopped>>
sensorVars == <<market, feed, feedTimer, disposed, pythPrice, readings>>
greenfieldVars == <<useLocalFallback, remoteCopy, localCopy, save, lockQueue, calls,
                    mishapsLeft, home, concurrent, abandoned>>
rugVars == <<flags, buyTax, sellTax, liquidity, lists>>
soulVars ==
  <<guardVars, busVars, streamVars, sensorVars, greenfieldVars, rugVars>>

priceVars == <<tick, settings, priceCache, query>>
defiVars == <<ops, allowance, mempool>>
scanVars == <<scanNow, reported, turned, scanCache, scan>>
batchVars == <<authorizedExecutors, pendingRefunds, balance, tx, given, drained, overspent>>
badgeVars ==
  <<authorizedMinters, nextTokenId, badgeTypes, ownerOf, ownerBadgeCounts, frames, undo>>
bookVars == <<orders, freeList, bids, asks, nextOrderId, currentTime, taker>>
outsideVars == <<priceVars, defiVars, scanVars, batchVars, badgeVars, bookVars>>

trackerVars == <<db, row, perfLog, records, hydrated, recorder, appending, misstepsLeft, acked,
                 forgotten>>
fuseVars == <<breaker, window, resetIn, call>>
helperVars == <<trackerVars, fuseVars>>

-----------------------------------------------------------------------------
(* One that never runs starts in one state. *)
MCInit ==
  /\ active \in Components
  /\ Guard!Init /\ Bus!Init /\ Stream!Init /\ Sensors!Init /\ Greenfield!Init
  /\ Rug!Init /\ Quotes!Init /\ Defi!Init /\ Security!Init /\ Batch!Init /\ Badge!Init
  /\ Book!Init /\ Tracker!Init /\ Fuse!Init
  /\ active # "bus" => subscribed = SetToSeq(Listeners)
  /\ active # "sensors" => market = Min(Prices)
  /\ active # "storage" => useLocalFallback
  /\ active # "token" => lists = {}
  /\ active # "price" => settings.oracle /\ settings.strict /\ settings.fallback
  /\ active # "tools" => db
  /\ active # "scan" => \A t \in Tokens : reported[t] = {"unlisted"}

SoulNext ==
  \/ active = "guard" /\ Guard!Next
     /\ UNCHANGED <<busVars, streamVars, sensorVars, greenfieldVars, rugVars>>
  \/ active = "bus" /\ Bus!Next
     /\ UNCHANGED <<guardVars, streamVars, sensorVars, greenfieldVars, rugVars>>
  \/ active = "stream" /\ Stream!Next
     /\ UNCHANGED <<guardVars, busVars, sensorVars, greenfieldVars, rugVars>>
  \/ active = "sensors" /\ Sensors!Next
     /\ UNCHANGED <<guardVars, busVars, streamVars, greenfieldVars, rugVars>>
  \/ active = "storage" /\ Greenfield!Next
     /\ UNCHANGED <<guardVars, busVars, streamVars, sensorVars, rugVars>>
  \/ active = "token" /\ Rug!Next
     /\ UNCHANGED <<guardVars, busVars, streamVars, sensorVars, greenfieldVars>>

OutsideNext ==
  \/ active = "price" /\ Quotes!Next
     /\ UNCHANGED <<defiVars, scanVars, batchVars, badgeVars, bookVars>>
  \/ active = "defi" /\ Defi!Next
     /\ UNCHANGED <<priceVars, scanVars, batchVars, badgeVars, bookVars>>
  \/ active = "scan" /\ Security!Next
     /\ UNCHANGED <<priceVars, defiVars, batchVars, badgeVars, bookVars>>
  \/ active = "batch" /\ Batch!Next
     /\ UNCHANGED <<priceVars, defiVars, scanVars, badgeVars, bookVars>>
  \/ active = "badge" /\ Badge!Next
     /\ UNCHANGED <<priceVars, defiVars, scanVars, batchVars, bookVars>>
  \/ active = "book" /\ Book!Next
     /\ UNCHANGED <<priceVars, defiVars, scanVars, batchVars, badgeVars>>

HelperNext ==
  \/ active = "tools" /\ Tracker!Next /\ UNCHANGED fuseVars
  \/ active = "breaker" /\ Fuse!Next /\ UNCHANGED trackerVars

MCNext ==
  /\ UNCHANGED active
  /\ \/ SoulNext /\ UNCHANGED <<outsideVars, helperVars>>
     \/ OutsideNext /\ UNCHANGED <<soulVars, helperVars>>
     \/ HelperNext /\ UNCHANGED <<soulVars, outsideVars>>

MCVars == <<active, soulVars, outsideVars, helperVars>>

MCSpec == MCInit /\ [][MCNext]_MCVars

-----------------------------------------------------------------------------
(* Properties: those of the modules, and nothing else. *)

(* The guard approves nothing in an emergency, and no purchase of a blacklisted
   token, but for what came after it looked; it goes blind only while a refresh
   runs or after one failed. *)
GuardSound == active = "guard" =>
  Guard!EmergencyActsAreRaces /\ Guard!BlacklistLagsByCache /\ Guard!BlindOnlyWhileRefreshing

(* An event is delivered late only when a listener threw. *)
LateOnlyByThrow == active = "bus" => Bus!LateOnlyByThrow

(* A stream that was not stopped is connected, or about to be. *)
NeverDead == active = "stream" => Stream!NeverDead

(* A price is answered only while the sensors that answered agree, and the feed
   is open or about to be. *)
SensorsSound == active = "sensors" => Sensors!MarketAgrees /\ Sensors!FeedAlive

(* Neither copy in the storage goes back behind a save it held, but for saves
   that ran beside each other and uploads that were given up. *)
CopyNeverGoesBack == active = "storage" => Greenfield!CopyNeverGoesBack

(* A worse report never lets a token pass. *)
WorseNeverPasses == [][active = "token" => Rug!worsens]_rugVars

(* A price older than its time in the cache means that its sources failed. *)
OldMeansOutage == active = "price" => Quotes!OldMeansOutage

(* An allowance that is left has a reason other than swaps that failed side by
   side. *)
LeftoverIsExplained == active = "defi" => Defi!LeftoverIsExplained

(* What a comment says of the emergency sale: it ignores slippage checks. *)
EmergencyIgnoresSlippage == active = "defi" => Defi!EmergencyIgnoresSlippage

(* A clean answer about a token is never older than its time to live and one
   scan. *)
CleanIsFresh == active = "scan" => Security!CleanIsFresh

(* The ether a batch executor holds is what it owes and was given, but for what
   was withdrawn or overspent. *)
BooksBalance == active = "batch" => Batch!BooksBalance

(* The counts of badges agree with who owns them, in the middle of a mint too. *)
CountsAreOwnership == active = "badge" => Badge!CountsAreOwnership

(* The order book leaks nothing, is sorted and uncrossed. *)
BookSound == active = "book" => Book!BookSound

(* No tool's count goes back behind a record() that returned, but for the log
   and the changes of storage the module names. *)
NothingForgotten == active = "tools" => Tracker!NothingForgotten

(* A half-open breaker has a call that will decide, and a closed one no reason
   to be open. *)
BreakerSound == active = "breaker" => Fuse!BreakerSound
=============================================================================
