------------------------------ MODULE EidolonBus ------------------------------
(* The event bus every part of an agent shares, packages/core/src/events: an
   event emitted by a listener waits until the current one is delivered, every
   event is pushed to a ring that counts what it cannot hold.  Listeners run one
   after the other; one of them may emit, unsubscribe another one, or throw. *)
EXTENDS Integers, Sequences, SequencesExt

CONSTANTS
  Listeners,
  Capacity,     \* of the ring
  MaxEmitted    \* events, numbered in the order of their emission

VARIABLES
  subscribed,       \* the listeners in the order of their subscription
  pendingQueue, isDraining,
  calls,            \* listeners emit() still has to call for the current event
  ringCount, overflowCount, droppedEvents,
  emitted, processed,
  stranded          \* events a throw has left in pendingQueue

busVars == <<subscribed, pendingQueue, isDraining, calls, ringCount, overflowCount,
             droppedEvents, emitted, processed, stranded>>

Init ==
  /\ subscribed \in SetToSeqs(Listeners)
  /\ pendingQueue = << >> /\ isDraining = FALSE /\ calls = << >>
  /\ ringCount = 0 /\ overflowCount = 0 /\ droppedEvents = 0
  /\ emitted = 0 /\ processed = << >> /\ stranded = {}

(* EventRingBuffer.push, and the bus's own count of its refusals. *)
push ==
  IF ringCount < Capacity
  THEN /\ ringCount' = ringCount + 1
       /\ UNCHANGED <<overflowCount, droppedEvents>>
  ELSE /\ overflowCount' = overflowCount + 1 /\ droppedEvents' = droppedEvents + 1
       /\ UNCHANGED ringCount

(* Node calls the listeners there were when the event came up. *)
processEvent(event) ==
  /\ push
  /\ processed' = Append(processed, event)
  /\ calls' = subscribed

(* From outside of a delivery: the event goes first, even if older ones wait. *)
emitEvent ==
  /\ ~isDraining /\ emitted < MaxEmitted
  /\ emitted' = emitted + 1
  /\ isDraining' = TRUE
  /\ processEvent(emitted + 1)
  /\ UNCHANGED <<subscribed, pendingQueue, stranded>>

(* The next listener returns, having emitted an event or not. *)
returns(emits) ==
  /\ calls # << >>
  /\ calls' = Tail(calls)
  /\ emits => emitted < MaxEmitted
  /\ emitted' = IF emits THEN emitted + 1 ELSE emitted
  /\ pendingQueue' = IF emits THEN Append(pendingQueue, emitted + 1) ELSE pendingQueue
  /\ UNCHANGED <<subscribed, isDraining, ringCount, overflowCount, droppedEvents, processed, stranded>>

(* It removes a listener: the current delivery is not affected. *)
unsubscribes(l) ==
  /\ calls # << >> /\ Contains(subscribed, l)
  /\ calls' = Tail(calls)
  /\ subscribed' = SelectSeq(subscribed, LAMBDA other : other # l)
  /\ UNCHANGED <<pendingQueue, isDraining, ringCount, overflowCount, droppedEvents, emitted, processed,
                 stranded>>

(* It throws: the other listeners are not called, and what is queued stays. *)
throws ==
  /\ calls # << >>
  /\ calls' = << >>
  /\ isDraining' = FALSE
  /\ stranded' = stranded \union ToSet(pendingQueue)
  /\ UNCHANGED <<subscribed, pendingQueue, ringCount, overflowCount, droppedEvents, emitted, processed>>

drains_newest ==
  /\ isDraining /\ calls = << >> /\ pendingQueue # << >>
  /\ pendingQueue' = Front(pendingQueue)
  /\ processEvent(Last(pendingQueue))
  /\ UNCHANGED <<subscribed, isDraining, emitted, stranded>>

(* The loop of emitEvent takes the oldest waiting event. *)
drains ==
  /\ isDraining /\ calls = << >> /\ pendingQueue # << >>
  /\ pendingQueue' = Tail(pendingQueue)
  /\ processEvent(Head(pendingQueue))
  /\ UNCHANGED <<subscribed, isDraining, emitted, stranded>>

ends ==
  /\ isDraining /\ calls = << >> /\ pendingQueue = << >>
  /\ isDraining' = FALSE
  /\ UNCHANGED <<subscribed, pendingQueue, calls, ringCount, overflowCount, droppedEvents, emitted,
                 processed, stranded>>

Next ==
  \/ emitEvent \/ drains \/ ends \/ throws
  \/ \E emits \in BOOLEAN : returns(emits)
  \/ \E l \in Listeners : unsubscribes(l)

Spec == Init /\ [][Next]_busVars

(* Events are delivered once each and in the order of their emission, and none
   waits on an idle bus, unless a listener has thrown while it was waiting. *)
LateOnlyByThrow ==
  /\ \A i, j \in DOMAIN processed : i < j => processed[i] # processed[j]
  /\ \A i, j \in DOMAIN processed : i < j /\ processed[i] > processed[j] => processed[j] \in stranded
  /\ ~isDraining => 1..emitted = ToSet(processed) \union (ToSet(pendingQueue) \intersect stranded)

=============================================================================
