----------------------------- MODULE EidolonSwarm -----------------------------
(* Agents that warn each other over a BroadcastChannel,
   packages/soul/src/swarm/EidolonSwarm.ts with the DirtyTracker and the event
   bus it uses.  One agent per process, hence one bus per agent; the channel
   hands every open agent the messages in the order they were posted.  The marks
   of DirtyTracker are left out: nothing in the program reads or clears them. *)
EXTENDS Integers, Sequences

CONSTANTS
  Agents,
  DangerCooldown,   \* DANGER_COOLDOWN_MS, in ticks
  StalePeerTtl,     \* STALE_PEER_TTL_MS, in ticks
  PruneEvery,       \* PRUNE_EVERY_MESSAGES
  MaxEvents,        \* own traumas and closings, of all agents
  MaxNow

\* Half a minute, five minutes and a thousand messages in the code.
ASSUME SwarmAssumption ==
  /\ DangerCooldown \in Nat /\ StalePeerTtl \in Nat /\ DangerCooldown <= StalePeerTtl
  /\ PruneEvery \in Nat \ {0}

VARIABLES
  now, agent, wire, events,
  pruned,           \* whom an agent has dropped as stale and not met again
  traumaAt,         \* when an agent last suffered a trauma from each peer
  tooSoon           \* a trauma came less than a cooldown after one from the same peer

swarmVars == <<now, agent, wire, events, pruned, traumaAt, tooSoon>>

LongAgo == 0 - DangerCooldown - StalePeerTtl - 1

Blank ==
  [state |-> "absent", peers |-> {}, messageCount |-> 0,
   lastSeen |-> [p \in Agents |-> LongAgo],     \* peerHandles: LongAgo stands for none
   lastDanger |-> [p \in Agents |-> LongAgo]]   \* dangerRateLimit

Init ==
  /\ now = 0 /\ events = 0
  /\ agent = [a \in Agents |-> Blank]
  /\ wire = [a \in Agents |-> << >>]
  /\ pruned = [a \in Agents |-> {}]
  /\ traumaAt = [a \in Agents |-> [p \in Agents |-> LongAgo]]
  /\ tooSoon = FALSE

Open(a) == agent[a].state = "open"

Broadcast(wires, from, type) ==
  [a \in Agents |-> IF a # from /\ Open(a)
                    THEN Append(wires[a], [from |-> from, type |-> type])
                    ELSE wires[a]]

(* The constructor opens the channel and announces the agent. *)
joins(a) ==
  /\ agent[a].state = "absent"
  /\ agent' = [agent EXCEPT ![a].state = "open"]
  /\ wire' = Broadcast(wire, a, "DISCOVERY")
  /\ UNCHANGED <<now, events, pruned, traumaAt, tooSoon>>

(* A trauma of the agent's own is on its bus.  (Opportunities would be gossiped
   the same way, but nothing emits one.) *)
emits(a) ==
  /\ Open(a) /\ events < MaxEvents
  /\ events' = events + 1
  /\ wire' = Broadcast(wire, a, "DANGER")
  /\ UNCHANGED <<now, agent, pruned, traumaAt, tooSoon>>

(* Whom pruneStaleHandles forgets, on every PruneEvery-th message. *)
stalePeers(me) == {p \in Agents : me.lastSeen[p] > LongAgo /\ now - me.lastSeen[p] > StalePeerTtl}

touched(me, sender) ==
  [me EXCEPT !.lastSeen[sender] = now, !.messageCount = (@ + 1) % PruneEvery]

pruneStaleHandles(me) ==
  LET stale == IF me.messageCount = 0 THEN stalePeers(me) ELSE {}
      forget(times) == [p \in Agents |-> IF p \in stale THEN LongAgo ELSE times[p]]
  IN [me EXCEPT !.peers = @ \ stale, !.lastSeen = forget(@), !.lastDanger = forget(@)]

(* The stranger is not answered. *)
meets_silently(a, me, sender, wires) ==
  /\ agent' = [agent EXCEPT ![a] = [me EXCEPT !.peers = @ \union {sender}]]
  /\ wire' = wires

(* A stranger is met and answered, so that it meets this agent too. *)
meets(a, me, sender, wires) ==
  IF sender \in me.peers
  THEN /\ agent' = [agent EXCEPT ![a] = me]
       /\ wire' = wires
  ELSE /\ agent' = [agent EXCEPT ![a] = [me EXCEPT !.peers = @ \union {sender}]]
       /\ wire' = Broadcast(wires, a, "DISCOVERY")

(* A known peer's danger becomes a trauma on the own bus, at most one per
   cooldown; its source keeps it from being broadcast again. *)
suffers(me, sender) == sender \in me.peers /\ now - me.lastDanger[sender] >= DangerCooldown

handleMessage(a) ==
  LET msg == Head(wire[a])
      sender == msg.from
      rest == [wire EXCEPT ![a] = Tail(@)]
      before == touched(agent[a], sender)
      me == pruneStaleHandles(before)
      lost == before.peers \ me.peers
      trauma == msg.type = "DANGER" /\ suffers(me, sender)
  IN
  /\ Open(a) /\ wire[a] # << >>
  /\ IF msg.type = "DISCOVERY"
     THEN meets(a, me, sender, rest)
     ELSE /\ wire' = rest
          /\ agent' = [agent EXCEPT ![a] =
                         IF trauma THEN [me EXCEPT !.lastDanger[sender] = now] ELSE me]
  /\ pruned' = [pruned EXCEPT ![a] = (@ \union lost) \ agent'[a].peers]
  /\ traumaAt' = IF trauma THEN [traumaAt EXCEPT ![a][sender] = now] ELSE traumaAt
  /\ tooSoon' = (tooSoon \/ (trauma /\ now - traumaAt[a][sender] < DangerCooldown))
  /\ UNCHANGED <<now, events>>

(* The channel closes at once; what is under way to this agent is lost. *)
close(a) ==
  /\ Open(a) /\ events < MaxEvents
  /\ events' = events + 1
  /\ agent' = [agent EXCEPT ![a] = [Blank EXCEPT !.state = "closed"]]
  /\ wire' = [wire EXCEPT ![a] = << >>]
  /\ pruned' = [pruned EXCEPT ![a] = {}]
  /\ UNCHANGED <<now, traumaAt, tooSoon>>

(* A tick is half a minute: what is on the channel arrives within it. *)
tick ==
  /\ now < MaxNow
  /\ \A a \in Agents : wire[a] = << >>
  /\ now' = now + 1
  /\ UNCHANGED <<agent, wire, events, pruned, traumaAt, tooSoon>>

Next ==
  \/ \E a \in Agents :
       joins(a) \/ emits(a) \/ handleMessage(a) \/ close(a)
  \/ tick

Spec == Init /\ [][Next]_swarmVars

(* Once no announcement is under way, two open agents know each other whatever
   the order in which they joined, except whom one of them has pruned.  (Nothing
   but a new announcement heals a pruned peer: its warnings are ignored.) *)
QuietMeansMutual ==
  (\A a \in Agents : \A i \in DOMAIN wire[a] : wire[a][i].type # "DISCOVERY")
    => \A a, b \in Agents : Open(a) /\ Open(b) /\ a # b => b \in agent[a].peers \union pruned[a]

(* No peer makes an agent suffer twice within a cooldown, although pruning
   forgets when it last did and a new announcement makes them peers again. *)
OneTraumaPerCooldown == ~tooSoon
=============================================================================
