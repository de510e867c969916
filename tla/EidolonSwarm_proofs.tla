------------------------ MODULE EidolonSwarm_proofs -------------------------
(* The swarm, for any number of agents, any times that DangerCooldown and
   StalePeerTtl stand for, and however often peers are pruned. *)
EXTENDS MC_EidolonSwarm, TLAPS

Peer == [state : {"absent", "open", "closed"}, peers : SUBSET Agents, messageCount : Nat,
         lastSeen : [Agents -> Int], lastDanger : [Agents -> Int]]

Message == [from : Agents, type : {"DISCOVERY", "DANGER"}]

TypeOK ==
  /\ now \in Nat /\ agent \in [Agents -> Peer] /\ wire \in [Agents -> Seq(Message)]
  /\ pruned \in [Agents -> SUBSET Agents] /\ traumaAt \in [Agents -> [Agents -> Int]] /\ tooSoon \in BOOLEAN

(* What is on the wire of an agent, and whether another announces itself there. *)
Sent(w, m) == \E i \in 1..Len(w) : w[i] = m
Announced(w, b) == Sent(w, [from |-> b, type |-> "DISCOVERY"])

(* Whoever has not joined is unknown to all. *)
Unborn(a) ==
  /\ agent[a].peers = {} /\ agent[a].lastSeen = [p \in Agents |-> LongAgo] /\ agent[a].lastDanger = [p \in Agents |-> LongAgo]
  /\ traumaAt[a] = [p \in Agents |-> LongAgo]
  /\ \A b \in Agents : a \notin agent[b].peers /\ \A m : Sent(wire[b], m) => m.from # a

Strangers == \A a \in Agents : agent[a].state = "absent" => Unborn(a)

(* Of two open agents the one knows the other, or has pruned it, or is about to
   be told of it. *)
Meets(a, b) ==
  \/ b \in agent[a].peers \union pruned[a]
  \/ Announced(wire[a], b)
  \/ Announced(wire[b], a) /\ a \notin agent[b].peers

Meeting == \A a, b \in Agents : Open(a) /\ Open(b) /\ a # b => Meets(a, b)

(* What an agent has forgotten of a peer was over a cooldown ago. *)
Remembers(seen, danger, hurt) ==
  /\ danger <= seen /\ seen <= now /\ LongAgo <= danger
  /\ danger = hurt \/ now - hurt >= DangerCooldown

Wary == \A a \in Agents : agent[a].state # "closed" =>
          \A p \in Agents : Remembers(agent[a].lastSeen[p], agent[a].lastDanger[p], traumaAt[a][p])

SwarmInv == TypeOK /\ Strangers /\ Meeting /\ Wary /\ ~tooSoon

-----------------------------------------------------------------------------
LEMMA Appended ==
  ASSUME NEW S, NEW w \in Seq(S), NEW m \in S
  PROVE  /\ Append(w, m) \in Seq(S) /\ Sent(Append(w, m), m)
         /\ \A x : Sent(w, x) => Sent(Append(w, m), x)
         /\ \A x : Sent(Append(w, m), x) => Sent(w, x) \/ x = m
  <1>1. /\ Append(w, m) \in Seq(S) /\ Len(Append(w, m)) = Len(w) + 1 /\ Len(w) \in Nat
        /\ \A i \in 1..Len(w) : Append(w, m)[i] = w[i]
        /\ Append(w, m)[Len(w) + 1] = m
    OBVIOUS
  <1> HIDE DEF Sent
  <1>2. Sent(Append(w, m), m)
    BY <1>1 DEF Sent
  <1>3. \A x : Sent(w, x) => Sent(Append(w, m), x)
    BY <1>1 DEF Sent
  <1>4. \A x : Sent(Append(w, m), x) => Sent(w, x) \/ x = m
    BY <1>1 DEF Sent
  <1> QED
    BY <1>1, <1>2, <1>3, <1>4

LEMMA Received ==
  ASSUME NEW S, NEW w \in Seq(S), w # << >>
  PROVE  /\ Head(w) \in S /\ Tail(w) \in Seq(S) /\ Sent(w, Head(w))
         /\ \A x : Sent(w, x) => Sent(Tail(w), x) \/ x = Head(w)
         /\ \A x : Sent(Tail(w), x) => Sent(w, x)
  <1>1. /\ Tail(w) \in Seq(S) /\ Len(Tail(w)) = Len(w) - 1 /\ Len(w) \in Nat /\ Len(w) >= 1
        /\ \A i \in 1..Len(Tail(w)) : Tail(w)[i] = w[i + 1]
        /\ Head(w) = w[1] /\ Head(w) \in S
    OBVIOUS
  <1>2. \A x : Sent(w, x) => Sent(Tail(w), x) \/ x = Head(w)
    <2> SUFFICES ASSUME NEW i \in 1..Len(w), i # 1 PROVE \E j \in 1..Len(Tail(w)) : Tail(w)[j] = w[i]
      BY <1>1 DEF Sent
    <2>1. i - 1 \in 1..Len(Tail(w)) /\ Tail(w)[i - 1] = w[i]
      BY <1>1
    <2> QED
      BY <2>1
  <1>3. \A x : Sent(Tail(w), x) => Sent(w, x)
    <2> SUFFICES ASSUME NEW j \in 1..Len(Tail(w)) PROVE \E i \in 1..Len(w) : w[i] = Tail(w)[j]
      BY DEF Sent
    <2>1. j + 1 \in 1..Len(w) /\ Tail(w)[j] = w[j + 1]
      BY <1>1
    <2> QED
      BY <2>1
  <1>4. Sent(w, Head(w))
    BY <1>1 DEF Sent
  <1> QED
    BY <1>1, <1>2, <1>3, <1>4

(* A broadcast reaches every other open agent and adds nothing but its message. *)
Spread(old, new, from, m) ==
  \A a \in Agents : \A x : /\ Sent(old[a], x) => Sent(new[a], x)
                           /\ Sent(new[a], x) => Sent(old[a], x) \/ x = m
                           /\ a # from /\ Open(a) => Sent(new[a], m)

LEMMA BroadcastSpreads ==
  ASSUME NEW wires \in [Agents -> Seq(Message)], NEW from \in Agents, NEW type \in {"DISCOVERY", "DANGER"}
  PROVE  /\ Broadcast(wires, from, type) \in [Agents -> Seq(Message)]
         /\ Spread(wires, Broadcast(wires, from, type), from, [from |-> from, type |-> type])
  <1> DEFINE m == [from |-> from, type |-> type]
             new == Broadcast(wires, from, type)
  <1>1. m \in Message
    BY DEF Message
  <1>2. \A a \in Agents : wires[a] \in Seq(Message)
    OBVIOUS
  <1>3. new = [a \in Agents |-> IF a # from /\ Open(a) THEN Append(wires[a], m) ELSE wires[a]]
    BY DEF Broadcast
  <1> HIDE DEF m, new
  <1>4. ASSUME NEW a \in Agents
        PROVE  /\ new[a] \in Seq(Message)
               /\ \A x : /\ Sent(wires[a], x) => Sent(new[a], x)
                         /\ Sent(new[a], x) => Sent(wires[a], x) \/ x = m
                         /\ a # from /\ Open(a) => Sent(new[a], m)
    <2>1. CASE a # from /\ Open(a)
      <3>1. new[a] = Append(wires[a], m)
        BY <1>3, <2>1
      <3> QED
        BY <3>1, <1>1, <1>2, Appended
    <2>2. CASE ~(a # from /\ Open(a))
      <3>1. new[a] = wires[a]
        BY <1>3, <2>2
      <3> QED
        BY <3>1, <1>2, <2>2
    <2> QED
      BY <2>1, <2>2
  <1>5. new \in [Agents -> Seq(Message)]
    <2>1. \A a \in Agents : new[a] \in Seq(Message)
      BY <1>4
    <2> QED
      BY <2>1, <1>3
  <1>6. Spread(wires, new, from, m)
    BY <1>4 DEF Spread
  <1> QED
    BY <1>5, <1>6 DEF m, new

-----------------------------------------------------------------------------
LEMMA Numbers ==
  /\ LongAgo \in Int /\ LongAgo < 0 /\ 0 - LongAgo >= DangerCooldown
  /\ DangerCooldown \in Nat /\ StalePeerTtl \in Nat /\ DangerCooldown <= StalePeerTtl
  BY SwarmAssumption DEF LongAgo

(* What an agent knows after a message has been noted and the stale forgotten. *)
LEMMA Forgets ==
  ASSUME SwarmInv, NEW a \in Agents, Open(a), NEW sender \in Agents
  PROVE  LET before == touched(agent[a], sender)
             me == pruneStaleHandles(before)
         IN /\ me \in Peer /\ me.state = "open"
            /\ before.peers = agent[a].peers /\ me.peers \subseteq agent[a].peers
            /\ \A p \in Agents : Remembers(me.lastSeen[p], me.lastDanger[p], traumaAt[a][p])
            /\ me.lastSeen[sender] = now
  <1> DEFINE before == touched(agent[a], sender)
             stale == IF before.messageCount = 0 THEN stalePeers(before) ELSE {}
             forget(times) == [p \in Agents |-> IF p \in stale THEN LongAgo ELSE times[p]]
             me == pruneStaleHandles(before)
  <1>0. agent[a] \in Peer /\ now \in Nat /\ traumaAt[a] \in [Agents -> Int]
    BY DEF SwarmInv, TypeOK
  <1>1. /\ before \in Peer /\ before.state = "open" /\ before.peers = agent[a].peers
        /\ before.lastSeen = [agent[a].lastSeen EXCEPT ![sender] = now]
        /\ before.lastDanger = agent[a].lastDanger
    <2>1. (agent[a].messageCount + 1) % PruneEvery \in Nat
      BY <1>0, SwarmAssumption DEF Peer
    <2> DEFINE count == (agent[a].messageCount + 1) % PruneEvery
    <2>2. before = [agent[a] EXCEPT !.lastSeen[sender] = now, !.messageCount = count]
      BY DEF touched
    <2> HIDE DEF count, before
    <2>3. before = [state |-> agent[a].state, peers |-> agent[a].peers, messageCount |-> count,
                    lastSeen |-> [agent[a].lastSeen EXCEPT ![sender] = now], lastDanger |-> agent[a].lastDanger]
      BY <1>0, <2>2 DEF Peer
    <2>4. [agent[a].lastSeen EXCEPT ![sender] = now] \in [Agents -> Int]
      BY <1>0 DEF Peer
    <2> QED
      BY <1>0, <2>1, <2>3, <2>4 DEF Peer, Open, count
  <1>2. stale \subseteq Agents /\ \A p \in stale : before.lastSeen[p] > LongAgo /\ now - before.lastSeen[p] > StalePeerTtl
    BY DEF stalePeers
  <1> HIDE DEF before
  <1>3. me = [before EXCEPT !.peers = @ \ stale, !.lastSeen = forget(@), !.lastDanger = forget(@)]
    BY DEF pruneStaleHandles
  <1> HIDE DEF stale
  <1>4. /\ me.peers = before.peers \ stale /\ me.state = "open"
        /\ me.lastSeen = forget(before.lastSeen) /\ me.lastDanger = forget(before.lastDanger)
        /\ me.messageCount = before.messageCount
        /\ me = [state |-> me.state, peers |-> me.peers, messageCount |-> me.messageCount,
                 lastSeen |-> me.lastSeen, lastDanger |-> me.lastDanger]
    BY <1>1, <1>3 DEF Peer
  <1>5. forget(before.lastSeen) \in [Agents -> Int] /\ forget(before.lastDanger) \in [Agents -> Int]
    BY <1>1, Numbers DEF Peer
  <1>6. me \in Peer
    BY <1>1, <1>4, <1>5 DEF Peer
  <1>7. sender \notin stale
    BY <1>0, <1>1, <1>2, Numbers DEF Peer
  <1>8. ASSUME NEW p \in Agents PROVE Remembers(me.lastSeen[p], me.lastDanger[p], traumaAt[a][p])
    <2> DEFINE seen == agent[a].lastSeen[p]
               danger == agent[a].lastDanger[p]
               hurt == traumaAt[a][p]
    <2>1. Remembers(seen, danger, hurt) /\ seen \in Int /\ danger \in Int /\ hurt \in Int
      BY <1>0 DEF SwarmInv, Wary, Open, Peer
    <2>2. before.lastSeen[p] = (IF p = sender THEN now ELSE seen) /\ before.lastDanger[p] = danger
      BY <1>0, <1>1 DEF Peer
    <2>3. /\ me.lastSeen[p] = (IF p \in stale THEN LongAgo ELSE before.lastSeen[p])
          /\ me.lastDanger[p] = (IF p \in stale THEN LongAgo ELSE danger)
      BY <1>4, <2>2
    <2> HIDE DEF seen, danger, hurt
    <2>4. CASE p \in stale
      <3>1. now - seen > StalePeerTtl /\ seen > LongAgo
        BY <1>2, <1>7, <2>2, <2>4
      <3>2. me.lastSeen[p] = LongAgo /\ me.lastDanger[p] = LongAgo
        BY <2>3, <2>4
      <3>3. now - hurt >= DangerCooldown
        BY <1>0, <2>1, <3>1, Numbers DEF Remembers
      <3> QED
        BY <1>0, <3>2, <3>3, Numbers DEF Remembers, hurt
    <2>5. CASE p \notin stale
      <3>1. me.lastSeen[p] = (IF p = sender THEN now ELSE seen) /\ me.lastDanger[p] = danger
        BY <2>2, <2>3, <2>5
      <3> QED
        BY <1>0, <2>1, <3>1 DEF Remembers, hurt
    <2> QED
      BY <2>4, <2>5
  <1>9. me.lastSeen[sender] = now
    BY <1>0, <1>1, <1>4, <1>7 DEF Peer
  <1> HIDE DEF me
  <1> QED
    BY <1>1, <1>4, <1>6, <1>8, <1>9 DEF me, before

LEMMA HandleKeeps ==
  ASSUME SwarmInv, NEW a \in Agents, handleMessage(a)
  PROVE  SwarmInv'
  <1> DEFINE msg == Head(wire[a])
             sender == msg.from
             rest == [wire EXCEPT ![a] = Tail(@)]
             before == touched(agent[a], sender)
             me == pruneStaleHandles(before)
             trauma == msg.type = "DANGER" /\ suffers(me, sender)
             hello == [from |-> a, type |-> "DISCOVERY"]
  <1>0. /\ now \in Nat /\ agent \in [Agents -> Peer] /\ wire \in [Agents -> Seq(Message)]
        /\ pruned \in [Agents -> SUBSET Agents] /\ traumaAt \in [Agents -> [Agents -> Int]] /\ ~tooSoon
        /\ Open(a) /\ wire[a] # << >> /\ wire[a] \in Seq(Message)
    BY DEF SwarmInv, TypeOK, handleMessage
  <1>1. /\ msg \in Message /\ sender \in Agents /\ Sent(wire[a], msg) /\ Tail(wire[a]) \in Seq(Message)
        /\ \A x : Sent(wire[a], x) => Sent(Tail(wire[a]), x) \/ x = msg
        /\ \A x : Sent(Tail(wire[a]), x) => Sent(wire[a], x)
    <2>1. Head(wire[a]) \in Message /\ Sent(wire[a], Head(wire[a])) /\ Tail(wire[a]) \in Seq(Message)
      BY <1>0, Received
    <2> QED
      BY <1>0, <2>1, Received DEF Message
  <1>2. /\ me \in Peer /\ me.state = "open" /\ before.peers = agent[a].peers /\ me.peers \subseteq agent[a].peers
        /\ \A p \in Agents : Remembers(me.lastSeen[p], me.lastDanger[p], traumaAt[a][p])
        /\ me.lastSeen[sender] = now
    <2> HIDE DEF sender
    <2> QED
      BY <1>0, <1>1, Forgets
  <1>3. /\ IF msg.type = "DISCOVERY"
           THEN meets(a, me, sender, rest)
           ELSE /\ wire' = rest
                /\ agent' = [agent EXCEPT ![a] = IF trauma THEN [me EXCEPT !.lastDanger[sender] = now] ELSE me]
        /\ pruned' = [pruned EXCEPT ![a] = (@ \union (before.peers \ me.peers)) \ agent'[a].peers]
        /\ traumaAt' = IF trauma THEN [traumaAt EXCEPT ![a][sender] = now] ELSE traumaAt
        /\ tooSoon' = (tooSoon \/ (trauma /\ now - traumaAt[a][sender] < DangerCooldown))
        /\ now' = now
    BY DEF handleMessage
  <1>4. rest \in [Agents -> Seq(Message)] /\ rest[a] = Tail(wire[a]) /\ \A b \in Agents : b # a => rest[b] = wire[b]
    BY <1>0, <1>1
  <1> HIDE DEF msg, sender, rest, before, me, trauma
  <1>5. ~trauma \/ (msg.type # "DISCOVERY" /\ now - traumaAt[a][sender] >= DangerCooldown)
    <2> SUFFICES ASSUME trauma PROVE msg.type # "DISCOVERY" /\ now - traumaAt[a][sender] >= DangerCooldown
      OBVIOUS
    <2>1. msg.type = "DANGER" /\ now - me.lastDanger[sender] >= DangerCooldown
      BY DEF trauma, suffers
    <2>2. Remembers(me.lastSeen[sender], me.lastDanger[sender], traumaAt[a][sender])
      BY <1>1, <1>2
    <2> QED
      BY <2>1, <2>2 DEF Remembers
  <1>6. PICK mine \in Peer :
          /\ agent' = [agent EXCEPT ![a] = mine] /\ mine.state = "open"
          /\ me.peers \subseteq mine.peers /\ mine.peers \subseteq me.peers \union {sender}
          /\ mine.lastSeen = me.lastSeen
          /\ mine.lastDanger = IF trauma THEN [me.lastDanger EXCEPT ![sender] = now] ELSE me.lastDanger
          /\ msg.type = "DISCOVERY" => sender \in mine.peers
          /\ msg.type # "DISCOVERY" => mine.peers = me.peers
    <2>1. CASE msg.type = "DISCOVERY" /\ sender \in me.peers
      <3>1. agent' = [agent EXCEPT ![a] = me]
        BY <1>3, <2>1 DEF meets
      <3> QED
        BY <1>2, <1>5, <2>1, <3>1
    <2>2. CASE msg.type = "DISCOVERY" /\ sender \notin me.peers
      <3> DEFINE mine == [me EXCEPT !.peers = @ \union {sender}]
      <3>1. agent' = [agent EXCEPT ![a] = mine]
        BY <1>3, <2>2 DEF meets
      <3>2. /\ mine \in Peer /\ mine.state = "open" /\ mine.peers = me.peers \union {sender}
            /\ mine.lastSeen = me.lastSeen /\ mine.lastDanger = me.lastDanger
        BY <1>1, <1>2 DEF Peer
      <3> HIDE DEF mine
      <3> QED
        BY <1>5, <2>2, <3>1, <3>2
    <2>3. CASE msg.type # "DISCOVERY" /\ trauma
      <3> DEFINE mine == [me EXCEPT !.lastDanger[sender] = now]
      <3>1. agent' = [agent EXCEPT ![a] = mine]
        BY <1>3, <2>3
      <3>2. /\ mine \in Peer /\ mine.state = "open" /\ mine.peers = me.peers /\ mine.lastSeen = me.lastSeen
            /\ mine.lastDanger = [me.lastDanger EXCEPT ![sender] = now]
        BY <1>0, <1>1, <1>2 DEF Peer
      <3> HIDE DEF mine
      <3> QED
        BY <2>3, <3>1, <3>2
    <2>4. CASE msg.type # "DISCOVERY" /\ ~trauma
      <3>1. agent' = [agent EXCEPT ![a] = me]
        BY <1>3, <2>4
      <3> QED
        BY <1>2, <2>4, <3>1
    <2> QED
      BY <2>1, <2>2, <2>3, <2>4
  <1>7. /\ wire' \in [Agents -> Seq(Message)]
        /\ \A b \in Agents : \A x : /\ Sent(rest[b], x) => Sent(wire'[b], x)
                                    /\ Sent(wire'[b], x) => Sent(rest[b], x) \/ x = hello
        /\ msg.type = "DISCOVERY" /\ sender \notin me.peers =>
             \A b \in Agents : b # a /\ Open(b) => Sent(wire'[b], hello)
    <2>1. CASE msg.type = "DISCOVERY" /\ sender \notin me.peers
      <3>1. wire' = Broadcast(rest, a, "DISCOVERY")
        BY <1>3, <2>1 DEF meets
      <3>2. Broadcast(rest, a, "DISCOVERY") \in [Agents -> Seq(Message)]
            /\ Spread(rest, Broadcast(rest, a, "DISCOVERY"), a, hello)
        BY <1>4, BroadcastSpreads
      <3> HIDE DEF hello
      <3> QED
        BY <3>1, <3>2 DEF Spread
    <2>2. CASE ~(msg.type = "DISCOVERY" /\ sender \notin me.peers)
      <3>1. wire' = rest
        BY <1>3, <2>2 DEF meets
      <3> QED
        BY <1>4, <2>2, <3>1
    <2> QED
      BY <2>1, <2>2
  <1>8. /\ agent' \in [Agents -> Peer] /\ agent'[a] = mine /\ \A b \in Agents : b # a => agent'[b] = agent[b]
        /\ agent[a].state = "open"
    BY <1>0, <1>6 DEF Open
  <1>9. /\ pruned' \in [Agents -> SUBSET Agents] /\ \A b \in Agents : b # a => pruned'[b] = pruned[b]
        /\ pruned'[a] = (pruned[a] \union (agent[a].peers \ me.peers)) \ mine.peers
    <2>1. agent[a].peers \subseteq Agents
      BY <1>0 DEF Peer
    <2> QED
      BY <1>0, <1>2, <1>3, <1>8, <2>1
  <1>10. traumaAt' \in [Agents -> [Agents -> Int]] /\ \A b \in Agents : b # a => traumaAt'[b] = traumaAt[b]
    BY <1>0, <1>1, <1>3
  <1>11. TypeOK' /\ ~tooSoon'
    <2>1. ~tooSoon'
      <3>1. now \in Int /\ traumaAt[a][sender] \in Int /\ DangerCooldown \in Int
        BY <1>0, <1>1, Numbers
      <3>2. ~(trauma /\ now - traumaAt[a][sender] < DangerCooldown)
        BY <1>5, <3>1
      <3> QED
        BY <1>0, <1>3, <3>2
    <2> QED
      BY <1>0, <1>3, <1>7, <1>8, <1>9, <1>10, <2>1 DEF TypeOK
  <1>12. Strangers'
    <2> SUFFICES ASSUME NEW c \in Agents, agent'[c].state = "absent" PROVE Unborn(c)'
      BY DEF Strangers
    <2>1. c # a /\ agent'[c] = agent[c] /\ traumaAt'[c] = traumaAt[c] /\ Unborn(c)
      BY <1>6, <1>8, <1>10 DEF SwarmInv, Strangers
    <2>2. sender # c
      BY <1>1, <2>1 DEF Unborn, sender
    <2>3. ASSUME NEW b \in Agents PROVE c \notin agent'[b].peers
      BY <1>2, <1>6, <1>8, <2>1, <2>2 DEF Unborn
    <2>4. ASSUME NEW b \in Agents, NEW x, Sent(wire'[b], x) PROVE x.from # c
      <3>1. Sent(wire[b], x) \/ x = hello
        BY <1>1, <1>4, <1>7, <2>4
      <3> QED
        BY <2>1, <3>1 DEF Unborn
    <2>5. Unborn(c)' <=> /\ agent'[c].peers = {} /\ agent'[c].lastSeen = [p \in Agents |-> LongAgo]
                         /\ agent'[c].lastDanger = [p \in Agents |-> LongAgo] /\ traumaAt'[c] = [p \in Agents |-> LongAgo]
                         /\ \A b \in Agents : c \notin agent'[b].peers /\ \A m : Sent(wire'[b], m) => m.from # c
      BY DEF Unborn, Sent
    <2> QED
      BY <2>1, <2>3, <2>4, <2>5 DEF Unborn
  <1>13. Meeting'
    <2> SUFFICES ASSUME NEW p \in Agents, NEW q \in Agents, agent'[p].state = "open", agent'[q].state = "open", p # q
                 PROVE  \/ q \in agent'[p].peers \union pruned'[p]
                        \/ Sent(wire'[p], [from |-> q, type |-> "DISCOVERY"])
                        \/ Sent(wire'[q], [from |-> p, type |-> "DISCOVERY"]) /\ p \notin agent'[q].peers
      BY DEF Meeting, Meets, Announced, Sent, Open
    <2>1. Open(p) /\ Open(q) /\ Meets(p, q)
      BY <1>8 DEF Open, SwarmInv, Meeting
    <2> DEFINE fromQ == [from |-> q, type |-> "DISCOVERY"]
               fromP == [from |-> p, type |-> "DISCOVERY"]
    <2>2. q \in agent[p].peers \union pruned[p] \/ Sent(wire[p], fromQ) \/ (Sent(wire[q], fromP) /\ p \notin agent[q].peers)
      BY <2>1 DEF Meets, Announced
    <2>3. CASE q \in agent[p].peers \union pruned[p]
      BY <1>2, <1>6, <1>8, <1>9, <2>3
    <2>4. CASE Sent(wire[p], fromQ)
      <3>1. Sent(rest[p], fromQ) \/ (p = a /\ fromQ = msg)
        BY <1>1, <1>4, <2>4
      <3>2. CASE p = a /\ fromQ = msg
        <4>1. msg.type = "DISCOVERY" /\ sender = q
          BY <3>2 DEF sender
        <4> QED
          BY <1>6, <1>8, <3>2, <4>1
      <3>3. CASE Sent(rest[p], fromQ)
        <4> HIDE DEF fromQ, hello
        <4>1. Sent(wire'[p], fromQ)
          BY <1>7, <3>3
        <4> QED
          BY <4>1 DEF fromQ
      <3> QED
        BY <3>1, <3>2, <3>3
    <2>5. CASE Sent(wire[q], fromP) /\ p \notin agent[q].peers
      <3>1. CASE q # a
        <4>1. agent'[q] = agent[q] /\ rest[q] = wire[q]
          BY <1>4, <1>8, <3>1
        <4> HIDE DEF fromP, hello
        <4>2. Sent(wire'[q], fromP)
          BY <1>7, <2>5, <4>1
        <4> QED
          BY <2>5, <4>1, <4>2 DEF fromP
      <3>2. CASE q = a /\ fromP = msg
        <4>1. msg.type = "DISCOVERY" /\ sender = p /\ p \notin me.peers
          BY <1>2, <2>5, <3>2 DEF sender
        <4>2. Sent(wire'[p], hello)
          BY <1>7, <2>1, <3>2, <4>1
        <4> QED
          BY <3>2, <4>2
      <3>3. CASE q = a /\ fromP # msg
        <4>1. Sent(rest[q], fromP)
          BY <1>1, <1>4, <2>5, <3>3
        <4>2. Sent(wire'[q], fromP)
          <5> HIDE DEF fromP, hello
          <5> QED
            BY <1>7, <4>1
        <4>3. CASE p \notin mine.peers
          BY <1>8, <3>3, <4>2, <4>3
        <4>4. CASE p \in mine.peers
          <5>1. sender = p /\ p \notin me.peers
            BY <1>2, <1>6, <2>5, <3>3, <4>4
          <5>2. msg.type = "DISCOVERY"
            BY <1>6, <4>4, <5>1
          <5>3. Sent(wire'[p], hello)
            BY <1>7, <2>1, <3>3, <5>1, <5>2
          <5> QED
            BY <3>3, <5>3
        <4> QED
          BY <4>3, <4>4
      <3> QED
        BY <3>1, <3>2, <3>3
    <2> QED
      BY <2>2, <2>3, <2>4, <2>5
  <1>14. Wary'
    <2> SUFFICES ASSUME NEW b \in Agents, agent'[b].state # "closed", NEW p \in Agents
                 PROVE  Remembers(agent'[b].lastSeen[p], agent'[b].lastDanger[p], traumaAt'[b][p])
      BY <1>3 DEF Wary, Remembers
    <2>1. CASE b # a
      BY <1>8, <1>10, <2>1 DEF SwarmInv, Wary
    <2>2. CASE b = a
      <3>1. Remembers(me.lastSeen[p], me.lastDanger[p], traumaAt[a][p])
        BY <1>2
      <3>2. me.lastDanger \in [Agents -> Int] /\ traumaAt[a] \in [Agents -> Int]
        BY <1>0, <1>2 DEF Peer
      <3>3. CASE trauma /\ p = sender
        <4>1. mine.lastSeen[p] = now /\ mine.lastDanger[p] = now /\ traumaAt'[a][p] = now
          BY <1>0, <1>2, <1>3, <1>6, <3>2, <3>3
        <4> QED
          BY <1>0, <1>8, <2>2, <4>1, Numbers DEF Remembers
      <3>4. CASE ~(trauma /\ p = sender)
        <4>1. mine.lastSeen[p] = me.lastSeen[p] /\ mine.lastDanger[p] = me.lastDanger[p] /\ traumaAt'[a][p] = traumaAt[a][p]
          BY <1>0, <1>1, <1>3, <1>6, <3>2, <3>4
        <4> QED
          BY <1>8, <2>2, <3>1, <4>1
      <3> QED
        BY <3>3, <3>4
    <2> QED
      BY <2>1, <2>2
  <1> QED
    BY <1>11, <1>12, <1>13, <1>14 DEF SwarmInv

LEMMA JoinKeeps ==
  ASSUME SwarmInv, NEW a \in Agents, joins(a)
  PROVE  SwarmInv'
  <1> DEFINE hello == [from |-> a, type |-> "DISCOVERY"]
             mine == [agent[a] EXCEPT !.state = "open"]
  <1>0. /\ agent \in [Agents -> Peer] /\ wire \in [Agents -> Seq(Message)] /\ agent[a].state = "absent" /\ Unborn(a)
        /\ UNCHANGED <<now, pruned, traumaAt, tooSoon>>
    BY DEF SwarmInv, TypeOK, joins, Strangers
  <1>1. /\ agent' = [agent EXCEPT ![a] = mine] /\ mine \in Peer /\ mine.state = "open" /\ mine.peers = {}
        /\ mine.lastSeen = agent[a].lastSeen /\ mine.lastDanger = agent[a].lastDanger
    BY <1>0 DEF joins, Peer, Unborn
  <1>2. wire' \in [Agents -> Seq(Message)] /\ Spread(wire, wire', a, hello)
    BY <1>0, BroadcastSpreads DEF joins
  <1> HIDE DEF mine
  <1>3. /\ agent' \in [Agents -> Peer] /\ agent'[a] = mine /\ \A b \in Agents : b # a => agent'[b] = agent[b]
    BY <1>0, <1>1
  <1>4. TypeOK' /\ ~tooSoon'
    BY <1>0, <1>2, <1>3 DEF SwarmInv, TypeOK
  <1>5. Strangers'
    <2> SUFFICES ASSUME NEW c \in Agents, agent'[c].state = "absent" PROVE Unborn(c)'
      BY DEF Strangers
    <2>1. c # a /\ agent'[c] = agent[c] /\ Unborn(c)
      BY <1>1, <1>3 DEF SwarmInv, Strangers
    <2>2. ASSUME NEW b \in Agents PROVE c \notin agent'[b].peers
      BY <1>1, <1>3, <2>1 DEF Unborn
    <2>3. ASSUME NEW b \in Agents, NEW x, Sent(wire'[b], x) PROVE x.from # c
      BY <1>2, <2>1, <2>3 DEF Unborn, Spread
    <2>4. Unborn(c)' <=> /\ agent'[c].peers = {} /\ agent'[c].lastSeen = [p \in Agents |-> LongAgo]
                         /\ agent'[c].lastDanger = [p \in Agents |-> LongAgo] /\ traumaAt'[c] = [p \in Agents |-> LongAgo]
                         /\ \A b \in Agents : c \notin agent'[b].peers /\ \A m : Sent(wire'[b], m) => m.from # c
      BY DEF Unborn, Sent
    <2> QED
      BY <1>0, <2>1, <2>2, <2>3, <2>4 DEF Unborn
  <1>6. Meeting'
    <2> SUFFICES ASSUME NEW p \in Agents, NEW q \in Agents, agent'[p].state = "open", agent'[q].state = "open", p # q
                 PROVE  \/ q \in agent'[p].peers \union pruned'[p]
                        \/ Sent(wire'[p], [from |-> q, type |-> "DISCOVERY"])
                        \/ Sent(wire'[q], [from |-> p, type |-> "DISCOVERY"]) /\ p \notin agent'[q].peers
      BY DEF Meeting, Meets, Announced, Sent, Open
    <2> DEFINE fromQ == [from |-> q, type |-> "DISCOVERY"]
               fromP == [from |-> p, type |-> "DISCOVERY"]
    <2>1. CASE p = a
      <3>1. Open(q) /\ q # a /\ agent'[q] = agent[q]
        BY <1>3, <2>1 DEF Open
      <3>2. Sent(wire'[q], hello)
        BY <1>2, <3>1 DEF Spread
      <3> QED
        BY <1>0, <2>1, <3>1, <3>2 DEF Unborn
    <2>2. CASE q = a
      <3>1. Open(p) /\ p # a
        BY <1>3, <2>2 DEF Open
      <3>2. Sent(wire'[p], hello)
        BY <1>2, <3>1 DEF Spread
      <3> QED
        BY <2>2, <3>2
    <2>3. CASE p # a /\ q # a
      <3>1. agent'[p] = agent[p] /\ agent'[q] = agent[q] /\ Meets(p, q)
        BY <1>3, <2>3 DEF Open, SwarmInv, Meeting
      <3>2. q \in agent[p].peers \union pruned[p] \/ Sent(wire[p], fromQ) \/ (Sent(wire[q], fromP) /\ p \notin agent[q].peers)
        BY <3>1 DEF Meets, Announced
      <3>3. (Sent(wire[p], fromQ) => Sent(wire'[p], fromQ)) /\ (Sent(wire[q], fromP) => Sent(wire'[q], fromP))
        <4> HIDE DEF fromP, fromQ, hello
        <4> QED
          BY <1>2 DEF Spread
      <3> QED
        BY <1>0, <3>1, <3>2, <3>3
    <2> QED
      BY <2>1, <2>2, <2>3
  <1>7. Wary'
    <2> SUFFICES ASSUME NEW b \in Agents, agent'[b].state # "closed", NEW p \in Agents
                 PROVE  Remembers(agent'[b].lastSeen[p], agent'[b].lastDanger[p], traumaAt'[b][p])
      BY <1>0 DEF Wary, Remembers
    <2>1. agent[b].state # "closed" /\ agent'[b].lastSeen = agent[b].lastSeen /\ agent'[b].lastDanger = agent[b].lastDanger
      BY <1>0, <1>1, <1>3
    <2> QED
      BY <1>0, <2>1 DEF SwarmInv, Wary
  <1> QED
    BY <1>4, <1>5, <1>6, <1>7 DEF SwarmInv

LEMMA EmitKeeps ==
  ASSUME SwarmInv, NEW a \in Agents, emits(a)
  PROVE  SwarmInv'
  <1> DEFINE alarm == [from |-> a, type |-> "DANGER"]
  <1>0. /\ wire \in [Agents -> Seq(Message)] /\ Open(a) /\ UNCHANGED <<now, agent, pruned, traumaAt, tooSoon>>
    BY DEF SwarmInv, TypeOK, emits
  <1>1. wire' \in [Agents -> Seq(Message)] /\ Spread(wire, wire', a, alarm)
    BY <1>0, BroadcastSpreads DEF emits
  <1>2. TypeOK' /\ ~tooSoon'
    BY <1>0, <1>1 DEF SwarmInv, TypeOK
  <1>3. Strangers'
    <2> SUFFICES ASSUME NEW c \in Agents, agent[c].state = "absent" PROVE Unborn(c)'
      BY <1>0 DEF Strangers
    <2>1. c # a /\ Unborn(c)
      BY <1>0 DEF SwarmInv, Strangers, Open
    <2>2. ASSUME NEW b \in Agents, NEW x, Sent(wire'[b], x) PROVE x.from # c
      BY <1>1, <2>1, <2>2 DEF Unborn, Spread
    <2>3. Unborn(c)' <=> /\ agent'[c].peers = {} /\ agent'[c].lastSeen = [p \in Agents |-> LongAgo]
                         /\ agent'[c].lastDanger = [p \in Agents |-> LongAgo] /\ traumaAt'[c] = [p \in Agents |-> LongAgo]
                         /\ \A b \in Agents : c \notin agent'[b].peers /\ \A m : Sent(wire'[b], m) => m.from # c
      BY DEF Unborn, Sent
    <2> QED
      BY <1>0, <2>1, <2>2, <2>3 DEF Unborn
  <1>4. Meeting'
    <2> SUFFICES ASSUME NEW p \in Agents, NEW q \in Agents, Open(p), Open(q), p # q
                 PROVE  \/ q \in agent[p].peers \union pruned[p]
                        \/ Sent(wire'[p], [from |-> q, type |-> "DISCOVERY"])
                        \/ Sent(wire'[q], [from |-> p, type |-> "DISCOVERY"]) /\ p \notin agent[q].peers
      BY <1>0 DEF Meeting, Meets, Announced, Sent, Open
    <2>1. Meets(p, q)
      BY DEF SwarmInv, Meeting
    <2> QED
      BY <1>1, <2>1 DEF Meets, Announced, Spread
  <1>5. Wary'
    BY <1>0 DEF SwarmInv, Wary, Remembers
  <1> QED
    BY <1>2, <1>3, <1>4, <1>5 DEF SwarmInv

LEMMA CloseKeeps ==
  ASSUME SwarmInv, NEW a \in Agents, close(a)
  PROVE  SwarmInv'
  <1> DEFINE gone == [Blank EXCEPT !.state = "closed"]
  <1>0. /\ agent \in [Agents -> Peer] /\ wire \in [Agents -> Seq(Message)] /\ pruned \in [Agents -> SUBSET Agents]
        /\ Open(a) /\ UNCHANGED <<now, traumaAt, tooSoon>>
        /\ agent' = [agent EXCEPT ![a] = gone] /\ wire' = [wire EXCEPT ![a] = << >>] /\ pruned' = [pruned EXCEPT ![a] = {}]
    BY DEF SwarmInv, TypeOK, close
  <1>1. gone \in Peer /\ gone.state = "closed" /\ gone.peers = {}
    BY Numbers DEF Blank, Peer
  <1> HIDE DEF gone
  <1>2. /\ agent' \in [Agents -> Peer] /\ agent'[a] = gone /\ \A b \in Agents : b # a => agent'[b] = agent[b]
        /\ wire' \in [Agents -> Seq(Message)] /\ wire'[a] = << >> /\ \A b \in Agents : b # a => wire'[b] = wire[b]
        /\ pruned' \in [Agents -> SUBSET Agents] /\ \A b \in Agents : b # a => pruned'[b] = pruned[b]
    BY <1>0, <1>1
  <1>3. \A x : ~Sent(wire'[a], x)
    <2>1. Len(<< >>) = 0
      OBVIOUS
    <2> QED
      BY <1>2, <2>1 DEF Sent
  <1>4. TypeOK' /\ ~tooSoon'
    BY <1>0, <1>2 DEF SwarmInv, TypeOK
  <1>5. Strangers'
    <2> SUFFICES ASSUME NEW c \in Agents, agent'[c].state = "absent" PROVE Unborn(c)'
      BY DEF Strangers
    <2>1. c # a /\ agent'[c] = agent[c] /\ Unborn(c)
      BY <1>1, <1>2 DEF SwarmInv, Strangers
    <2>2. ASSUME NEW b \in Agents PROVE c \notin agent'[b].peers
      BY <1>1, <1>2, <2>1 DEF Unborn
    <2>3. ASSUME NEW b \in Agents, NEW x, Sent(wire'[b], x) PROVE x.from # c
      BY <1>2, <1>3, <2>1, <2>3 DEF Unborn
    <2>4. Unborn(c)' <=> /\ agent'[c].peers = {} /\ agent'[c].lastSeen = [p \in Agents |-> LongAgo]
                         /\ agent'[c].lastDanger = [p \in Agents |-> LongAgo] /\ traumaAt'[c] = [p \in Agents |-> LongAgo]
                         /\ \A b \in Agents : c \notin agent'[b].peers /\ \A m : Sent(wire'[b], m) => m.from # c
      BY DEF Unborn, Sent
    <2> QED
      BY <1>0, <2>1, <2>2, <2>3, <2>4 DEF Unborn
  <1>6. Meeting'
    <2> SUFFICES ASSUME NEW p \in Agents, NEW q \in Agents, agent'[p].state = "open", agent'[q].state = "open", p # q
                 PROVE  \/ q \in agent'[p].peers \union pruned'[p]
                        \/ Sent(wire'[p], [from |-> q, type |-> "DISCOVERY"])
                        \/ Sent(wire'[q], [from |-> p, type |-> "DISCOVERY"]) /\ p \notin agent'[q].peers
      BY DEF Meeting, Meets, Announced, Sent, Open
    <2>1. p # a /\ q # a
      BY <1>1, <1>2
    <2>2. Meets(p, q)
      BY <1>2, <2>1 DEF Open, SwarmInv, Meeting
    <2> QED
      BY <1>2, <2>1, <2>2 DEF Meets, Announced
  <1>7. Wary'
    <2> SUFFICES ASSUME NEW b \in Agents, agent'[b].state # "closed", NEW p \in Agents
                 PROVE  Remembers(agent'[b].lastSeen[p], agent'[b].lastDanger[p], traumaAt'[b][p])
      BY <1>0 DEF Wary, Remembers
    <2>1. b # a
      BY <1>1, <1>2
    <2> QED
      BY <1>0, <1>2, <2>1 DEF SwarmInv, Wary
  <1> QED
    BY <1>4, <1>5, <1>6, <1>7 DEF SwarmInv

LEMMA StillKeeps ==
  ASSUME SwarmInv, UNCHANGED <<agent, wire, pruned, traumaAt, tooSoon>>, now' \in Nat, now' >= now
  PROVE  SwarmInv'
  <1>1. TypeOK' /\ ~tooSoon'
    BY DEF SwarmInv, TypeOK
  <1>2. Strangers' /\ Meeting'
    BY DEF SwarmInv, Strangers, Unborn, Sent, Meeting, Meets, Announced, Open
  <1>3. Wary'
    <2> SUFFICES ASSUME NEW b \in Agents, agent[b].state # "closed", NEW p \in Agents
                 PROVE  Remembers(agent[b].lastSeen[p], agent[b].lastDanger[p], traumaAt[b][p])'
      BY DEF Wary, Remembers
    <2>1. /\ Remembers(agent[b].lastSeen[p], agent[b].lastDanger[p], traumaAt[b][p])
          /\ agent[b].lastSeen[p] \in Int /\ agent[b].lastDanger[p] \in Int /\ traumaAt[b][p] \in Int /\ now \in Nat
      BY DEF SwarmInv, TypeOK, Wary, Peer
    <2> QED
      BY <2>1, Numbers DEF Remembers
  <1> QED
    BY <1>1, <1>2, <1>3 DEF SwarmInv

(* Whatever the order in which agents join, warn and leave, two that are open
   know each other once no announcement is under way, except whom one of them
   has pruned; and no peer hurts an agent twice within a cooldown, although
   pruning forgets when it last did (EidolonSwarm.ts:160-215, 315-330). *)
THEOREM SwarmIsSound == Spec => []SwarmSound
  <1>1. Init => SwarmInv
    <2> SUFFICES ASSUME Init PROVE SwarmInv
      OBVIOUS
    <2>1. Blank \in Peer /\ Blank.state = "absent" /\ Blank.peers = {}
          /\ Blank.lastSeen = [p \in Agents |-> LongAgo] /\ Blank.lastDanger = [p \in Agents |-> LongAgo]
      BY Numbers DEF Blank, Peer
    <2>2. \A a \in Agents : agent[a] = Blank /\ wire[a] = << >> /\ traumaAt[a] = [p \in Agents |-> LongAgo]
      BY DEF Init
    <2>3. TypeOK /\ ~tooSoon
      <3>1. /\ now \in Nat /\ agent \in [Agents -> Peer] /\ pruned \in [Agents -> SUBSET Agents] /\ tooSoon = FALSE
            /\ wire \in [Agents -> Seq(Message)]
        BY <2>1 DEF Init
      <3>2. traumaAt \in [Agents -> [Agents -> Int]]
        BY Numbers DEF Init
      <3> QED
        BY <3>1, <3>2 DEF TypeOK
    <2>4. \A a \in Agents : \A x : ~Sent(wire[a], x)
      <3>1. Len(<< >>) = 0
        OBVIOUS
      <3> QED
        BY <2>2, <3>1 DEF Sent
    <2>5. Strangers
      BY <2>1, <2>2, <2>4 DEF Strangers, Unborn
    <2>6. Meeting
      BY <2>1, <2>2 DEF Meeting, Open
    <2>7. Wary
      <3>1. now = 0
        BY DEF Init
      <3>2. ASSUME NEW a \in Agents, NEW p \in Agents
            PROVE  agent[a].lastSeen[p] = LongAgo /\ agent[a].lastDanger[p] = LongAgo /\ traumaAt[a][p] = LongAgo
        BY <2>1, <2>2
      <3>3. Remembers(LongAgo, LongAgo, LongAgo)
        BY <3>1, Numbers DEF Remembers
      <3> QED
        BY <3>2, <3>3 DEF Wary
    <2> QED
      BY <2>3, <2>5, <2>6, <2>7 DEF SwarmInv
  <1>2. SwarmInv /\ [Next]_swarmVars => SwarmInv'
    <2> SUFFICES ASSUME SwarmInv, [Next]_swarmVars PROVE SwarmInv'
      OBVIOUS
    <2>1. now \in Nat
      BY DEF SwarmInv, TypeOK
    <2>2. CASE tick
      BY <2>1, <2>2, StillKeeps DEF tick
    <2>3. CASE UNCHANGED swarmVars
      BY <2>1, <2>3, StillKeeps DEF swarmVars
    <2> QED
      BY <2>2, <2>3, JoinKeeps, EmitKeeps, HandleKeeps, CloseKeeps DEF Next
  <1>3. SwarmInv => SwarmSound
    <2> SUFFICES ASSUME SwarmInv PROVE SwarmSound
      OBVIOUS
    <2>1. ASSUME \A a \in Agents : \A i \in DOMAIN wire[a] : wire[a][i].type # "DISCOVERY"
          PROVE  \A a, b \in Agents : Open(a) /\ Open(b) /\ a # b => b \in agent[a].peers \union pruned[a]
      <3>1. ASSUME NEW a \in Agents, NEW b \in Agents PROVE ~Announced(wire[a], b)
        <4>1. DOMAIN wire[a] = 1..Len(wire[a])
          BY DEF SwarmInv, TypeOK
        <4> QED
          BY <2>1, <4>1 DEF Announced, Sent
      <3> QED
        BY <3>1 DEF SwarmInv, Meeting, Meets
    <2> QED
      BY <2>1 DEF SwarmInv, SwarmSound, QuietMeansMutual, OneTraumaPerCooldown
  <1> QED
    BY <1>1, <1>2, <1>3, PTL DEF Spec
=============================================================================
