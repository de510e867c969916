----------------------- MODULE GatewayServing_proofs ------------------------
(* The deadline and the shape of a streamed answer, for channels of every
   capacity and answers of every length, and the door of the gateway: its limits,
   the isolation of its tenants and the honesty of its refusals, for any number of
   requests. *)
EXTENDS MC_GatewayServing, Sequences, FiniteSetTheorems, TLAPS

(* After the deadline the pump sends the chunk it waits for or already has; once
   it has sent that one, it has left the loop or is at its top. *)
CutOff ==
  /\ late \in {0, 1} /\ deadline \in BOOLEAN
  /\ late = 1 => /\ deadline /\ pump # "recv"
                 /\ pump = "sending" => event \notin Stream!Content

LEMMA CutOffInit == Stream!Init => CutOff
  <1> SUFFICES ASSUME Stream!Init PROVE CutOff
    OBVIOUS
  <1>1. deadline \in BOOLEAN /\ late = 0
    BY DEF Stream!Init
  <1>2. 0 # 1
    OBVIOUS
  <1> QED
    BY <1>1, <1>2, Zenon DEF CutOff

(* The only step that hands content over. *)
LEMMA SendingKeeps == CutOff /\ Stream!PumpSends => CutOff'
  <1> SUFFICES ASSUME CutOff, Stream!PumpSends PROVE CutOff'
    OBVIOUS
  <1>1. pump = "sending" /\ deadline' = deadline
    BY DEF Stream!PumpSends
  <1>2. late' \in {0, 1} /\ (late' = 1 => deadline)
    BY <1>1 DEF Stream!PumpSends, CutOff
  <1>3. ASSUME late' = 1 PROVE pump' # "recv" /\ (pump' = "sending" => event' \notin Stream!Content)
    <2>1. CASE event \in Stream!Content
      BY <1>1, <2>1 DEF Stream!PumpSends, Stream!Proceed, Stream!EndWith
    <2>2. CASE event \notin Stream!Content
      BY <1>1, <2>2 DEF Stream!PumpSends, Stream!Proceed, Stream!EndWith, Stream!Content, Stream!FinishChunk, Stream!DONE
    <2> QED
      BY <2>1, <2>2
  <1> QED
    BY <1>1, <1>2, <1>3 DEF CutOff

LEMMA CutOffKeeps == CutOff /\ [Stream!Next]_Stream!vars => CutOff'
  <1> SUFFICES ASSUME CutOff, [Stream!Next]_Stream!vars PROVE CutOff'
    OBVIOUS
  <1>1. CASE Stream!invoke_stream
    BY <1>1 DEF CutOff, Stream!invoke_stream, Stream!ProviderLine, Stream!ProviderEnds, Stream!ProviderFails, Stream!ProducerSends
  <1>2. CASE Stream!PumpTop
    BY <1>2 DEF CutOff, Stream!PumpTop, Stream!Break, Stream!Content, Stream!StreamTimeout
  <1>3. CASE Stream!PumpRecv
    BY <1>3 DEF CutOff, Stream!PumpRecv
  <1>4. CASE Stream!PumpSends
    BY <1>4, SendingKeeps
  <1>5. CASE Stream!ClientReads \/ Stream!ClientLeaves \/ Stream!DeadlinePasses
    BY <1>5 DEF CutOff, Stream!ClientReads, Stream!ClientLeaves, Stream!DeadlinePasses
  <1>6. CASE Stream!Finished \/ UNCHANGED Stream!vars
    BY <1>6 DEF CutOff, Stream!Finished, Stream!vars
  <1> QED
    BY <1>1, <1>2, <1>3, <1>4, <1>5, <1>6 DEF Stream!Next, Stream!stream_completion_response

(* In the composition a stream makes steps of its own, or none. *)
LEMMA StreamSteps == [MCNext]_MCVars => [Stream!Next]_Stream!vars
  BY DEF MCNext, MCVars, streamVars, Stream!vars, Stream!source, Stream!sink

(* However fast the provider and however slow the client, at most one chunk is
   handed over after the deadline (lib.rs:1029-1060). *)
THEOREM Deadline == MCSpec => []DeadlineCutsOff
  <1>1. MCInit => CutOff
    BY CutOffInit DEF MCInit
  <1>2. CutOff /\ [MCNext]_MCVars => CutOff'
    BY CutOffKeeps, StreamSteps
  <1>3. CutOff => DeadlineCutsOff
    BY DEF CutOff, DeadlineCutsOff, Stream!DeadlineCutsOff
  <1> QED
    BY <1>1, <1>2, <1>3, PTL DEF MCSpec

-----------------------------------------------------------------------------
(* The answer itself. *)

LEMMA EventNumbers ==
  /\ Stream!Failure = 0 /\ Stream!StreamTimeout = -1 /\ Stream!StreamProviderError = -2 /\ Stream!FinishChunk = -3 /\ Stream!DONE = -4
  /\ Stream!Content = 1 .. MaxChunks /\ Stream!Errors = {-1, -2} /\ MaxChunks \in Nat \ {0}
  BY StreamAssumption DEF Stream!Failure, Stream!StreamTimeout, Stream!StreamProviderError, Stream!FinishChunk, Stream!DONE,
     Stream!Content, Stream!Errors

(* What a send and a read do to what is handed over. *)
LEMMA SendAppends ==
  ASSUME NEW r \in Seq(Int), NEW e \in Seq(Int), NEW x \in Int
  PROVE  r \o Append(e, x) = Append(r \o e, x)
  OBVIOUS

LEMMA ReadKeeps ==
  ASSUME NEW r \in Seq(Int), NEW e \in Seq(Int), e # << >>
  PROVE  Append(r, Head(e)) \o Tail(e) = r \o e
  OBVIOUS

LEMMA Longer ==
  ASSUME NEW s \in Seq(Int), NEW x \in Int
  PROVE  /\ Append(s, x) \in Seq(Int) /\ Len(Append(s, x)) = Len(s) + 1 /\ Len(s) \in Nat
         /\ \A i \in 1 .. Len(s) : Append(s, x)[i] = s[i]
         /\ Append(s, x)[Len(s) + 1] = x
  OBVIOUS

LEMMA ShapedStart ==
  ASSUME NEW r \in Seq(Int), NEW e \in Seq(Int), Stream!Shaped(r \o e)
  PROVE  Stream!Shaped(r)
  <1>1. /\ Len(r \o e) = Len(r) + Len(e) /\ Len(r) \in Nat /\ Len(e) \in Nat
        /\ \A i \in 1 .. Len(r) : (r \o e)[i] = r[i]
    OBVIOUS
  <1> DEFINE s == r \o e
  <1>2. PICK n \in 0 .. Len(s) :
          /\ \A i \in 1 .. n : s[i] = i
          /\ n < Len(s) => s[n + 1] \in Stream!Errors \cup {Stream!FinishChunk}
          /\ \A i \in n + 1 .. Len(s) - 1 : Stream!Follows(s[i], s[i + 1])
    BY DEF Stream!Shaped
  <1> HIDE DEF s
  <1>3. CASE n <= Len(r)
    <2>1. n \in 0 .. Len(r) /\ \A i \in 1 .. n : r[i] = i
      BY <1>1, <1>2, <1>3 DEF s
    <2>2. n < Len(r) => r[n + 1] \in Stream!Errors \cup {Stream!FinishChunk}
      BY <1>1, <1>2, <2>1 DEF s
    <2>3. ASSUME NEW i \in n + 1 .. Len(r) - 1 PROVE Stream!Follows(r[i], r[i + 1])
      <3>1. i \in n + 1 .. Len(s) - 1 /\ s[i] = r[i] /\ s[i + 1] = r[i + 1]
        BY <1>1, <2>1, <2>3 DEF s
      <3> QED
        BY <1>2, <3>1
    <2> QED
      BY <2>1, <2>2, <2>3 DEF Stream!Shaped
  <1>4. CASE n > Len(r)
    <2>1. Len(r) \in 0 .. Len(r) /\ \A i \in 1 .. Len(r) : r[i] = i
      BY <1>1, <1>2, <1>4 DEF s
    <2>2. ~(Len(r) < Len(r)) /\ \A i \in Len(r) + 1 .. Len(r) - 1 : FALSE
      BY <1>1
    <2> QED
      BY <2>1, <2>2 DEF Stream!Shaped
  <1> QED
    BY <1>1, <1>3, <1>4 DEF s

Counted(s) == \A i \in 1 .. Len(s) : s[i] = i

LEMMA CountedGrows ==
  ASSUME NEW s \in Seq(Int), Counted(s)
  PROVE  /\ Stream!Shaped(s)
         /\ Counted(Append(s, Len(s) + 1))
         /\ \A x \in Stream!Errors \cup {Stream!FinishChunk} : Stream!Shaped(Append(s, x))
  <1>1. Stream!Shaped(s)
    <2>1. Len(s) \in 0 .. Len(s)
      OBVIOUS
    <2> QED
      BY <2>1 DEF Stream!Shaped, Counted
  <1>2. Counted(Append(s, Len(s) + 1))
    BY Longer DEF Counted
  <1>3. ASSUME NEW x \in Stream!Errors \cup {Stream!FinishChunk} PROVE Stream!Shaped(Append(s, x))
    <2>1. x \in Int
      BY <1>3, EventNumbers
    <2> DEFINE t == Append(s, x)
    <2>2. Len(t) = Len(s) + 1 /\ Len(s) \in Nat /\ t[Len(s) + 1] = x /\ \A i \in 1 .. Len(s) : t[i] = i
      BY <2>1, Longer DEF Counted
    <2> HIDE DEF t
    <2>3. Len(s) \in 0 .. Len(t) /\ \A i \in Len(s) + 1 .. Len(t) - 1 : FALSE
      BY <2>2
    <2>4. Stream!Shaped(t)
      BY <1>3, <2>2, <2>3 DEF Stream!Shaped
    <2> QED
      BY <2>4 DEF t
  <1> QED
    BY <1>1, <1>2, <1>3

LEMMA ShapedFollows ==
  ASSUME NEW s \in Seq(Int), NEW x \in Int, NEW y \in Int, x < 0, Stream!Shaped(Append(s, x)), Stream!Follows(x, y)
  PROVE  Stream!Shaped(Append(Append(s, x), y))
  <1> DEFINE t == Append(s, x)
             u == Append(t, y)
  <1>1. t \in Seq(Int) /\ Len(t) = Len(s) + 1 /\ Len(s) \in Nat /\ t[Len(t)] = x
    BY Longer
  <1>2. Len(u) = Len(t) + 1 /\ u[Len(t) + 1] = y /\ \A i \in 1 .. Len(t) : u[i] = t[i]
    BY <1>1, Longer
  <1>3. PICK n \in 0 .. Len(t) :
          /\ \A i \in 1 .. n : t[i] = i
          /\ n < Len(t) => t[n + 1] \in Stream!Errors \cup {Stream!FinishChunk}
          /\ \A i \in n + 1 .. Len(t) - 1 : Stream!Follows(t[i], t[i + 1])
    BY DEF Stream!Shaped
  <1> HIDE DEF t, u
  <1>4. n < Len(t)
    BY <1>1, <1>3
  <1>5. n \in 0 .. Len(u) /\ (\A i \in 1 .. n : u[i] = i) /\ u[n + 1] \in Stream!Errors \cup {Stream!FinishChunk}
    BY <1>1, <1>2, <1>3, <1>4
  <1>6. ASSUME NEW i \in n + 1 .. Len(u) - 1 PROVE Stream!Follows(u[i], u[i + 1])
    <2>1. CASE i = Len(t)
      <3>1. u[i] = x /\ u[i + 1] = y
        BY <1>1, <1>2, <2>1
      <3> QED
        BY <3>1
    <2>2. CASE i # Len(t)
      <3>1. i \in n + 1 .. Len(t) - 1
        BY <1>1, <1>2, <1>6, <2>2
      <3>2. u[i] = t[i] /\ u[i + 1] = t[i + 1]
        BY <1>1, <1>2, <3>1
      <3> QED
        BY <1>3, <3>1, <3>2
    <2> QED
      BY <2>1, <2>2
  <1>7. Stream!Shaped(u)
    BY <1>5, <1>6 DEF Stream!Shaped
  <1> QED
    BY <1>7 DEF t, u

-----------------------------------------------------------------------------
(* What waits between the producer and the pump follows the c chunks that the
   pump has taken. *)
Ints ==
  /\ produced \in 0 .. MaxChunks /\ chunks \in Seq(Int) /\ received \in Seq(Int) /\ events \in Seq(Int) /\ event \in Int
  /\ producer \in {"reading", "sending", "failing", "stopped"} /\ status \in {"ok", "timeout", "provider_stream_error", "cancelled"}

Queue(c) ==
  \/ /\ \A i \in 1 .. Len(chunks) : chunks[i] = c + i
     /\ produced = c + Len(chunks) + (IF producer = "sending" THEN 1 ELSE 0)
  \/ /\ producer = "stopped" /\ Len(chunks) >= 1 /\ chunks[Len(chunks)] = Stream!Failure
     /\ \A i \in 1 .. Len(chunks) - 1 : chunks[i] = c + i
     /\ c + Len(chunks) - 1 <= MaxChunks

(* What the pump still has to hand over to a client who reads. *)
Loop(h) == pump \in {"top", "recv"} => status = "ok" /\ Counted(h) /\ Queue(Len(h))

Send(h) == pump = "sending" =>
  /\ Stream!Shaped(Append(h, event))
  /\ event >= 0 => status = "ok" /\ Counted(h) /\ event = Len(h) + 1 /\ event \in Stream!Content /\ Queue(Len(h) + 1)
  /\ event < 0 => event \in {-1, -2, -3, -4}
  /\ event \in {-1, -2} => status # "ok"
  /\ event < 0 /\ status = "ok" =>
       /\ producer = "stopped" /\ \A i \in 1 .. produced : h[i] = i
       /\ Len(h) = produced + (IF event = -4 THEN 1 ELSE 0)

End(h) == pump = "ended" /\ status = "ok" =>
  producer = "stopped" /\ Len(h) = produced + 2 /\ \A i \in 1 .. produced : h[i] = i

Delivers == client = "reading" => Loop(Stream!Handed) /\ Send(Stream!Handed) /\ End(Stream!Handed)

Pumping == Ints /\ pump \in {"top", "recv", "sending", "ended"} /\ Stream!Shaped(Stream!Handed) /\ Delivers
           /\ (client # "reading" => client = "gone" /\ events = << >>)

LEMMA HandedIsSeq == Ints => Stream!Handed \in Seq(Int) /\ Len(Stream!Handed) \in Nat
  BY DEF Ints, Stream!Handed

LEMMA ProducerKeeps ==
  ASSUME Pumping, Stream!invoke_stream
  PROVE  Pumping'
  <1>0. /\ UNCHANGED <<pump, event, status, client, received, events>> /\ producer # "stopped"
        /\ Stream!Handed' = Stream!Handed
    BY DEF Stream!invoke_stream, Stream!ProviderLine, Stream!ProviderEnds, Stream!ProviderFails, Stream!ProducerSends,
           Stream!sink, Stream!Handed
  <1>1. \/ /\ producer = "reading" /\ produced < MaxChunks /\ produced' = produced + 1 /\ producer' = "sending"
           /\ chunks' = chunks
        \/ producer = "reading" /\ producer' \in {"stopped", "failing"} /\ UNCHANGED <<produced, chunks>>
        \/ producer \in {"sending", "failing"} /\ pump = "ended" /\ producer' = "stopped" /\ UNCHANGED <<produced, chunks>>
        \/ producer = "sending" /\ producer' \in {"stopped", "reading"} /\ chunks' = Append(chunks, produced) /\ produced' = produced
        \/ producer = "failing" /\ producer' = "stopped" /\ chunks' = Append(chunks, 0) /\ produced' = produced
    BY DEF Stream!invoke_stream, Stream!ProviderLine, Stream!ProviderEnds, Stream!ProviderFails, Stream!ProducerSends,
           Stream!Item, Stream!AfterItem, Stream!Failure
  <1>2. produced \in 0 .. MaxChunks /\ chunks \in Seq(Int) /\ MaxChunks \in Nat
    BY EventNumbers DEF Pumping, Ints
  <1>3. Ints'
    <2>1. produced' \in 0 .. MaxChunks
      BY <1>1, <1>2
    <2>2. chunks' \in Seq(Int)
      <3>1. Append(chunks, produced) \in Seq(Int) /\ Append(chunks, 0) \in Seq(Int)
        BY <1>2
      <3> QED
        BY <1>1, <1>2, <3>1
    <2>3. producer' \in {"reading", "sending", "failing", "stopped"}
      BY <1>1
    <2> QED
      BY <1>0, <2>1, <2>2, <2>3 DEF Pumping, Ints
  <1>4. ASSUME NEW c \in Nat, pump # "ended", Queue(c) PROVE Queue(c)'
    <2>1. Len(chunks) \in Nat /\ (\A i \in 1 .. Len(chunks) : chunks[i] = c + i)
          /\ produced = c + Len(chunks) + (IF producer = "sending" THEN 1 ELSE 0)
      BY <1>0, <1>2, <1>4 DEF Queue
    <2>2. CASE chunks' = chunks
      <3>1. produced' = c + Len(chunks) + (IF producer' = "sending" THEN 1 ELSE 0)
        <4>1. CASE producer = "reading" /\ produced' = produced + 1 /\ producer' = "sending"
          BY <1>2, <2>1, <4>1
        <4>2. CASE producer = "reading" /\ producer' \in {"stopped", "failing"} /\ produced' = produced
          BY <1>2, <2>1, <4>2
        <4>3. \A x \in Int : Append(chunks, x) # chunks
          BY <1>2, Longer
        <4> QED
          BY <1>1, <1>2, <1>4, <2>2, <4>1, <4>2, <4>3
      <3> QED
        BY <2>1, <2>2, <3>1 DEF Queue
    <2>3. CASE producer = "sending" /\ producer' \in {"stopped", "reading"} /\ chunks' = Append(chunks, produced) /\ produced' = produced
      <3>1. /\ Len(chunks') = Len(chunks) + 1 /\ chunks'[Len(chunks) + 1] = produced
            /\ \A i \in 1 .. Len(chunks) : chunks'[i] = chunks[i]
        BY <1>2, <2>3, Longer
      <3>2. produced = c + Len(chunks')
        BY <2>1, <2>3, <3>1
      <3>3. \A i \in 1 .. Len(chunks') : chunks'[i] = c + i
        BY <2>1, <3>1, <3>2
      <3>4. produced' = c + Len(chunks') + (IF producer' = "sending" THEN 1 ELSE 0)
        BY <1>2, <2>3, <3>2
      <3> QED
        BY <3>3, <3>4 DEF Queue
    <2>4. CASE producer = "failing" /\ producer' = "stopped" /\ chunks' = Append(chunks, 0) /\ produced' = produced
      <3>1. /\ Len(chunks') = Len(chunks) + 1 /\ chunks'[Len(chunks')] = 0
            /\ \A i \in 1 .. Len(chunks') - 1 : chunks'[i] = c + i
        BY <1>2, <2>1, <2>4, Longer
      <3>2. c + Len(chunks') - 1 <= MaxChunks
        BY <1>2, <2>1, <2>4, <3>1
      <3> QED
        BY <2>1, <2>4, <3>1, <3>2, EventNumbers DEF Queue
    <2> QED
      BY <1>1, <1>4, <2>2, <2>3, <2>4
  <1>5. ASSUME client = "reading"
        PROVE  Loop(Stream!Handed)' /\ Send(Stream!Handed)' /\ End(Stream!Handed)'
    <2> DEFINE h == Stream!Handed
    <2>1. Loop(h) /\ Send(h) /\ End(h) /\ Len(h) \in Nat
      BY <1>5, HandedIsSeq DEF Pumping, Delivers
    <2>2. PICK k \in Nat : k = Len(h)
      BY <2>1
    <2>3. (Loop(h) /\ pump \in {"top", "recv"} => Queue(k)) /\ (Send(h) /\ pump = "sending" /\ event >= 0 => Queue(k + 1))
      BY <2>2 DEF Loop, Send
    <2>4. /\ pump \in {"top", "recv"} /\ Queue(k) => Queue(k)'
          /\ pump = "sending" /\ Queue(k + 1) => Queue(k + 1)'
      <3>1. k + 1 \in Nat
        OBVIOUS
      <3> QED
        BY <1>4, <3>1
    <2>5. Loop(Stream!Handed)'
      <3>1. Loop(Stream!Handed)' <=> (pump' \in {"top", "recv"} => status' = "ok" /\ Counted(Stream!Handed') /\ Queue(k)')
        BY <1>0, <2>2 DEF Loop, Queue, Counted
      <3> HIDE DEF h
      <3> QED
        BY <1>0, <2>1, <2>3, <2>4, <3>1 DEF Loop, h
    <2>6. Send(Stream!Handed)'
      <3>1. Send(Stream!Handed)' <=>
               (pump' = "sending" =>
                 /\ Stream!Shaped(Append(Stream!Handed', event'))
                 /\ event' >= 0 => status' = "ok" /\ Counted(Stream!Handed') /\ event' = Len(Stream!Handed') + 1
                                   /\ event' \in Stream!Content /\ Queue(k + 1)'
                 /\ event' < 0 => event' \in {-1, -2, -3, -4}
                 /\ event' \in {-1, -2} => status' # "ok"
                 /\ event' < 0 /\ status' = "ok" =>
                      /\ producer' = "stopped" /\ \A i \in 1 .. produced' : Stream!Handed'[i] = i
                      /\ Len(Stream!Handed') = produced' + (IF event' = -4 THEN 1 ELSE 0))
        BY <1>0, <2>2 DEF Send, Queue, Counted, Stream!Shaped
      <3> HIDE DEF h
      <3> QED
        BY <1>0, <2>1, <2>3, <2>4, <3>1 DEF Send, h
    <2>7. End(Stream!Handed)'
      BY <1>0, <2>1 DEF End, h
    <2> QED
      BY <2>5, <2>6, <2>7
  <1> QED
    BY <1>0, <1>3, <1>5 DEF Pumping, Delivers, Stream!Shaped

(* The same, of the next state. *)
LEMMA DeliversNext ==
  ASSUME NEW k \in Nat, k = Len(Stream!Handed'),
         pump' \in {"top", "recv"} => status' = "ok" /\ Counted(Stream!Handed') /\ Queue(k)',
         pump' = "sending" =>
           /\ Stream!Shaped(Append(Stream!Handed', event'))
           /\ event' >= 0 => status' = "ok" /\ Counted(Stream!Handed') /\ event' = k + 1
                             /\ event' \in Stream!Content /\ Queue(k + 1)'
           /\ event' < 0 => event' \in {-1, -2, -3, -4}
           /\ event' \in {-1, -2} => status' # "ok"
           /\ event' < 0 /\ status' = "ok" =>
                /\ producer' = "stopped" /\ \A i \in 1 .. produced' : Stream!Handed'[i] = i
                /\ k = produced' + (IF event' = -4 THEN 1 ELSE 0),
         pump' = "ended" /\ status' = "ok" =>
           producer' = "stopped" /\ k = produced' + 2 /\ \A i \in 1 .. produced' : Stream!Handed'[i] = i
  PROVE  Delivers'
  <1>1. Loop(Stream!Handed)'
    BY DEF Loop, Queue, Counted
  <1>2. Send(Stream!Handed)'
    BY DEF Send, Queue, Counted, Stream!Shaped
  <1>3. End(Stream!Handed)'
    BY DEF End
  <1> QED
    BY <1>1, <1>2, <1>3 DEF Delivers

(* A chunk is taken from the front. *)
LEMMA QueueMoves ==
  ASSUME Ints, NEW c \in Nat, Queue(c), chunks # << >>, Head(chunks) # 0,
         chunks' = Tail(chunks), UNCHANGED <<produced, producer>>
  PROVE  Head(chunks) = c + 1 /\ c + 1 <= MaxChunks /\ Queue(c + 1)'
  <1>1. /\ chunks \in Seq(Int) /\ Len(chunks) \in Nat /\ Len(chunks) >= 1 /\ Head(chunks) = chunks[1]
        /\ Len(Tail(chunks)) = Len(chunks) - 1 /\ \A i \in 1 .. Len(chunks) - 1 : Tail(chunks)[i] = chunks[i + 1]
        /\ produced \in 0 .. MaxChunks /\ MaxChunks \in Nat
    BY EventNumbers DEF Ints
  <1>2. CASE /\ \A i \in 1 .. Len(chunks) : chunks[i] = c + i
             /\ produced = c + Len(chunks) + (IF producer = "sending" THEN 1 ELSE 0)
    <2>1. Head(chunks) = c + 1 /\ c + 1 <= MaxChunks
      BY <1>1, <1>2
    <2>2. \A i \in 1 .. Len(chunks') : chunks'[i] = (c + 1) + i
      BY <1>1, <1>2
    <2>3. produced' = (c + 1) + Len(chunks') + (IF producer' = "sending" THEN 1 ELSE 0)
      BY <1>1, <1>2
    <2> QED
      BY <2>1, <2>2, <2>3 DEF Queue
  <1>3. CASE /\ producer = "stopped" /\ Len(chunks) >= 1 /\ chunks[Len(chunks)] = Stream!Failure
             /\ \A i \in 1 .. Len(chunks) - 1 : chunks[i] = c + i
             /\ c + Len(chunks) - 1 <= MaxChunks
    <2>1. Len(chunks) >= 2
      BY <1>1, <1>3, EventNumbers
    <2>2. Head(chunks) = c + 1 /\ c + 1 <= MaxChunks
      BY <1>1, <1>3, <2>1
    <2>3. /\ Len(chunks') = Len(chunks) - 1 /\ chunks'[Len(chunks')] = Stream!Failure
          /\ \A i \in 1 .. Len(chunks') - 1 : chunks'[i] = (c + 1) + i
          /\ (c + 1) + Len(chunks') - 1 <= MaxChunks
      BY <1>1, <1>3, <2>1
    <2> QED
      BY <1>1, <1>3, <2>1, <2>2, <2>3 DEF Queue
  <1> QED
    BY <1>2, <1>3 DEF Queue

LEMMA TopKeeps ==
  ASSUME Pumping, Stream!PumpTop
  PROVE  Pumping'
  <1>1. /\ pump = "top" /\ UNCHANGED <<produced, producer, chunks, client, received, events>>
        /\ Stream!Handed' = Stream!Handed
        /\ \/ pump' = "sending" /\ event' = -1 /\ status' = "timeout"
           \/ pump' = "recv" /\ UNCHANGED <<event, status>>
    BY EventNumbers DEF Stream!PumpTop, Stream!Break, Stream!source, Stream!sink, Stream!Handed
  <1>2. Ints' /\ pump' \in {"top", "recv", "sending", "ended"}
    BY <1>1 DEF Pumping, Ints
  <1>3. Stream!Shaped(Stream!Handed)'
    BY <1>1 DEF Pumping, Stream!Shaped
  <1>4. ASSUME client = "reading" PROVE Delivers'
    <2> DEFINE h == Stream!Handed
    <2>1. status = "ok" /\ Counted(h) /\ Queue(Len(h)) /\ h \in Seq(Int) /\ Len(h) \in Nat
      BY <1>1, <1>4, HandedIsSeq DEF Pumping, Delivers, Loop
    <2>2. PICK k \in Nat : k = Len(h)
      BY <2>1
    <2>3. Queue(k)'
      BY <1>1, <2>1, <2>2 DEF Queue
    <2>4. Stream!Shaped(Append(h, -1))
      BY <2>1, CountedGrows, EventNumbers
    <2> HIDE DEF h
    <2>5. Stream!Handed' = h /\ k = Len(Stream!Handed')
      BY <1>1, <2>2 DEF h
    <2>6. CASE pump' = "recv" /\ UNCHANGED <<event, status>>
      BY <2>1, <2>3, <2>5, <2>6, DeliversNext
    <2>7. CASE pump' = "sending" /\ event' = -1 /\ status' = "timeout"
      BY <2>4, <2>5, <2>7, DeliversNext
    <2> QED
      BY <1>1, <2>6, <2>7
  <1> QED
    BY <1>1, <1>2, <1>3, <1>4 DEF Pumping, Delivers

LEMMA RecvKeeps ==
  ASSUME Pumping, Stream!PumpRecv
  PROVE  Pumping'
  <1>1. /\ pump = "recv" /\ pump' = "sending" /\ UNCHANGED <<produced, producer, client, received, events>>
        /\ Stream!Handed' = Stream!Handed
        /\ \/ chunks # << >> /\ chunks' = Tail(chunks) /\ Head(chunks) = 0 /\ event' = -2 /\ status' = "provider_stream_error"
           \/ chunks # << >> /\ chunks' = Tail(chunks) /\ Head(chunks) # 0 /\ event' = Head(chunks) /\ status' = status
           \/ chunks = << >> /\ chunks' = chunks /\ producer = "stopped" /\ event' = -3 /\ status' = status
           \/ chunks = << >> /\ chunks' = chunks /\ event' = -1 /\ status' = "timeout"
    BY EventNumbers DEF Stream!PumpRecv, Stream!Break, Stream!source, Stream!sink, Stream!Handed
  <1>2. Ints'
    <2>1. chunks' \in Seq(Int) /\ (chunks # << >> => Head(chunks) \in Int)
      <3>1. chunks \in Seq(Int)
        BY DEF Pumping, Ints
      <3>2. chunks # << >> => Head(chunks) \in Int /\ Tail(chunks) \in Seq(Int)
        BY <3>1
      <3> QED
        BY <1>1, <3>1, <3>2
    <2>2. event' \in Int /\ status' \in {"ok", "timeout", "provider_stream_error", "cancelled"}
      BY <1>1, <2>1 DEF Pumping, Ints
    <2> QED
      BY <1>1, <2>1, <2>2 DEF Pumping, Ints
  <1>3. Stream!Shaped(Stream!Handed)'
    BY <1>1 DEF Pumping, Stream!Shaped
  <1>4. ASSUME client = "reading" PROVE Delivers'
    <2> DEFINE h == Stream!Handed
    <2>1. status = "ok" /\ Counted(h) /\ Queue(Len(h)) /\ h \in Seq(Int) /\ Len(h) \in Nat /\ Ints
      BY <1>1, <1>4, HandedIsSeq DEF Pumping, Delivers, Loop
    <2>2. PICK k \in Nat : k = Len(h)
      BY <2>1
    <2>3. Queue(k) /\ Counted(Append(h, k + 1)) /\ \A x \in {-1, -2, -3} : Stream!Shaped(Append(h, x))
      BY <2>1, <2>2, CountedGrows, EventNumbers
    <2> HIDE DEF h
    <2>4. Stream!Handed' = h /\ k = Len(Stream!Handed')
      BY <1>1, <2>2 DEF h
    <2>5. CASE chunks # << >> /\ chunks' = Tail(chunks) /\ Head(chunks) = 0 /\ event' = -2 /\ status' = "provider_stream_error"
      BY <1>1, <2>3, <2>4, <2>5, DeliversNext
    <2>6. CASE chunks # << >> /\ chunks' = Tail(chunks) /\ Head(chunks) # 0 /\ event' = Head(chunks) /\ status' = status
      <3>1. Head(chunks) = k + 1 /\ k + 1 <= MaxChunks /\ Queue(k + 1)'
        BY <1>1, <2>1, <2>3, <2>6, QueueMoves
      <3>2. event' = k + 1 /\ event' \in Stream!Content /\ event' >= 0
        BY <2>6, <3>1, EventNumbers
      <3>3. Stream!Shaped(Append(h, k + 1))
        <4>1. Append(h, k + 1) \in Seq(Int)
          BY <2>1
        <4> QED
          BY <2>3, <4>1, CountedGrows
      <3> QED
        BY <1>1, <2>1, <2>4, <2>6, <3>1, <3>2, <3>3, DeliversNext
    <2>7. CASE chunks = << >> /\ chunks' = chunks /\ producer = "stopped" /\ event' = -3 /\ status' = status
      <3>1. Len(chunks) = 0
        BY <2>7
      <3>2. produced = k
        BY <2>1, <2>3, <2>7, <3>1 DEF Queue, Ints
      <3>3. \A i \in 1 .. produced' : Stream!Handed'[i] = i
        BY <1>1, <2>1, <2>2, <2>4, <3>2 DEF Counted
      <3> QED
        BY <1>1, <2>1, <2>3, <2>4, <2>7, <3>2, <3>3, DeliversNext
    <2>8. CASE chunks = << >> /\ chunks' = chunks /\ event' = -1 /\ status' = "timeout"
      BY <1>1, <2>3, <2>4, <2>8, DeliversNext
    <2> QED
      BY <1>1, <2>5, <2>6, <2>7, <2>8
  <1> QED
    BY <1>1, <1>2, <1>3, <1>4 DEF Pumping, Delivers

LEMMA SendKeeps ==
  ASSUME Pumping, Stream!PumpSends
  PROVE  Pumping'
  <1> DEFINE after == IF event \in Stream!Content THEN event ELSE IF event = -3 THEN -4 ELSE -3
  <1>1. /\ pump = "sending" /\ UNCHANGED <<produced, producer, client, received>>
        /\ status' = status \/ (client = "gone" /\ status' = "cancelled")
        /\ chunks' = chunks \/ (pump' = "ended" /\ chunks' = << >>)
        /\ \/ client = "gone" /\ events' = events /\ pump' \in {"top", "sending", "ended"}
           \/ /\ client # "gone" /\ events' = Append(events, event)
              /\ \/ event = -4 /\ pump' = "ended" /\ event' = event
                 \/ event # -4 /\ event \in Stream!Content /\ pump' = "top" /\ event' = event
                 \/ event # -4 /\ event \notin Stream!Content /\ pump' = "sending" /\ event' = after
        /\ event' \in {event, -3, -4}
    BY EventNumbers DEF Stream!PumpSends, Stream!Proceed, Stream!EndWith, Stream!source, Stream!sink
  <1>2. event \in Int /\ received \in Seq(Int) /\ events \in Seq(Int) /\ chunks \in Seq(Int)
        /\ status \in {"ok", "timeout", "provider_stream_error", "cancelled"}
    BY DEF Pumping, Ints
  <1>3. Ints'
    <2>1. events' \in Seq(Int)
      <3>1. Append(events, event) \in Seq(Int)
        BY <1>2
      <3> QED
        BY <1>1, <1>2, <3>1
    <2>2. chunks' \in Seq(Int)
      <3>1. << >> \in Seq(Int)
        OBVIOUS
      <3> QED
        BY <1>1, <1>2, <3>1
    <2>3. status' \in {"ok", "timeout", "provider_stream_error", "cancelled"} /\ event' \in Int
      BY <1>1, <1>2
    <2> QED
      BY <1>1, <2>1, <2>2, <2>3 DEF Pumping, Ints
  <1>4. CASE client = "gone"
    <2>1. Stream!Handed' = Stream!Handed /\ client' # "reading" /\ events' = << >> /\ pump' \in {"top", "sending", "ended"}
      BY <1>1, <1>4 DEF Pumping, Stream!Handed
    <2> QED
      BY <1>1, <1>3, <1>4, <2>1 DEF Pumping, Delivers, Stream!Shaped
  <1>5. CASE client # "gone"
    <2> DEFINE h == Stream!Handed
               g == Append(h, event)
    <2>1. client = "reading" /\ client' = "reading" /\ Send(h) /\ h \in Seq(Int) /\ Len(h) \in Nat
          /\ status' = status /\ events' = Append(events, event)
      BY <1>1, <1>5, HandedIsSeq DEF Pumping, Delivers
    <2>2. Stream!Handed' = g
      BY <1>1, <1>2, <2>1, SendAppends DEF Stream!Handed
    <2>3. PICK k \in Nat : k = Len(h)
      BY <2>1
    <2>4. g \in Seq(Int) /\ Len(g) = k + 1 /\ g[k + 1] = event /\ \A i \in 1 .. k : g[i] = h[i]
      BY <1>2, <2>1, <2>3, Longer
    <2>5. /\ Stream!Shaped(g)
          /\ event >= 0 => status = "ok" /\ Counted(h) /\ event = k + 1 /\ event \in Stream!Content /\ Queue(k + 1)
          /\ event < 0 => event \in {-1, -2, -3, -4} /\ event \notin Stream!Content
          /\ event \in {-1, -2} => status # "ok"
          /\ event < 0 /\ status = "ok" =>
               /\ producer = "stopped" /\ \A i \in 1 .. produced : h[i] = i
               /\ k = produced + (IF event = -4 THEN 1 ELSE 0)
      BY <1>1, <2>1, <2>3, EventNumbers DEF Send
    <2> HIDE DEF h
    <2>6. Stream!Handed' = g /\ k + 1 = Len(Stream!Handed') /\ k + 1 \in Nat
      BY <2>2, <2>4
    <2>7. produced \in Nat /\ (event < 0 /\ status = "ok" => \A i \in 1 .. produced : g[i] = i)
      <3>1. produced \in Nat
        BY EventNumbers DEF Pumping, Ints
      <3> QED
        BY <2>4, <2>5, <3>1
    <2> HIDE DEF g
    <2>8. CASE event = -4
      <3>1. pump' = "ended"
        BY <1>1, <1>5, <2>8
      <3>2. status' = "ok" => producer' = "stopped" /\ k + 1 = produced' + 2 /\ \A i \in 1 .. produced' : g[i] = i
        BY <1>1, <2>1, <2>5, <2>7, <2>8
      <3>3. Delivers'
        BY <2>6, <3>1, <3>2, DeliversNext
      <3> QED
        BY <1>3, <2>1, <2>5, <2>6, <3>1, <3>3 DEF Pumping, Stream!Shaped
    <2>9. CASE event \in Stream!Content
      <3>1. event >= 0 /\ pump' = "top" /\ chunks' = chunks
        BY <1>1, <1>5, <2>9, EventNumbers
      <3>2. Counted(g)
        <4>1. Counted(h) /\ event = k + 1
          BY <2>5, <3>1
        <4> QED
          BY <2>3, <2>4, <4>1 DEF Counted
      <3>3. Queue(k + 1)'
        BY <1>1, <2>5, <3>1 DEF Queue
      <3>4. Delivers'
        BY <2>1, <2>5, <2>6, <3>1, <3>2, <3>3, DeliversNext
      <3> QED
        BY <1>3, <2>1, <2>5, <2>6, <3>1, <3>4 DEF Pumping, Stream!Shaped
    <2>10. CASE event \notin Stream!Content /\ event # -4
      <3>1. event \in {-1, -2, -3} /\ event < 0
        BY <1>2, <2>5, <2>10
      <3>2. pump' = "sending" /\ event' = (IF event = -3 THEN -4 ELSE -3)
        BY <1>1, <1>5, <2>10
      <3>3. Stream!Follows(event, event')
        BY <3>1, <3>2, EventNumbers DEF Stream!Follows
      <3>4. Stream!Shaped(Append(g, event'))
        BY <1>2, <2>1, <2>5, <3>1, <3>2, <3>3, ShapedFollows DEF g
      <3>5. status' = "ok" => producer' = "stopped" /\ k + 1 = produced' + (IF event' = -4 THEN 1 ELSE 0)
                              /\ \A i \in 1 .. produced' : g[i] = i
        BY <1>1, <2>1, <2>5, <2>7, <3>1, <3>2
      <3>6. Delivers'
        BY <2>6, <3>1, <3>2, <3>4, <3>5, DeliversNext
      <3> QED
        BY <1>3, <2>1, <2>5, <2>6, <3>2, <3>6 DEF Pumping, Stream!Shaped
    <2> QED
      BY <2>8, <2>9, <2>10
  <1> QED
    BY <1>4, <1>5

LEMMA ClientKeeps ==
  ASSUME Pumping, Stream!ClientReads \/ Stream!ClientLeaves \/ Stream!DeadlinePasses \/ UNCHANGED Stream!vars
  PROVE  Pumping'
  <1>0. received \in Seq(Int) /\ events \in Seq(Int)
    BY DEF Pumping, Ints
  <1>1. CASE Stream!ClientLeaves
    <2>1. /\ client' = "gone" /\ events' = << >> /\ UNCHANGED <<produced, producer, chunks, pump, event, status, received>>
      BY <1>1 DEF Stream!ClientLeaves, Stream!source
    <2>2. Stream!Handed' = received
      BY <1>0, <2>1 DEF Stream!Handed
    <2>3. Stream!Shaped(Stream!Handed)'
      <3>1. Stream!Shaped(received)
        BY <1>0, ShapedStart DEF Pumping, Stream!Handed
      <3> QED
        BY <2>2, <3>1 DEF Stream!Shaped
    <2>4. << >> \in Seq(Int)
      OBVIOUS
    <2> QED
      BY <2>1, <2>3, <2>4 DEF Pumping, Ints, Delivers
  <1>2. CASE Stream!ClientReads \/ Stream!DeadlinePasses \/ UNCHANGED Stream!vars
    <2>1. /\ Stream!Handed' = Stream!Handed /\ received' \in Seq(Int) /\ events' \in Seq(Int)
          /\ UNCHANGED <<produced, producer, chunks, pump, event, status, client>>
          /\ client # "reading" => UNCHANGED events
      <3>1. CASE Stream!ClientReads
        <4>1. /\ events # << >> /\ received' = Append(received, Head(events)) /\ events' = Tail(events) /\ client = "reading"
              /\ UNCHANGED <<produced, producer, chunks, pump, event, status, client>>
          BY <3>1 DEF Stream!ClientReads, Stream!source
        <4>2. Head(events) \in Int /\ Tail(events) \in Seq(Int)
          BY <1>0, <4>1
        <4>3. received' \in Seq(Int) /\ events' \in Seq(Int)
          BY <1>0, <4>1, <4>2
        <4>4. Stream!Handed' = Stream!Handed
          BY <1>0, <4>1, ReadKeeps DEF Stream!Handed
        <4> QED
          BY <4>1, <4>3, <4>4
      <3>2. CASE Stream!DeadlinePasses \/ UNCHANGED Stream!vars
        BY <1>0, <3>2 DEF Stream!DeadlinePasses, Stream!vars, Stream!source, Stream!sink, Stream!Handed
      <3> QED
        BY <1>2, <3>1, <3>2
    <2>2. Ints'
      BY <2>1 DEF Pumping, Ints
    <2>3. Stream!Shaped(Stream!Handed)'
      BY <2>1 DEF Pumping, Stream!Shaped
    <2>4. ASSUME client = "reading" PROVE Delivers'
      <3> DEFINE h == Stream!Handed
      <3>1. Loop(h) /\ Send(h) /\ End(h) /\ Len(h) \in Nat
        BY <2>4, HandedIsSeq DEF Pumping, Delivers
      <3>2. PICK k \in Nat : k = Len(h)
        BY <3>1
      <3>3. (Queue(k) => Queue(k)') /\ (Queue(k + 1) => Queue(k + 1)')
        BY <2>1 DEF Queue
      <3> HIDE DEF h
      <3>4. Stream!Handed' = h /\ k = Len(Stream!Handed')
        BY <2>1, <3>2 DEF h
      <3>5. pump' \in {"top", "recv"} => status' = "ok" /\ Counted(h) /\ Queue(k)'
        BY <2>1, <3>1, <3>2, <3>3 DEF Loop
      <3>6. pump' = "sending" =>
              /\ Stream!Shaped(Append(h, event'))
              /\ event' >= 0 => status' = "ok" /\ Counted(h) /\ event' = k + 1 /\ event' \in Stream!Content /\ Queue(k + 1)'
              /\ event' < 0 => event' \in {-1, -2, -3, -4}
              /\ event' \in {-1, -2} => status' # "ok"
              /\ event' < 0 /\ status' = "ok" =>
                   /\ producer' = "stopped" /\ \A i \in 1 .. produced' : h[i] = i
                   /\ k = produced' + (IF event' = -4 THEN 1 ELSE 0)
        BY <2>1, <3>1, <3>2, <3>3 DEF Send
      <3>7. pump' = "ended" /\ status' = "ok" =>
              producer' = "stopped" /\ k = produced' + 2 /\ \A i \in 1 .. produced' : h[i] = i
        BY <2>1, <3>1, <3>2 DEF End
      <3> QED
        BY <3>4, <3>5, <3>6, <3>7, DeliversNext
    <2> QED
      BY <2>1, <2>2, <2>3, <2>4 DEF Pumping, Delivers
  <1> QED
    BY <1>1, <1>2

(* Whatever the order in which producer, pump and client run, the client is
   handed the chunks without a gap and one terminator, and an answer audited as
   "ok" is complete (lib.rs:1029-1130, openai.rs). *)
THEOREM WholeAnswers == MCSpec => []AnswerIsWhole
  <1>1. MCInit => Pumping
    <2> SUFFICES ASSUME Stream!Init PROVE Pumping
      BY DEF MCInit
    <2>1. /\ buffered \in BOOLEAN /\ produced = (IF buffered THEN 1 ELSE 0)
          /\ producer = (IF buffered THEN "sending" ELSE "reading") /\ chunks = << >> /\ pump = "top" /\ event = -4
          /\ status = "ok" /\ events = << >> /\ client = "reading" /\ received = << >>
      BY EventNumbers DEF Stream!Init
    <2>2. Ints
      <3>1. << >> \in Seq(Int)
        OBVIOUS
      <3> QED
        BY <2>1, <3>1, EventNumbers DEF Ints
    <2>3. Stream!Handed = << >> /\ Len(<< >>) = 0 /\ << >> \in Seq(Int)
      BY <2>1 DEF Stream!Handed
    <2>4. Counted(Stream!Handed)
      BY <2>3 DEF Counted
    <2>5. Stream!Shaped(Stream!Handed)
      BY <2>3, <2>4, CountedGrows
    <2>6. Queue(Len(Stream!Handed))
      BY <2>1, <2>3 DEF Queue
    <2> QED
      BY <2>1, <2>2, <2>4, <2>5, <2>6 DEF Pumping, Delivers, Loop, Send, End
  <1>2. Pumping /\ [MCNext]_MCVars => Pumping'
    <2> SUFFICES ASSUME Pumping, [Stream!Next]_Stream!vars PROVE Pumping'
      BY StreamSteps
    <2> QED
      BY ProducerKeeps, TopKeeps, RecvKeeps, SendKeeps, ClientKeeps
         DEF Stream!Next, Stream!stream_completion_response, Stream!Finished
  <1>3. Pumping => AnswerIsWhole
    BY DEF Pumping, Delivers, End, AnswerIsWhole, Stream!StreamShape, Stream!OkMeansComplete
  <1> QED
    BY <1>1, <1>2, <1>3, PTL DEF MCSpec

-----------------------------------------------------------------------------
(* The door. *)

(* Division by a positive number, rounded down. *)
LEMMA Quotient ==
  ASSUME NEW n \in Nat, NEW d \in Nat \ {0}
  PROVE  /\ n \div d \in Nat
         /\ d * (n \div d) <= n /\ n < d * (n \div d) + d
  OBVIOUS

LEMMA DayInRange ==
  ASSUME NEW t \in Time
  PROVE  DayOf(t) \in Days
  BY AdmissionAssumption DEF Time, DayOf, Days

LEMMA LaterDay ==
  ASSUME NEW s \in Nat, NEW t \in Nat, s <= t
  PROVE  DayOf(s) <= DayOf(t)
  BY AdmissionAssumption DEF DayOf

LEMMA EnoughRefill ==
  ASSUME NEW n \in Nat, n < Price, NEW d \in Nat, d >= RetryAfter(n)
  PROVE  n + Refill * d >= Price
  BY AdmissionAssumption DEF RetryAfter

LEMMA MoreSlots ==
  ASSUME NEW S \in SUBSET Requests, NEW T \in SUBSET Requests, S \subseteq T
  PROVE  /\ Cardinality(S) \in Nat /\ Cardinality(T) \in Nat
         /\ Cardinality(S) <= Cardinality(T) /\ Cardinality(T) <= Cardinality(Requests)
         /\ \A r \in T \ S : Cardinality(S) + 1 <= Cardinality(T)
  <1>1. IsFiniteSet(T) /\ IsFiniteSet(S) /\ Cardinality(S) <= Cardinality(T) /\ Cardinality(T) <= Cardinality(Requests)
    BY AdmissionAssumption, FS_Subset
  <1>2. Cardinality(S) \in Nat /\ Cardinality(T) \in Nat
    BY <1>1, FS_CardinalityType
  <1>3. ASSUME NEW r \in T \ S PROVE Cardinality(S) + 1 <= Cardinality(T)
    <2>1. Cardinality(S \cup {r}) = Cardinality(S) + 1
      BY <1>1, FS_AddElement
    <2>2. Cardinality(S \cup {r}) <= Cardinality(T)
      BY <1>1, <1>3, FS_Subset
    <2> QED
      BY <2>1, <2>2
  <1> QED
    BY <1>1, <1>2, <1>3

-----------------------------------------------------------------------------
(* The door.  A request under way is charged to its principal and holds a clock
   reading that is not in the future. *)
SlotsOK ==
  /\ now \in Time
  /\ step \in [Requests -> {"out", "quota", "clock", "bucket", "inside"}]
  /\ principal \in [Requests -> Tenants \cup {NoTenant}]
  /\ tenant \in [Requests -> Tenants \cup {NoTenant}]
  /\ stamp \in [Requests -> Time]
  /\ \A r \in Requests : step[r] # "out" => tenant[r] \in Tenants /\ principal[r] = tenant[r]
  /\ \A r \in Requests : stamp[r] <= now

(* The slots that cannot pass the quota with the key of a day before d any more:
   each did at most once, and that is all a tenant gets on day d beyond what is
   counted on that day. *)
Past(d) == {r \in Requests : ~(step[r] = "quota" /\ DayOf(stamp[r]) < d)}
QuotaOK ==
  /\ counters \in [Tenants -> [Days -> 0 .. MaxPerDay]]
  /\ own = counters
  /\ onDay \in [Tenants -> [Days -> Nat]]
  /\ \A t \in Tenants, d \in Days :
       /\ onDay[t][d] <= own[t][d] + Cardinality(Past(d))
       /\ d > DayOf(now) => onDay[t][d] = 0

(* A bucket that was used keeps its books, and a refusal names the time when what
   it left will have grown to the price. *)
BucketOK ==
  /\ tokens \in [Tenants -> 0 .. Capacity]
  /\ refilled \in [Tenants -> Time \cup {Never}]
  /\ taken \in [Tenants -> Nat]
  /\ born \in [Tenants -> Time]
  /\ rewound \in [Tenants -> Nat]
  /\ promise \in [Tenants -> Nat \cup {Never}]
  /\ \A t \in Tenants : refilled[t] = Never => taken[t] = 0
  /\ BucketConserves
  /\ \A t \in Tenants : promise[t] # Never =>
       /\ refilled[t] # Never /\ tokens[t] < Price
       /\ promise[t] = refilled[t] + RetryAfter(tokens[t])

DoorInv == SlotsOK /\ QuotaOK /\ BucketOK

LEMMA Authenticated ==
  ASSUME NEW header \in Headers
  PROVE  authenticate_bearer(header) \in Tenants \cup {NoTenant}
  BY AdmissionAssumption DEF authenticate_bearer, NoTenant

LEMMA LeaveSlots ==
  ASSUME SlotsOK, NEW r \in Requests, Leave(r), UNCHANGED now
  PROVE  SlotsOK' /\ \A d \in Days : Past(d) \subseteq Past(d)'
  <1>1. SlotsOK'
    BY AdmissionAssumption DEF SlotsOK, Leave, Time
  <1>2. ASSUME NEW d \in Days, NEW q \in Past(d) PROVE q \in Past(d)'
    BY DEF SlotsOK, Leave, Past
  <1> QED
    BY <1>1, <1>2

(* Where nothing is counted and no slot falls back. *)
LEMMA QuotaStays ==
  ASSUME SlotsOK, QuotaOK, UNCHANGED quota, now' \in Time, now' >= now,
         \A d \in Days : d <= DayOf(now') => Past(d) \subseteq Past(d)'
  PROVE  QuotaOK'
  <1>1. UNCHANGED <<counters, own, onDay>>
    BY DEF quota
  <1>2. ASSUME NEW t \in Tenants, NEW d \in Days
        PROVE  /\ onDay[t][d] <= own[t][d] + Cardinality(Past(d)')
               /\ d > DayOf(now') => onDay[t][d] = 0
    <2>1. /\ onDay[t][d] \in Nat /\ own[t][d] \in Nat
          /\ onDay[t][d] <= own[t][d] + Cardinality(Past(d))
          /\ d > DayOf(now) => onDay[t][d] = 0
      BY DEF QuotaOK
    <2>2. now \in Nat /\ now' \in Nat /\ DayOf(now) \in Int /\ DayOf(now') \in Int /\ DayOf(now) <= DayOf(now') /\ d \in Int
      BY DayInRange, LaterDay DEF SlotsOK, Time, Days
    <2>3. Past(d) \in SUBSET Requests /\ Past(d)' \in SUBSET Requests
      BY DEF Past
    <2>4. Cardinality(Past(d)) \in Nat /\ Cardinality(Past(d)') \in Nat
      BY <2>3, MoreSlots
    <2>5. CASE d <= DayOf(now')
      <3>1. Cardinality(Past(d)) <= Cardinality(Past(d)')
        BY <2>3, <2>5, MoreSlots
      <3> QED
        BY <2>1, <2>2, <2>4, <2>5, <3>1
    <2>6. CASE ~(d <= DayOf(now'))
      BY <2>1, <2>2, <2>4, <2>6
    <2> QED
      BY <2>5, <2>6
  <1> QED
    BY <1>1, <1>2 DEF QuotaOK
LEMMA ArriveKeeps ==
  ASSUME DoorInv, NEW r \in Requests, NEW header \in Headers, NEW explicit \in Tenants \cup {NoTenant},
         Arrive(r, header, explicit)
  PROVE  DoorInv'
  <1> DEFINE who == authenticate_bearer(header)
  <1>1. /\ who # NoTenant /\ ChargedTenant(who, explicit) = who /\ who \in Tenants
        /\ step[r] = "out"
        /\ step' = [step EXCEPT ![r] = "quota"] /\ principal' = [principal EXCEPT ![r] = who]
        /\ tenant' = [tenant EXCEPT ![r] = who] /\ stamp' = [stamp EXCEPT ![r] = now]
        /\ UNCHANGED <<now, quota, bucket>>
    BY Authenticated DEF Arrive, ChargedTenant
  <1> HIDE DEF who
  <1>2. SlotsOK'
    BY <1>1 DEF DoorInv, SlotsOK, Time
  <1>3. ASSUME NEW d \in Days, d <= DayOf(now'), NEW q \in Past(d) PROVE q \in Past(d)'
    <2>1. CASE q = r
      BY <1>1, <1>3, <2>1, DayInRange DEF DoorInv, SlotsOK, Past, Days
    <2>2. CASE q # r
      BY <1>1, <2>2 DEF DoorInv, SlotsOK, Past
    <2> QED
      BY <2>1, <2>2
  <1>4. QuotaOK'
    BY <1>1, <1>3, QuotaStays DEF DoorInv, SlotsOK, Time
  <1>5. BucketOK'
    BY <1>1 DEF DoorInv, BucketOK, BucketConserves, bucket
  <1> QED
    BY <1>2, <1>4, <1>5 DEF DoorInv

LEMMA ConsumeKeeps ==
  ASSUME DoorInv, NEW r \in Requests, Consume(r)
  PROVE  DoorInv'
  <1> DEFINE t == tenant[r]
             k == DayOf(stamp[r])
             today == DayOf(now)
  <1>1. /\ step[r] = "quota" /\ UNCHANGED <<now, bucket>>
        /\ t \in Tenants /\ principal[r] = t
        /\ k \in Days /\ today \in Days /\ k <= today
    <2>1. stamp[r] \in Time /\ now \in Time /\ stamp[r] <= now
      BY DEF DoorInv, SlotsOK
    <2> QED
      BY <2>1, DayInRange, LaterDay DEF Consume, DoorInv, SlotsOK, Time
  <1>2. BucketOK'
    BY <1>1 DEF DoorInv, BucketOK, BucketConserves, bucket
  <1>3. CASE Leave(r) /\ UNCHANGED quota
    <2>1. SlotsOK' /\ \A d \in Days : Past(d) \subseteq Past(d)'
      BY <1>1, <1>3, LeaveSlots DEF DoorInv
    <2>2. QuotaOK'
      BY <1>1, <1>3, <2>1, QuotaStays DEF DoorInv, SlotsOK, Time
    <2> QED
      BY <1>2, <2>1, <2>2 DEF DoorInv
  <1>4. CASE /\ counters[t][k] < MaxPerDay
             /\ counters' = [counters EXCEPT ![t][k] = @ + 1]
             /\ own' = [own EXCEPT ![principal[r]][k] = @ + 1]
             /\ onDay' = [onDay EXCEPT ![principal[r]][today] = @ + 1]
             /\ step' = [step EXCEPT ![r] = "clock"]
             /\ UNCHANGED <<principal, tenant, stamp>>
    <2>1. SlotsOK'
      BY <1>1, <1>4 DEF DoorInv, SlotsOK
    <2>2. /\ own' = counters' /\ counters' \in [Tenants -> [Days -> 0 .. MaxPerDay]]
          /\ onDay' \in [Tenants -> [Days -> Nat]]
      BY <1>1, <1>4, AdmissionAssumption DEF DoorInv, QuotaOK
    <2>3. ASSUME NEW d \in Days PROVE Past(d)' = Past(d) \cup {r}
      BY <1>1, <1>4, <2>3 DEF Past, DoorInv, SlotsOK
    <2>4. ASSUME NEW u \in Tenants, NEW d \in Days
          PROVE  /\ onDay'[u][d] <= own'[u][d] + Cardinality(Past(d)')
                 /\ d > DayOf(now') => onDay'[u][d] = 0
      <3>1. /\ onDay[u][d] \in Nat /\ own[u][d] \in Nat /\ own'[u][d] \in Nat
            /\ onDay[u][d] <= own[u][d] + Cardinality(Past(d))
            /\ d > today => onDay[u][d] = 0
        BY <1>1, <2>2 DEF DoorInv, QuotaOK
      <3>2. own'[u][d] = own[u][d] + (IF u = t /\ d = k THEN 1 ELSE 0)
        BY <1>1, <1>4 DEF DoorInv, QuotaOK
      <3>3. onDay'[u][d] = onDay[u][d] + (IF u = t /\ d = today THEN 1 ELSE 0)
        BY <1>1, <1>4 DEF DoorInv, QuotaOK
      <3>4. Past(d) \in SUBSET Requests /\ Past(d)' \in SUBSET Requests /\ Past(d) \subseteq Past(d)'
        BY <2>3 DEF Past
      <3>5. /\ Cardinality(Past(d)) \in Nat /\ Cardinality(Past(d)') \in Nat
            /\ Cardinality(Past(d)) <= Cardinality(Past(d)')
        BY <3>4, MoreSlots
      <3>6. CASE d = today /\ k < today
        <4>1. r \in Past(d)' \ Past(d)
          BY <1>1, <2>3, <3>6 DEF Past
        <4>2. Cardinality(Past(d)) + 1 <= Cardinality(Past(d)')
          BY <3>4, <4>1, MoreSlots
        <4>3. today \in Int /\ k \in Int /\ d \in Int /\ DayOf(now') = today
          BY <1>1 DEF Days
        <4>4. onDay'[u][d] <= onDay[u][d] + 1 /\ own'[u][d] >= own[u][d]
          BY <3>1, <3>2, <3>3
        <4> HIDE DEF today
        <4>5. onDay'[u][d] \in Nat
          BY <2>2
        <4> QED
          BY <3>1, <3>5, <3>6, <4>2, <4>3, <4>4, <4>5
      <3>7. CASE ~(d = today /\ k < today)
        <4>1. today \in Int /\ k \in Int /\ d \in Int
          BY <1>1 DEF Days
        <4> QED
          BY <1>1, <3>1, <3>2, <3>3, <3>5, <3>7, <4>1
      <3> QED
        BY <3>6, <3>7
    <2>5. QuotaOK'
      BY <2>2, <2>4 DEF QuotaOK
    <2> QED
      BY <1>2, <2>1, <2>5 DEF DoorInv
  <1>5. counters[t][k] \in 0 .. MaxPerDay /\ MaxPerDay \in Nat
    BY <1>1, AdmissionAssumption DEF DoorInv, QuotaOK
  <1>6. counters[t][k] >= MaxPerDay \/ counters[t][k] < MaxPerDay
    BY <1>5
  <1> QED
    BY <1>3, <1>4, <1>6 DEF Consume
LEMMA ReadClockKeeps ==
  ASSUME DoorInv, NEW r \in Requests, ReadClock(r)
  PROVE  DoorInv'
  <1>1. /\ step[r] = "clock" /\ step' = [step EXCEPT ![r] = "bucket"] /\ stamp' = [stamp EXCEPT ![r] = now]
        /\ UNCHANGED <<now, principal, tenant, quota, bucket>>
    BY DEF ReadClock
  <1>2. SlotsOK'
    BY <1>1 DEF DoorInv, SlotsOK, Time
  <1>3. ASSUME NEW d \in Days, NEW q \in Past(d) PROVE q \in Past(d)'
    BY <1>1, <1>3 DEF Past, DoorInv, SlotsOK
  <1>4. QuotaOK'
    BY <1>1, <1>3, QuotaStays DEF DoorInv, SlotsOK, Time
  <1>5. BucketOK'
    BY <1>1 DEF DoorInv, BucketOK, BucketConserves, bucket
  <1> QED
    BY <1>2, <1>4, <1>5 DEF DoorInv

(* What a bucket holds when it is asked, against what its books allow. *)
LEMMA Held ==
  ASSUME BucketOK, NEW t \in Tenants, NEW s \in Time
  PROVE  /\ Replenished(t, s) \in 0 .. Capacity
         /\ taken[t] + Replenished(t, s)
              <= Capacity + Refill * (s - (IF refilled[t] = Never THEN s ELSE born[t])
                                        + rewound[t] + AtLeastZero(refilled[t] - s))
  <1>1. /\ tokens[t] \in 0 .. Capacity /\ taken[t] \in Nat /\ born[t] \in Nat /\ rewound[t] \in Nat /\ s \in Nat
        /\ Capacity \in Nat /\ Refill \in Nat /\ Refill > 0
    BY AdmissionAssumption DEF BucketOK, Time
  <1>2. CASE refilled[t] = Never
    <2>1. Replenished(t, s) = Capacity /\ taken[t] = 0
      BY <1>2 DEF Replenished, BucketOK
    <2>2. AtLeastZero(refilled[t] - s) = 0
      BY <1>1, <1>2 DEF AtLeastZero, Never
    <2>3. Refill * rewound[t] \in Nat
      BY <1>1
    <2> QED
      BY <1>1, <1>2, <2>1, <2>2, <2>3
  <1>3. CASE refilled[t] # Never
    <2>1. refilled[t] \in Nat /\ taken[t] + tokens[t] <= Capacity + Refill * (refilled[t] - born[t] + rewound[t])
      BY <1>3 DEF BucketOK, BucketConserves, Time
    <2> DEFINE gap == AtLeastZero(s - refilled[t])
               back == AtLeastZero(refilled[t] - s)
    <2>2. gap \in Nat /\ back \in Nat /\ s + back = refilled[t] + gap
      BY <1>1, <2>1 DEF AtLeastZero
    <2>3. Replenished(t, s) = AtMost(tokens[t] + Refill * gap, Capacity)
      BY <1>3 DEF Replenished
    <2>4. Refill * gap \in Nat
      BY <1>1, <2>2
    <2>5. Replenished(t, s) \in 0 .. Capacity /\ Replenished(t, s) <= tokens[t] + Refill * gap
      BY <1>1, <2>3, <2>4 DEF AtMost
    <2> HIDE DEF gap, back
    <2>6. s - born[t] + rewound[t] + back = (refilled[t] - born[t] + rewound[t]) + gap
      <3>1. s \in Int /\ refilled[t] \in Int /\ born[t] \in Int /\ rewound[t] \in Int /\ gap \in Int /\ back \in Int
        BY <1>1, <2>1, <2>2
      <3> QED
        BY <2>2, <3>1
    <2>7. Refill * (s - born[t] + rewound[t] + back) = Refill * (refilled[t] - born[t] + rewound[t]) + Refill * gap
      BY <1>1, <2>1, <2>2, <2>6
    <2>8. /\ Refill * (refilled[t] - born[t] + rewound[t]) \in Int
          /\ taken[t] + Replenished(t, s) <= Capacity + Refill * (s - born[t] + rewound[t] + back)
      BY <1>1, <2>1, <2>4, <2>5, <2>7
    <2> QED
      BY <1>3, <2>5, <2>8 DEF back
  <1> QED
    BY <1>2, <1>3

LEMMA CheckKeeps ==
  ASSUME DoorInv, NEW r \in Requests, CheckAndConsume(r)
  PROVE  DoorInv'
  <1> DEFINE t == tenant[r]
             s == stamp[r]
             held == Replenished(t, s)
  <1>1. /\ step[r] = "bucket" /\ t \in Tenants /\ s \in Time /\ UNCHANGED <<now, quota>>
        /\ refilled' = [refilled EXCEPT ![t] = s]
        /\ born' = [born EXCEPT ![t] = IF refilled[t] = Never THEN s ELSE @]
        /\ rewound' = [rewound EXCEPT ![t] = @ + AtLeastZero(refilled[t] - s)]
    BY DEF CheckAndConsume, DoorInv, SlotsOK
  <1>2. \/ /\ held >= Price
           /\ tokens' = [tokens EXCEPT ![t] = held - Price] /\ taken' = [taken EXCEPT ![t] = @ + Price]
           /\ promise' = [promise EXCEPT ![t] = Never]
           /\ step' = [step EXCEPT ![r] = "inside"] /\ UNCHANGED <<principal, tenant, stamp>>
        \/ /\ ~(held >= Price)
           /\ tokens' = [tokens EXCEPT ![t] = held] /\ UNCHANGED taken
           /\ promise' = [promise EXCEPT ![t] = s + RetryAfter(held)]
           /\ Leave(r)
    BY DEF CheckAndConsume
  <1>3. /\ held \in 0 .. Capacity
        /\ taken[t] + held <= Capacity + Refill * (s - (IF refilled[t] = Never THEN s ELSE born[t])
                                                     + rewound[t] + AtLeastZero(refilled[t] - s))
    BY <1>1, Held DEF DoorInv
  <1> HIDE DEF held
  <1>4. SlotsOK' /\ \A d \in Days : Past(d) \subseteq Past(d)'
    <2>1. CASE Leave(r)
      BY <1>1, <2>1, LeaveSlots DEF DoorInv
    <2>2. CASE step' = [step EXCEPT ![r] = "inside"] /\ UNCHANGED <<principal, tenant, stamp>>
      <3>1. SlotsOK'
        BY <1>1, <2>2 DEF DoorInv, SlotsOK
      <3>2. ASSUME NEW d \in Days, NEW q \in Past(d) PROVE q \in Past(d)'
        BY <1>1, <2>2, <3>2 DEF Past, DoorInv, SlotsOK
      <3> QED
        BY <3>1, <3>2
    <2> QED
      BY <1>2, <2>1, <2>2
  <1>5. QuotaOK'
    BY <1>1, <1>4, QuotaStays DEF DoorInv, SlotsOK, Time
  <1>6. /\ Price \in Nat /\ Price > 0 /\ Capacity \in Nat /\ Refill \in Nat /\ Refill > 0
    BY AdmissionAssumption
  <1>7. /\ tokens' \in [Tenants -> 0 .. Capacity] /\ refilled' \in [Tenants -> Time \cup {Never}]
        /\ taken' \in [Tenants -> Nat] /\ born' \in [Tenants -> Time] /\ rewound' \in [Tenants -> Nat]
    <2>1. AtLeastZero(refilled[t] - s) \in Nat
      BY <1>1 DEF AtLeastZero, DoorInv, BucketOK, Time, Never
    <2>2. tokens' \in [Tenants -> 0 .. Capacity] /\ taken' \in [Tenants -> Nat]
      BY <1>1, <1>2, <1>3, <1>6 DEF DoorInv, BucketOK
    <2>3. refilled' \in [Tenants -> Time \cup {Never}] /\ born' \in [Tenants -> Time]
      BY <1>1 DEF DoorInv, BucketOK
    <2>4. rewound' \in [Tenants -> Nat]
      BY <1>1, <2>1 DEF DoorInv, BucketOK
    <2> QED
      BY <2>2, <2>3, <2>4
  <1>8. /\ refilled'[t] = s /\ s # Never /\ \A u \in Tenants \ {t} :
             /\ refilled'[u] = refilled[u] /\ taken'[u] = taken[u] /\ tokens'[u] = tokens[u] /\ born'[u] = born[u]
             /\ rewound'[u] = rewound[u] /\ promise'[u] = promise[u]
    BY <1>1, <1>2 DEF DoorInv, BucketOK, Time, Never
  <1>9. taken'[t] + tokens'[t] = taken[t] + held
    BY <1>1, <1>2, <1>3, <1>6 DEF DoorInv, BucketOK
  <1>10. /\ born'[t] = (IF refilled[t] = Never THEN s ELSE born[t])
         /\ rewound'[t] = rewound[t] + AtLeastZero(refilled[t] - s)
    BY <1>1 DEF DoorInv, BucketOK
  <1>11. BucketConserves'
    <2> SUFFICES ASSUME NEW u \in Tenants, refilled'[u] # Never
                 PROVE  taken'[u] + tokens'[u] <= Capacity + Refill * (refilled'[u] - born'[u] + rewound'[u])
      BY DEF BucketConserves
    <2>1. CASE u = t
      <3>1. refilled'[u] - born'[u] + rewound'[u]
              = s - (IF refilled[t] = Never THEN s ELSE born[t]) + rewound[t] + AtLeastZero(refilled[t] - s)
        <4>1. /\ s \in Int /\ born[t] \in Int /\ rewound[t] \in Int /\ AtLeastZero(refilled[t] - s) \in Int
          BY <1>1 DEF AtLeastZero, DoorInv, BucketOK, Time, Never
        <4> QED
          BY <1>8, <1>10, <2>1, <4>1
      <3> QED
        BY <1>3, <1>9, <2>1, <3>1
    <2>2. CASE u # t
      BY <1>8, <2>2 DEF DoorInv, BucketOK, BucketConserves
    <2> QED
      BY <2>1, <2>2
  <1>12. ASSUME NEW u \in Tenants
         PROVE  /\ promise'[u] \in Nat \cup {Never}
                /\ promise'[u] # Never => /\ refilled'[u] # Never /\ tokens'[u] < Price
                                          /\ promise'[u] = refilled'[u] + RetryAfter(tokens'[u])
    <2>1. CASE u # t
      BY <1>8, <2>1 DEF DoorInv, BucketOK
    <2>2. CASE u = t /\ promise'[t] = Never
      BY <2>2
    <2>3. CASE u = t /\ ~(held >= Price) /\ tokens'[t] = held /\ promise'[t] = s + RetryAfter(held)
      <3>1. held \in Nat /\ held < Price
        BY <1>3, <1>6, <2>3
      <3>2. RetryAfter(held) \in Nat
        <4>1. Price - held + Refill - 1 \in Nat /\ Refill \in Nat \ {0}
          BY <1>6, <3>1
        <4> QED
          BY <4>1, Quotient DEF RetryAfter
      <3>3. s \in Nat
        BY <1>1 DEF Time
      <3> QED
        BY <1>8, <2>3, <3>1, <3>2, <3>3
    <2> QED
      BY <1>1, <1>2, <2>1, <2>2, <2>3 DEF DoorInv, BucketOK
  <1>13. promise' \in [Tenants -> Nat \cup {Never}]
    BY <1>1, <1>2, <1>12 DEF DoorInv, BucketOK
  <1>14. \A u \in Tenants : refilled'[u] = Never => taken'[u] = 0
    BY <1>8 DEF DoorInv, BucketOK
  <1>15. BucketOK'
    BY <1>7, <1>11, <1>12, <1>13, <1>14 DEF BucketOK
  <1> QED
    BY <1>4, <1>5, <1>15 DEF DoorInv
LEMMA DoorKeeps ==
  ASSUME DoorInv, [Next]_vars
  PROVE  DoorInv'
  <1>1. ASSUME NEW r \in Requests, Finish(r) PROVE DoorInv'
    <2>1. Leave(r) /\ UNCHANGED <<now, quota, bucket>>
      BY <1>1 DEF Finish
    <2>2. SlotsOK' /\ \A d \in Days : Past(d) \subseteq Past(d)'
      BY <2>1, LeaveSlots DEF DoorInv
    <2>3. QuotaOK'
      BY <2>1, <2>2, QuotaStays DEF DoorInv, SlotsOK, Time
    <2>4. BucketOK'
      BY <2>1 DEF DoorInv, BucketOK, BucketConserves, bucket
    <2> QED
      BY <2>2, <2>3, <2>4 DEF DoorInv
  <1>2. CASE Tick \/ UNCHANGED vars
    <2>1. /\ now' \in Time /\ now' >= now
          /\ UNCHANGED <<step, principal, tenant, stamp, quota, bucket>>
      BY <1>2, AdmissionAssumption DEF Tick, vars, quota, bucket, DoorInv, SlotsOK, Time
    <2>2. SlotsOK'
      BY <2>1 DEF DoorInv, SlotsOK, Time
    <2>3. \A d \in Days : Past(d) \subseteq Past(d)'
      BY <2>1 DEF Past
    <2>4. QuotaOK'
      BY <2>1, <2>3, QuotaStays DEF DoorInv
    <2>5. BucketOK'
      BY <2>1 DEF DoorInv, BucketOK, BucketConserves, bucket
    <2> QED
      BY <2>2, <2>4, <2>5 DEF DoorInv
  <1> QED
    BY <1>1, <1>2, ArriveKeeps, ConsumeKeeps, ReadClockKeeps, CheckKeeps DEF Next, chat_completions

LEMMA DoorInit == Init => DoorInv
  <1> SUFFICES ASSUME Init PROVE DoorInv
    OBVIOUS
  <1>1. 0 \in Time
    BY AdmissionAssumption DEF Time
  <1>2. SlotsOK
    BY <1>1, AdmissionAssumption DEF Init, SlotsOK
  <1>3. QuotaOK
    <2>1. ASSUME NEW d \in Days PROVE Cardinality(Past(d)) \in Nat
      <3>1. Past(d) \in SUBSET Requests
        BY DEF Past
      <3> QED
        BY <3>1, MoreSlots
    <2>2. \A t \in Tenants, d \in Days : onDay[t][d] = 0 /\ own[t][d] = 0
      BY DEF Init
    <2> QED
      BY <2>1, <2>2, AdmissionAssumption DEF Init, QuotaOK
  <1>4. BucketOK
    BY <1>1, AdmissionAssumption DEF Init, BucketOK, BucketConserves, Never
  <1> QED
    BY <1>2, <1>3, <1>4 DEF DoorInv

(* In the composition the door makes steps of its own, or none. *)
LEMMA DoorSteps == [MCNext]_MCVars => [Next]_vars
  BY DEF MCNext, MCVars

LEMMA DoorHolds == MCSpec => []DoorInv
  <1>1. MCInit => DoorInv
    BY DoorInit DEF MCInit
  <1>2. DoorInv /\ [MCNext]_MCVars => DoorInv'
    BY DoorKeeps, DoorSteps
  <1> QED
    BY <1>1, <1>2, PTL DEF MCSpec

(* With any number of requests, tenants and days, and whatever request reads the
   clock and is overtaken before its lock: on one real day a tenant passes the
   quota at most once more per request that straddles midnight, and its bucket
   pays twice only for the time by which its mark was moved back (quota.rs:38-60,
   rate_limit.rs:52-90). *)
THEOREM Limits == MCSpec => []LimitersSound
  <1>1. DoorInv => LimitersSound
    <2> SUFFICES ASSUME DoorInv PROVE DailyOvershoot
      BY DEF LimitersSound, DoorInv, BucketOK
    <2>1. ASSUME NEW t \in Tenants, NEW d \in Days PROVE onDay[t][d] <= MaxPerDay + Cardinality(Requests)
      <3>1. /\ onDay[t][d] \in Nat /\ own[t][d] \in 0 .. MaxPerDay
            /\ onDay[t][d] <= own[t][d] + Cardinality(Past(d))
        BY DEF DoorInv, QuotaOK
      <3>2. Past(d) \in SUBSET Requests /\ Requests \in SUBSET Requests
        BY DEF Past
      <3>3. /\ Cardinality(Past(d)) \in Nat /\ Cardinality(Requests) \in Nat
            /\ Cardinality(Past(d)) <= Cardinality(Requests)
        BY <3>2, MoreSlots
      <3> QED
        BY <3>1, <3>3, AdmissionAssumption
    <2> QED
      BY <2>1 DEF DailyOvershoot
  <1> QED
    BY <1>1, DoorHolds, PTL

(* A tenant is refused for the quota only when its own requests used it up
   (quota.rs:38-60). *)
THEOREM TenantsAreIsolated == MCSpec => QuotaRefusalIsOwn
  <1>1. DoorInv /\ [Next]_vars =>
          [\A r \in Requests : (step[r] = "quota" /\ step'[r] = "out") => own[principal[r]][DayOf(stamp[r])] = MaxPerDay]_vars
    <2> SUFFICES ASSUME DoorInv, Next, NEW r \in Requests, step[r] = "quota", step'[r] = "out"
                 PROVE  own[principal[r]][DayOf(stamp[r])] = MaxPerDay
      OBVIOUS
    <2>1. Consume(r)
      BY DEF Next, Tick, chat_completions, Arrive, Consume, ReadClock, CheckAndConsume, Finish, Leave, DoorInv, SlotsOK
    <2>2. counters[tenant[r]][DayOf(stamp[r])] >= MaxPerDay
      BY <2>1 DEF Consume, DoorInv, SlotsOK
    <2>3. tenant[r] \in Tenants /\ principal[r] = tenant[r] /\ DayOf(stamp[r]) \in Days
      BY DayInRange DEF DoorInv, SlotsOK
    <2>4. counters[tenant[r]][DayOf(stamp[r])] \in 0 .. MaxPerDay /\ own = counters /\ MaxPerDay \in Nat
      BY <2>3, AdmissionAssumption DEF DoorInv, QuotaOK
    <2> QED
      BY <2>2, <2>3, <2>4
  <1> QED
    BY <1>1, DoorHolds, DoorSteps, PTL DEF MCSpec, QuotaRefusalIsOwn

(* A refusal names a time at which the next request is let in unless another took
   the token, whatever is refused or read late in between; for a bucket that can
   hold the price of a request, which the configuration does not see to
   (rate_limit.rs:32-47, 66-85). *)
THEOREM RefusalsAreHonest ==
  ASSUME Price <= Capacity
  PROVE  MCSpec => RetryAfterIsHonest
  <1>1. DoorInv /\ [Next]_vars =>
          [\A r \in Requests : (step[r] = "bucket" /\ step'[r] = "out")
             => ~(promise[tenant[r]] # Never /\ stamp[r] >= promise[tenant[r]])]_vars
    <2> SUFFICES ASSUME DoorInv, Next, NEW r \in Requests, step[r] = "bucket", step'[r] = "out",
                        promise[tenant[r]] # Never, stamp[r] >= promise[tenant[r]]
                 PROVE  FALSE
      OBVIOUS
    <2> DEFINE t == tenant[r]
               s == stamp[r]
    <2>1. CheckAndConsume(r)
      BY DEF Next, Tick, chat_completions, Arrive, Consume, ReadClock, CheckAndConsume, Finish, Leave, DoorInv, SlotsOK
    <2>2. t \in Tenants /\ s \in Nat
      BY DEF DoorInv, SlotsOK, Time
    <2>3. ~(Replenished(t, s) >= Price)
      BY <2>1 DEF CheckAndConsume, DoorInv, SlotsOK
    <2>4. /\ refilled[t] \in Nat /\ tokens[t] \in Nat /\ tokens[t] < Price
          /\ s >= refilled[t] + RetryAfter(tokens[t]) /\ RetryAfter(tokens[t]) \in Nat
          /\ refilled[t] # Never
      <3>1. /\ refilled[t] \in Nat /\ tokens[t] \in Nat /\ tokens[t] < Price /\ refilled[t] # Never
            /\ s >= refilled[t] + RetryAfter(tokens[t])
        BY <2>2 DEF DoorInv, BucketOK, Time
      <3>2. Price - tokens[t] + Refill - 1 \in Nat /\ Refill \in Nat \ {0}
        BY <3>1, AdmissionAssumption
      <3> QED
        BY <3>1, <3>2, Quotient DEF RetryAfter
    <2>5. s - refilled[t] \in Nat /\ s - refilled[t] >= RetryAfter(tokens[t])
      BY <2>2, <2>4
    <2>6. tokens[t] + Refill * (s - refilled[t]) >= Price
      BY <2>4, <2>5, EnoughRefill
    <2>7. Replenished(t, s) = AtMost(tokens[t] + Refill * (s - refilled[t]), Capacity)
      BY <2>4, <2>5, AdmissionAssumption DEF Replenished, AtLeastZero
    <2>8. Refill * (s - refilled[t]) \in Nat
      BY <2>5, AdmissionAssumption
    <2> QED
      BY <2>3, <2>4, <2>6, <2>7, <2>8, AdmissionAssumption DEF AtMost
  <1> QED
    BY <1>1, DoorHolds, DoorSteps, PTL DEF MCSpec, RetryAfterIsHonest
=============================================================================
