---------------------------- MODULE GatewayStream ---------------------------
(***************************************************************************)
(* One streamed answer of the gateway, crates/eidolon-gateway/src/lib.rs:  *)
(*                                                                         *)
(*   provider --lines--> producer task --chunks--> pump task --events-->   *)
(*   client                                                                *)
(*                                                                         *)
(* The producer is the task invoke_stream spawns (a live local answer) or  *)
(* the one of single_chunk_stream (an external answer, already complete).  *)
(* The pump is the task stream_completion_response spawns.  Both channels  *)
(* are bounded: a send waits for room and fails once the receiver is gone. *)
(* The pump's deadline is checked at the top of its loop and bounds its    *)
(* wait for a chunk, but not its sends.                                    *)
(***************************************************************************)
EXTENDS Integers, Sequences

CONSTANTS
  MaxChunks,       \* bound: content chunks a provider produces
  ChunkCapacity,   \* capacity of the provider channel (64 in the code)
  StreamCapacity   \* stream_channel_capacity

(* Content is named by its position in the provider's answer; the other
   events, and the Err(_) item of the chunk channel, by numbers below 1. *)
Content == 1 .. MaxChunks
Failure == 0
StreamTimeout == -1
StreamProviderError == -2
FinishChunk == -3
DONE == -4                                        \* data: [DONE]
Events == Content \cup {StreamTimeout, StreamProviderError, FinishChunk, DONE}
Statuses == {"ok", "timeout", "provider_stream_error", "cancelled"}

VARIABLES
  buffered,    \* the answer is external: one chunk, known from the start
  produced,    \* content chunks the producer took from the provider
  producer,    \* "reading", "sending" the last of them, "failing" (sending the error), "stopped"
  chunks,      \* the provider channel
  pump,        \* "top", "recv", "sending" event, or "ended"
  event,       \* the event the pump is sending, or sent last
  status,      \* the pump's status, audited when it ends
  events,      \* the SSE channel
  client,      \* "reading" or "gone"
  received,    \* what the client has read
  deadline,    \* the stream's deadline has passed
  late         \* history: content handed to the client after the deadline

vars == <<buffered, produced, producer, chunks, pump, event, status, events, client,
          received, deadline, late>>
source == <<buffered, produced, producer>>
sink == <<client, received>>

TypeOK ==
  /\ buffered \in BOOLEAN
  /\ produced \in 0 .. MaxChunks
  /\ producer \in {"reading", "sending", "failing", "stopped"}
  /\ chunks \in Seq(Content \cup {Failure}) /\ Len(chunks) <= ChunkCapacity
  /\ pump \in {"top", "recv", "sending", "ended"}
  /\ event \in Events
  /\ status \in Statuses
  /\ events \in Seq(Events) /\ Len(events) <= StreamCapacity
  /\ client \in {"reading", "gone"}
  /\ received \in Seq(Events)
  /\ deadline \in BOOLEAN
  /\ late \in Nat

Init ==
  /\ buffered \in BOOLEAN
  /\ produced = IF buffered THEN 1 ELSE 0
  /\ producer = IF buffered THEN "sending" ELSE "reading"
  /\ chunks = <<>>
  /\ pump = "top"
  /\ event = DONE
  /\ status = "ok"
  /\ events = <<>>
  /\ client = "reading"
  /\ received = <<>>
  /\ deadline = FALSE
  /\ late = 0

-----------------------------------------------------------------------------
(* The provider and the producer task. *)

(* A line with content.  Blank lines, comments and empty deltas are skipped
   by handle_stream_line and change nothing. *)
ProviderLine ==
  /\ producer = "reading"
  /\ produced < MaxChunks
  /\ produced' = produced + 1
  /\ producer' = "sending"
  /\ UNCHANGED <<buffered, chunks, pump, event, status, events, sink, deadline, late>>

(* "data: [DONE]", or the body just ends: the task returns either way. *)
ProviderEnds ==
  /\ producer = "reading"
  /\ producer' = "stopped"
  /\ UNCHANGED <<buffered, produced, chunks, pump, event, status, events, sink, deadline, late>>

(* A read error (the request's own timeout included) or a line that is no
   JSON: the error is sent on and the task returns. *)
ProviderFails ==
  /\ producer = "reading"
  /\ producer' = "failing"
  /\ UNCHANGED <<buffered, produced, chunks, pump, event, status, events, sink, deadline, late>>

Item == IF producer = "failing" THEN Failure ELSE produced
AfterItem == IF producer = "failing" \/ buffered THEN "stopped" ELSE "reading"

(* mutant: a full channel drops the chunk instead of waiting (try_send) *)
ProducerTrySends ==
  /\ producer \in {"sending", "failing"}
  /\ producer' = IF pump = "ended" THEN "stopped" ELSE AfterItem
  /\ chunks' = IF pump # "ended" /\ Len(chunks) < ChunkCapacity THEN Append(chunks, Item) ELSE chunks
  /\ UNCHANGED <<buffered, produced, pump, event, status, events, sink, deadline, late>>

(* mutant: the producer does not notice that the pump is gone *)
ProducerSendsBlindly ==
  /\ producer \in {"sending", "failing"}
  /\ pump # "ended" /\ Len(chunks) < ChunkCapacity
  /\ chunks' = Append(chunks, Item)
  /\ producer' = AfterItem
  /\ UNCHANGED <<buffered, produced, pump, event, status, events, sink, deadline, late>>

(* tx.send(item).await: waits while the channel is full, fails when the pump
   has dropped its end. *)
ProducerSends ==
  /\ producer \in {"sending", "failing"}
  /\ \/ /\ pump = "ended"
        /\ producer' = "stopped"
        /\ UNCHANGED chunks
     \/ /\ pump # "ended" /\ Len(chunks) < ChunkCapacity
        /\ chunks' = Append(chunks, Item)
        /\ producer' = AfterItem
  /\ UNCHANGED <<buffered, produced, pump, event, status, events, sink, deadline, late>>

-----------------------------------------------------------------------------
(* The pump task. *)

(* The task ends: it drops the chunk channel and audits its verdict. *)
EndWith(outcome) ==
  /\ pump' = "ended"
  /\ status' = outcome
  /\ chunks' = <<>>
  /\ UNCHANGED event

(* The loop is left with an error event to send. *)
Break(error, outcome) ==
  /\ pump' = "sending"
  /\ event' = error
  /\ status' = outcome

(* mutant: only the wait for a chunk is bounded *)
PumpTopUnchecked ==
  /\ pump = "top"
  /\ pump' = "recv"
  /\ UNCHANGED <<source, chunks, event, status, events, sink, deadline, late>>

(* top of the loop: the deadline first *)
PumpTop ==
  /\ pump = "top"
  /\ IF deadline
       THEN Break(StreamTimeout, "timeout")
       ELSE pump' = "recv" /\ UNCHANGED <<event, status>>
  /\ UNCHANGED <<source, chunks, events, sink, deadline, late>>

(* timeout(wait_for, chunks.recv()): a chunk that is there wins over a
   deadline that has passed; a closed and empty channel ends the answer. *)
PumpRecv ==
  /\ pump = "recv"
  /\ \/ /\ chunks # <<>>
        /\ chunks' = Tail(chunks)
        /\ IF Head(chunks) = Failure
             THEN Break(StreamProviderError, "provider_stream_error")
             ELSE pump' = "sending" /\ event' = Head(chunks) /\ UNCHANGED status
     \/ /\ chunks = <<>> /\ producer = "stopped"
        /\ Break(FinishChunk, status)
        /\ UNCHANGED chunks
     \/ /\ chunks = <<>> /\ producer # "stopped" /\ deadline
        /\ Break(StreamTimeout, "timeout")
        /\ UNCHANGED chunks
  /\ UNCHANGED <<source, events, sink, deadline, late>>

(* What follows an event other than [DONE] that was sent, or whose failed
   send was ignored: content goes on with the loop, an error with the finish
   chunk, the finish chunk with [DONE]. *)
Proceed ==
  /\ UNCHANGED <<status, chunks>>
  /\ IF event \in Content
       THEN pump' = "top" /\ UNCHANGED event
       ELSE UNCHANGED pump /\ event' = IF event = FinishChunk THEN DONE ELSE FinishChunk

(* tx.send(event).await, with no time limit.  A failed send of content means
   the client is gone; every other failed send is ignored. *)
PumpSends ==
  /\ pump = "sending"
  /\ \/ /\ client = "gone"
        /\ CASE event \in Content -> EndWith("cancelled")
             [] event = DONE       -> EndWith(status)
             [] OTHER              -> Proceed
        /\ UNCHANGED <<events, late>>
     \/ /\ client # "gone" /\ Len(events) < StreamCapacity
        /\ events' = Append(events, event)
        /\ late' = IF deadline /\ event \in Content THEN late + 1 ELSE late
        /\ IF event = DONE THEN EndWith(status) ELSE Proceed
  /\ UNCHANGED <<source, sink, deadline>>

-----------------------------------------------------------------------------
(* The client, and time. *)

ClientReads ==
  /\ client = "reading"
  /\ events # <<>>
  /\ received' = Append(received, Head(events))
  /\ events' = Tail(events)
  /\ UNCHANGED <<source, chunks, pump, event, status, client, deadline, late>>

(* The response body is dropped, and with it the receiver of the events. *)
ClientLeaves ==
  /\ client = "reading"
  /\ client' = "gone"
  /\ events' = <<>>
  /\ UNCHANGED <<source, chunks, pump, event, status, received, deadline, late>>

DeadlinePasses ==
  /\ ~deadline
  /\ deadline' = TRUE
  /\ UNCHANGED <<source, chunks, pump, event, status, events, sink, late>>

invoke_stream == ProviderLine \/ ProviderEnds \/ ProviderFails \/ ProducerSends
stream_completion_response == PumpTop \/ PumpRecv \/ PumpSends

(* Everything is over: both tasks have returned. *)
Finished ==
  /\ pump = "ended" /\ producer = "stopped"
  /\ UNCHANGED vars

Next ==
  \/ invoke_stream
  \/ stream_completion_response
  \/ ClientReads \/ ClientLeaves \/ DeadlinePasses
  \/ Finished

(* The runtime schedules both tasks; the deadline comes; the provider's
   request has a timeout of its own.  Nothing is assumed of the client. *)
Spec ==
  /\ Init /\ [][Next]_vars
  /\ WF_vars(ProducerSends)
  /\ WF_vars(ProviderEnds \/ ProviderFails)
  /\ WF_vars(stream_completion_response)
  /\ WF_vars(DeadlinePasses)

-----------------------------------------------------------------------------
(* Properties *)

(* Everything handed to the client so far, in order. *)
Handed == received \o events

Errors == {StreamTimeout, StreamProviderError}
Follows(x, y) == (x \in Errors /\ y = FinishChunk) \/ (x = FinishChunk /\ y = DONE)

(* The provider's chunks in their order without a gap, then at most one error,
   then the finish chunk and [DONE], or as much of this as there is. *)
Shaped(s) ==
  \E n \in 0 .. Len(s) :
    /\ \A i \in 1 .. n : s[i] = i
    /\ n < Len(s) => s[n + 1] \in Errors \cup {FinishChunk}
    /\ \A i \in n + 1 .. Len(s) - 1 : Follows(s[i], s[i + 1])

(* The client sees the provider's chunks, one terminator and nothing after it: a
   reader of the stream can rely on [DONE]. *)
StreamShape == Shaped(Handed)

(* An answer audited as "ok" was complete: all the provider produced was
   handed over, and nothing but the terminator besides, unless the client left
   while it was. *)
OkMeansComplete ==
  (pump = "ended" /\ status = "ok" /\ client = "reading")
    => Len(Handed) = produced + 2 /\ \A i \in 1 .. produced : Handed[i] = i

(* However fast the provider is, at most one chunk is handed over after the
   deadline. *)
DeadlineCutsOff == late <= 1

(* A client that leaves takes its tasks with it: no pump or producer stays
   behind, blocked on a full channel or on a silent provider. *)
NoTaskLeaks == client = "gone" ~> (pump = "ended" /\ producer = "stopped")
=============================================================================
