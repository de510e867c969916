-------------------------- MODULE MC_GatewayServing --------------------------
(* The door of the gateway and the streamed answer behind it.  They share no
   state, so they are checked side by side: `active' names the one that runs.
   Two tenants, one of them reached by an API key and by a JWT, the other
   ("default") anonymously; channels shorter than the answer, so that both
   senders meet a full one. *)
EXTENDS GatewayAdmission, TLC

CONSTANTS MaxChunks, ChunkCapacity, StreamCapacity

ASSUME StreamAssumption == {MaxChunks, ChunkCapacity, StreamCapacity} \subseteq Nat \ {0}

VARIABLES
  active,
  buffered, produced, producer, chunks, pump, event, status, events, client,
  received, deadline, late

Stream == INSTANCE GatewayStream

streamVars == <<buffered, produced, producer, chunks, pump, event, status, events, client,
                received, deadline, late>>

MCKeys == "key_a" :> "a"
MCJwt  == "jwt_a" :> "a"
MCOther == {"forged"}

MCInit == active \in {"admission", "stream"} /\ Init /\ Stream!Init

MCNext ==
  /\ UNCHANGED active
  /\ \/ active = "admission" /\ Next /\ UNCHANGED streamVars
     \/ active = "stream" /\ Stream!Next /\ UNCHANGED vars

MCVars == <<active, vars, streamVars>>

(* The fairness of GatewayStream: its two tasks are scheduled, the provider's
   body ends and the deadline comes. *)
MCFairness ==
  /\ WF_streamVars(active = "stream" /\ Stream!ProducerSends)
  /\ WF_streamVars(active = "stream" /\ (Stream!ProviderEnds \/ Stream!ProviderFails))
  /\ WF_streamVars(active = "stream" /\ Stream!stream_completion_response)
  /\ WF_streamVars(active = "stream" /\ Stream!DeadlinePasses)

MCSpec == MCInit /\ [][MCNext]_MCVars /\ MCFairness

(* Around midnight a tenant gets at most what slow requests count on another day,
   and late clock readings credit no more than the time they move back. *)
LimitersSound == DailyOvershoot /\ BucketConserves

(* Chunks reach the client's channel in order and end with one terminator,
   and all of them when the answer is audited as ok. *)
AnswerIsWhole == Stream!StreamShape /\ Stream!OkMeansComplete

(* At most one chunk is handed over after the deadline. *)
DeadlineCutsOff == Stream!DeadlineCutsOff

(* A client who leaves takes both tasks with it. *)
NoTaskLeaks == active = "stream" => Stream!NoTaskLeaks
=============================================================================
