--------------------------- MODULE MC_McpRouting ----------------------------
(* Two concurrent requests: enough for every race between one request's
   questions and another's verdict.  The three local-only contexts take the
   same branch of decide, so one stands for them. *)
EXTENDS McpRouting

MCContexts == {"privacy", "low_entropy", "high_entropy"}

(* The circuits of Ollama and of the external provider, each by itself, are the
   abstract breaker. *)
ProvidersAreBreakers == OllamaIsBreaker /\ ExternalIsBreaker
=============================================================================
