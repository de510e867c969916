CONSTANTS
  Components = {"server", "governance"}
  NumTasks = 2
  Tools = {"recall_user", "route_action", "sense_intent", "check_pattern", "simulate_response",
    "commit_pattern", "set_entropy", "record_outcome", "update_user", "dream_conversation",
    "reason_chain", "recall_similar", "memory_query", "compress_context", "orchestrate",
    "tool_recommend", "generated_tool_decision", "forge_tool", "dynamic_tool", "subbrain_auto"}
  PolicyTuner = FALSE
  MaxTools = 2
  OutCapacity = 1
  MaxMemories = 2
  DreamKeeps = 1
  MaxRequests = 2
  MaxMishaps = 1
  Generated = {"a", "b", "c", "d"}
  Deciders = {1, 2}
  Recorders = {1, 2}
  MaxDynamicTools = 1
  MinCalls = 2
  MinSamples = 2
  MaxCalls = 2
  MaxRestarts = 1
  MaxFaults = 1
SPECIFICATION MCSpec
INVARIANTS NoCircularWait SavedUnlessRaced 
CHECK_DEADLOCK FALSE
