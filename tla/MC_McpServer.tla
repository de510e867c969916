---------------------------- MODULE MC_McpServer ----------------------------
(* The tool calls of the MCP server with its locks and files, and the
   governance of generated tools with the database under it.  The second is
   reached by two of the tools of the first, which hold no lock meanwhile, so
   the two are checked side by side: `active' names the one that runs. *)
EXTENDS McpServer

CONSTANTS Components,
          Generated, Deciders, Recorders, MaxDynamicTools, MinCalls, MinSamples, MaxCalls, MaxRestarts,
          MaxFaults

ASSUME GovernanceAssumption ==
  /\ MaxDynamicTools \in Nat \ {0} /\ MinCalls \in Nat /\ MinSamples \in 0..MinCalls
  /\ IsFiniteSet(Deciders)

VARIABLES active, metric, row, record, behind, decision, activated, restarted, faults

Governance == INSTANCE ToolGovernance

governanceVars == <<metric, row, record, behind, decision, activated, restarted, faults>>

MCInit == active \in Components /\ Init /\ Governance!Init

MCNext ==
  /\ UNCHANGED active
  /\ \/ active = "server" /\ Next /\ UNCHANGED governanceVars
     \/ active = "governance" /\ Governance!Next /\ UNCHANGED serverVars

MCSpec == MCInit /\ [][MCNext]_<<active, serverVars, governanceVars>>

(* Accepted tools exceed their limit by the decisions taken at once and the
   counts that failed, at most; what the database knows of a tool lags by
   overlapping calls, restarts and its failures only. *)
GovernanceSound ==
  Governance!CapacityOvershoot /\ Governance!RowLagsByOverlap /\ Governance!FewSamplesMeansRestart
=============================================================================
