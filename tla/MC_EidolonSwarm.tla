-------------------------- MODULE MC_EidolonSwarm ---------------------------
(* Three agents: a peer is pruned when a message of another comes in, so two
   would never forget each other. *)
EXTENDS EidolonSwarm, TLC

AgentSymmetry == Permutations(Agents)

(* Between agents that talk to each other nothing is one-sided, and nobody is
   hurt twice by what another saw once. *)
SwarmSound == QuietMeansMutual /\ OneTraumaPerCooldown
=============================================================================
