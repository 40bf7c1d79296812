----------------------------- MODULE MCAgentTurn -----------------------------
(* A candidate with one generated tool and one generated middleware, up to *)
(* three steps of at most two calls, and one loss.                          *)
EXTENDS AgentTurn, TLC

CONSTANTS warm, cold, fixedSeed, ownSeed

MCEndpoint == [temperature |-> warm, topP |-> warm, topK |-> None, seed |-> fixedSeed, thinking |-> FALSE]
MCBridgeConfig == [temperature |-> cold]
MCPayloads == {[temperature |-> warm], [temperature |-> cold, seed |-> ownSeed]}
MCPluginDirs ==
  {{}, {[name |-> "hook", plain |-> TRUE]}, {[name |-> "hook", plain |-> FALSE]},
   {[name |-> "sah-bridge", plain |-> TRUE]}}
=============================================================================
