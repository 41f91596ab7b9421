----------------------------- MODULE MCAgentRuns -----------------------------
(***************************************************************************)
(* Instances of AgentRuns for TLC.                                         *)
(***************************************************************************)
EXTENDS AgentRuns, TLC

(* The cron's pass and a poke's.                                           *)
CONSTANTS cron, poke

Interchangeable == Permutations(Dispatcher)
=============================================================================
