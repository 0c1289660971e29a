---------------------------- MODULE MCAgentLab ----------------------------
(* Two citizens, one of them in the cohort; both opportunities may recur on *)
(* the second tick.                                                         *)
EXTENDS AgentLab

MCKeys == <<"pricing_ada", "goal_ben">>
MCAgentOf == [pricing_ada |-> "ada", goal_ben |-> "ben"]
=============================================================================
