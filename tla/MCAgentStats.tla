---------------------------- MODULE MCAgentStats ----------------------------
(* Two streams of statistics; their names may be exchanged.                    *)
EXTENDS AgentStats, TLC

CONSTANTS s1, s2
MCStreams == {s1, s2}
MCSymmetry == Permutations(MCStreams)
=============================================================================
