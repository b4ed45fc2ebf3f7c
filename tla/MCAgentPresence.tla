-------------------------- MODULE MCAgentPresence --------------------------
EXTENDS AgentPresence
(***************************************************************************)
(* Small instances of AgentPresence for TLC.                               *)
(***************************************************************************)
CONSTANTS a1, b1, b2, s1, s2
===========================================================================
