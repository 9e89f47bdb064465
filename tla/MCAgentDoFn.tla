---------------------------- MODULE MCAgentDoFn ----------------------------
(* Small instances of AgentDoFn: the events are model values. *)
EXTENDS AgentDoFn, TLC

CONSTANTS e1, e2, e3, e4

EventSymmetry == Permutations(Events)
=============================================================================
