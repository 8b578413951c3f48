--------------------------- MODULE MCAgentBroker ---------------------------
(* Instances of AgentBroker: two launches of an application;                *)
(* speculative work and two interactive turns.                              *)
EXTENDS AgentBroker
CONSTANTS a, b, s, i, j
MCWho == [c \in Conns |-> "foreground"]
MCGen == [c \in Conns |-> IF c = a THEN 1 ELSE 2]
MCLane == [r \in Requests |-> IF r = s THEN "speculative" ELSE "interactive"]
MCWants == [r \in Requests |-> IF r = j THEN "openai" ELSE "deepseek"]
=============================================================================
