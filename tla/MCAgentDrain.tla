----------------------------- MODULE MCAgentDrain -----------------------------
(***************************************************************************)
(* TLC instances of AgentDrain: runs 1..N, the last of a quiet org, the    *)
(* one before it of a third org where the instance has one, and the others *)
(* of a busy org.                                                          *)
(***************************************************************************)
EXTENDS AgentDrain

CONSTANTS N, Busy, Quiet, Third

RunIds == 1..N
OrgOf == [r \in RunIds |-> CASE r = N -> Quiet
                             [] r = N - 1 /\ Third \in Orgs -> Third
                             [] OTHER -> Busy]

===============================================================================
