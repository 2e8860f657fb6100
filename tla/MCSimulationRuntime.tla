------------------------ MODULE MCSimulationRuntime --------------------------
(* Small instances of SimulationRuntime for TLC. *)
EXTENDS SimulationRuntime

CONSTANTS disconnect, use, save, refund, remove, die, pick

MCFollowUp == [c \in Delayed |-> remove]
MCIngressCapacity == [k \in 0..2 |-> 1]
MCBudget == [k \in 0..2 |-> 1]
==============================================================================
