----------------------------- MODULE SubnetToken -----------------------------
(***************************************************************************)
(* What collector redundancy promises about one subnet: a token that at    *)
(* most one agent has, and that passes from one agent to another only      *)
(* through nobody having it.  A gap is allowed, an overlap is not          *)
(* (central/collector.py, module docstring; subnet_handback: "a gap is     *)
(* recoverable in a way that a double-counted meter is not").              *)
(***************************************************************************)
CONSTANTS Agents, None

VARIABLE sweeper    \* the agent that may sweep the subnet, or None

Init == sweeper = None

Take(a) == sweeper = None /\ sweeper' = a

Drop == sweeper # None /\ sweeper' = None

Next == Drop \/ \E a \in Agents : Take(a)

Spec == Init /\ [][Next]_sweeper
=============================================================================
