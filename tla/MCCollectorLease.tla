-------------------------- MODULE MCCollectorLease --------------------------
(***************************************************************************)
(* CollectorLease with a budget for the steps a behaviour need not take:   *)
(* operator edits, requests other than the heartbeats of primary and       *)
(* standby, and faults.  The budget bounds the state space; no guard of    *)
(* the specification depends on it.                                        *)
(***************************************************************************)
EXTENDS CollectorLease, TLC

CONSTANT MaxExtras      \* bound: edits, other requests and faults together

VARIABLE extras

Extras ==
    \/ EditNext
    \/ \E a \in Agents : HandleOtherRequest(a)
    \/ \E a \in Agents \ Eligible : SendHeartbeat(a)
    \/ \E a \in Agents : HeartbeatFails(a) \/ RestartAgent(a)
    \/ \E m \in net : LoseRequest(m)
    \/ WorkerFails

Work ==
    \/ Tick
    \/ \E a \in Eligible : SendHeartbeat(a)
    \/ \E m \in net : ReceiveReply(m) \/ HandleHeartbeat(m)
    \/ MarkOfflineAgents \/ ScanSubnet \/ GrantLease

Spend == extras < MaxExtras /\ extras' = extras + 1

SteadyMC ==
    \/ Work /\ UNCHANGED extras
    \/ Extras /\ Spend

MCInit ==
    /\ Init
    /\ leaseSeconds = CHOOSE t \in LeaseLengths : \A u \in LeaseLengths : t <= u
    /\ lastBeat = [a \in Agents |-> now]
    /\ extras = 0

MCSteadySpec == MCInit /\ [][SteadyMC]_<<vars, extras>>

Symmetry == Permutations(Agents)
=============================================================================
