-------------------------- MODULE CollectorFailover --------------------------
(***************************************************************************)
(* CollectorLease in the situation it exists for: both agents are healthy, *)
(* then at most one of them stops for good, and the other keeps reaching   *)
(* central.  What the worker, the heartbeats and the lease row do then is  *)
(* exactly what CollectorLease says; this module restricts the environment *)
(* and adds the fairness under which the subnet must end up collected.     *)
(*                                                                         *)
(* The clock stops at MaxTime while everything else goes on, so MaxTime    *)
(* stands for "long after": HorizonAssumption makes it late enough for any *)
(* lease to have lapsed and any dead agent to be silent for too long.      *)
(***************************************************************************)
EXTENDS CollectorLease

CONSTANTS
    CrashBy,    \* bound: the last instant for a crash, a fault or a hand-back
    Flight      \* longest life of a request: the agent's 30 s client timeout

ASSUME HorizonAssumption ==
    /\ AutoTakeover
    /\ Flight \in Nat /\ CrashBy \in Nat
    /\ \A t \in LeaseLengths \cup {Grace + 1, TakeoverAfter + 1} :
          CrashBy + Flight + t <= MaxTime

VARIABLE dead   \* the agent that stopped for good, or None

failoverVars == <<vars, dead>>

FailoverInit ==
    /\ Init
    /\ \A a \in Agents : lastBeat[a] = now
    /\ dead = None

\* The process is gone, and the deadlines it kept in memory with it.
Crash(a) ==
    /\ dead = None /\ now <= CrashBy
    /\ RestartAgent(a)
    /\ dead' = a

\* Faults the network and the agents recover from.
Disturb ==
    /\ now <= CrashBy
    /\ \/ \E a \in Agents \ {dead} : HeartbeatFails(a) \/ RestartAgent(a)
       \/ \E m \in net : LoseRequest(m)

Advance ==
    /\ \A m \in net : m.kind = "request" => now < m.anchor + Flight
    /\ Tick

Quiet(a) == \A m \in net : m.agent # a

\* A heartbeat goes out once the previous one was served or lost.
Beat(a)  == a # dead /\ Quiet(a) /\ SendHeartbeat(a)
Serve(a) == \E m \in net : m.agent = a /\ HandleHeartbeat(m)
Learn(a) == \E m \in net : m.agent = a /\ ReceiveReply(m)
\* The client timeout, once nothing is left to wait for.
TimeOut(a) == a # dead /\ Quiet(a) /\ HeartbeatFails(a)

ReturnToPrimary == now <= CrashBy /\ Handback

FailoverNext ==
    \/ \E a \in Agents : Crash(a)
    \/ /\ \/ Disturb \/ Advance \/ ReturnToPrimary
          \/ \E a \in Agents : Beat(a) \/ Serve(a) \/ Learn(a) \/ TimeOut(a)
          \/ MarkOfflineAgents \/ ScanSubnet \/ GrantLease \/ WorkerFails
       /\ UNCHANGED dead

\* A living agent heartbeats again and again and central answers it.  A worker
\* job may fail any number of times, but not every time: run_cycle starts over
\* on the next interval whatever a job raised.
Fairness ==
    /\ WF_vars(Advance)
    /\ \A a \in Agents : /\ WF_vars(Beat(a))
                         /\ WF_vars(Serve(a))
                         /\ WF_vars(Learn(a))
                         /\ WF_vars(TimeOut(a))
    /\ WF_vars(MarkOfflineAgents)
    /\ SF_vars(ScanSubnet)
    /\ SF_vars(GrantLease)

FailoverSpec == FailoverInit /\ [][FailoverNext]_failoverVars /\ Fairness

-----------------------------------------------------------------------------

\* When either agent stops for good, whoever held the lease and whatever a
\* hand-back had released, the other one ends up sweeping the subnet
\* (reassign_collectors: hand a leased subnet to its standby when the collector
\* really has gone; "by the same rule" when the standby dies).
Failover ==
    \A a \in Agents : dead = a ~> \E b \in Agents \ {a} : Holds(b)

\* While both agents live, somebody sweeps again after every gap: a hand-back,
\* a restart or a lost heartbeat never leaves the subnet to nobody.
Recovered ==
    dead = None ~> (dead # None \/ \E a \in Agents : Holds(a))

\* The subnet is never left to nobody for ever, whoever stops (run_forever,
\* reassign_collectors).
AlwaysCollected == Failover /\ Recovered

\* "Return to primary" returns the subnet to the primary (subnet_handback: "the
\* primary picks the subnet up on the first heartbeat after the standby must
\* already have stopped"): the next holder after a release is the primary.
HandbackReachesPrimary ==
    [][collector = None /\ dead = None /\ collector' # None
       => collector' = primary]_failoverVars
=============================================================================
