------------------------- MODULE CollectorLeaseProofs -------------------------
(***************************************************************************)
(* Type correctness of CollectorLease under everything the operator and    *)
(* the scheduler can do, and, for a subnet that stays redundant, the       *)
(* exclusion the lease exists for.  The argument is the one the docstring  *)
(* of central/collector.py makes, with the cases it leaves to the reader:  *)
(* replies in flight, released rows, stale worker judgements, deleted      *)
(* agents and reassigned subnets.                                          *)
(***************************************************************************)
EXTENDS CollectorLease, TLAPS

USE DEF Time, AgentOrNone, never_seen, online, offline, Request, Stalled, Reply

-----------------------------------------------------------------------------
(* Type correctness.                                                       *)

\* A lease row stays well typed whoever takes it.
LEMMA TakeLeaseType ==
    ASSUME TypeOK, NEW a \in Agents, NEW at \in Nat, NEW ttl \in Nat,
           TakeLease(a, at, ttl)
    PROVE  /\ collector' \in AgentOrNone
           /\ expires' \in Nat
           /\ prevAgent' \in AgentOrNone
           /\ prevUntil' \in Nat
BY DEF TakeLease, TypeOK

\* The same for a renewal, whether or not its UPDATE matched.
LEMMA RenewLeaseType ==
    ASSUME TypeOK, NEW a \in Agents, NEW at \in Nat, NEW ttl \in LeaseLengths,
           RenewLease(a, at, ttl)
    PROVE  /\ collector' \in AgentOrNone
           /\ expires' \in Nat
           /\ prevAgent' \in AgentOrNone
           /\ prevUntil' \in Nat
BY TakeLeaseType, ConstantsAssumption DEF RenewLease, leaseVars, TypeOK

\* A heartbeat answered adds at most one well-formed reply.
LEMMA AnsweredType ==
    ASSUME TypeOK, NEW m \in net, NEW held \in BOOLEAN, NEW ttl \in LeaseLengths,
           m.agent \in Agents, m.anchor \in Nat
    PROVE  Answered(m, held, ttl) \subseteq Messages
BY DEF Answered, Messages, TypeOK

\* The worker only ever chooses a row or nobody.
LEMMA CandidateType ==
    ASSUME TypeOK
    PROVE  Candidate \in AgentOrNone
<1>1. Eligible \subseteq Agents
    BY DEF Eligible, TypeOK
<1>2. CASE Eligible \ {collector} # {}
    <2>1. \E a \in Eligible : a # collector
        BY <1>2
    <2>2. (CHOOSE a \in Eligible : a # collector) \in Eligible
        BY <2>1
    <2> QED
        BY <1>1, <2>2 DEF Candidate, TypeOK
<1>3. CASE Eligible \ {collector} = {}
    BY <1>3 DEF Candidate, TypeOK
<1> QED
    BY <1>2, <1>3

\* What the worker remembers across its two steps is a time and a length.
LEMMA WorkerType ==
    ASSUME TypeOK
    PROVE  worker.at \in Nat /\ worker.ttl \in Nat
<1>1. worker.at \in Nat /\ worker.ttl \in LeaseLengths \cup {0}
    BY DEF TypeOK, Workers
<1>2. LeaseLengths \cup {0} \subseteq Nat
    BY ConstantsAssumption
<1> QED
    BY <1>1, <1>2

LEMMA TypeInit == Init => TypeOK
<1> SUFFICES ASSUME Init PROVE TypeOK
    OBVIOUS
<1>1. lastBeat \in [Agents -> Nat] /\ status \in [Agents -> {never_seen, online, offline}]
    BY DEF Init
<1>2. until \in [Agents -> Nat] /\ waiting \in [Agents -> Nat]
    BY DEF Init
<1>3. worker \in Workers
    BY DEF Init, Idle, Workers
<1>4. leaseSeconds \in Nat
    BY ConstantsAssumption DEF Init
<1> QED
    BY <1>1, <1>2, <1>3, <1>4 DEF Init, TypeOK

LEMMA TypeStep == TypeOK /\ [Next]_vars => TypeOK'
<1> SUFFICES ASSUME TypeOK, [Next]_vars PROVE TypeOK'
    OBVIOUS
<1> USE DEF settingVars, editVars, leaseVars, beatVars, agentVars
<1>1. ASSUME NEW a \in Agents, SendHeartbeat(a) PROVE TypeOK'
    BY <1>1 DEF SendHeartbeat, TypeOK, Messages
<1>2. ASSUME NEW m \in net, ReceiveReply(m) PROVE TypeOK'
    <2>1. m.anchor \in Nat /\ (m.held => m.ttl \in Nat) /\ m.agent \in Agents
        BY <1>2, ConstantsAssumption DEF ReceiveReply, TypeOK, Messages
    <2> QED
        BY <1>2, <2>1 DEF ReceiveReply, TypeOK
<1>3. ASSUME NEW a \in Agents, HeartbeatFails(a) PROVE TypeOK'
    BY <1>3 DEF HeartbeatFails, HangUp, TypeOK
<1>4. ASSUME NEW a \in Agents, RestartAgent(a) PROVE TypeOK'
    BY <1>4 DEF RestartAgent, HangUp, TypeOK
<1>5. ASSUME NEW m \in net, LoseRequest(m) PROVE TypeOK'
    BY <1>5 DEF LoseRequest, TypeOK
<1>6. ASSUME NEW m \in net, HandleHeartbeat(m) PROVE TypeOK'
    <2>1. m.agent \in Agents /\ m.anchor \in Nat
        BY <1>6 DEF HandleHeartbeat, TypeOK, Messages
    <2>2. now \in Nat /\ leaseSeconds \in LeaseLengths
        BY DEF TypeOK
    <2>3. MayRenew(m.agent, now) \in BOOLEAN
        BY DEF MayRenew, IsRedundant
    <2>4. net' \subseteq Messages
        BY <1>6, <2>1, <2>2, <2>3, AnsweredType DEF HandleHeartbeat
    <2>5. /\ collector' \in AgentOrNone /\ expires' \in Nat
          /\ prevAgent' \in AgentOrNone /\ prevUntil' \in Nat
        BY <1>6, <2>1, <2>2, RenewLeaseType DEF HandleHeartbeat
    <2> QED
        BY <1>6, <2>1, <2>2, <2>4, <2>5 DEF HandleHeartbeat, Touch, TypeOK
<1>7. ASSUME NEW a \in Agents, HandleOtherRequest(a) PROVE TypeOK'
    BY <1>7 DEF HandleOtherRequest, Touch, TypeOK
<1>8. CASE MarkOfflineAgents
    BY <1>8 DEF MarkOfflineAgents, TypeOK, Workers
<1>9. CASE ScanSubnet
    BY <1>9, CandidateType DEF ScanSubnet, TypeOK, Workers, Idle
<1>10. CASE GrantLease
    <2>1. CASE MayGrant(worker.from, worker.to, worker.at)
        <3>1. worker.to \in Agents /\ worker.at \in Nat /\ worker.ttl \in Nat
            BY <2>1, ConstantsAssumption DEF MayGrant, Eligible, TypeOK, Workers
        <3>2. TakeLease(worker.to, worker.at, worker.ttl)
            BY <1>10, <2>1 DEF GrantLease
        <3>3. /\ collector' \in AgentOrNone /\ expires' \in Nat
              /\ prevAgent' \in AgentOrNone /\ prevUntil' \in Nat
            BY <3>1, <3>2, TakeLeaseType
        <3> QED
            BY <1>10, <3>3 DEF GrantLease, TypeOK, Workers, Idle
    <2>2. CASE ~MayGrant(worker.from, worker.to, worker.at)
        BY <1>10, <2>2 DEF GrantLease, TypeOK, Workers, Idle
    <2> QED
        BY <2>1, <2>2
<1>11. CASE WorkerFails
    BY <1>11 DEF WorkerFails, TypeOK, Workers, Idle
<1>12. ASSUME NEW a \in Agents, AssignPrimary(a) PROVE TypeOK'
    BY <1>12 DEF AssignPrimary, TypeOK
<1>13. ASSUME NEW a \in Agents, ReplaceStandby(a) PROVE TypeOK'
    BY <1>13 DEF ReplaceStandby, TypeOK
<1>14. ASSUME NEW a \in Agents, DeleteAgent(a) PROVE TypeOK'
    BY <1>14 DEF DeleteAgent, TypeOK
<1>15. CASE Handback
    BY <1>15 DEF Handback, ReleaseLease, TypeOK
<1>16. CASE LengthenLease
    BY <1>16 DEF LengthenLease, SaveLeaseSeconds, TypeOK
<1>17. CASE Tick
    BY <1>17 DEF Tick, TypeOK
<1>18. CASE ClearStandby
    BY <1>18 DEF ClearStandby, ReleaseLease, TypeOK
<1>19. ASSUME NEW a \in Agents, AddStandby(a) PROVE TypeOK'
    BY <1>19, ConstantsAssumption DEF AddStandby, TypeOK
<1>20. CASE ShortenLease
    BY <1>20 DEF ShortenLease, SaveLeaseSeconds, TypeOK
<1>21. ASSUME NEW m \in net, StallHeartbeat(m) PROVE TypeOK'
    BY <1>21 DEF StallHeartbeat, TypeOK, Messages
<1>22. ASSUME NEW m \in net, ResumeHeartbeat(m) PROVE TypeOK'
    <2>1. m.agent \in Agents /\ m.anchor \in Nat /\ m.at \in Nat /\ m.ttl \in LeaseLengths
        BY <1>22 DEF ResumeHeartbeat, TypeOK, Messages
    <2>2. MayRenew(m.agent, m.at) \in BOOLEAN
        BY DEF MayRenew, IsRedundant
    <2>3. net' \subseteq Messages
        BY <1>22, <2>1, <2>2, AnsweredType DEF ResumeHeartbeat
    <2>4. /\ collector' \in AgentOrNone /\ expires' \in Nat
          /\ prevAgent' \in AgentOrNone /\ prevUntil' \in Nat
        BY <1>22, <2>1, RenewLeaseType DEF ResumeHeartbeat
    <2> QED
        BY <1>22, <2>1, <2>3, <2>4 DEF ResumeHeartbeat, Touch, TypeOK
<1>23. CASE UNCHANGED vars
    BY <1>23 DEF vars, TypeOK
<1> QED
    BY <1>1, <1>2, <1>3, <1>4, <1>5, <1>6, <1>7, <1>8, <1>9, <1>10, <1>11,
       <1>12, <1>13, <1>14, <1>15, <1>16, <1>17, <1>18, <1>19, <1>20, <1>21,
       <1>22, <1>23
       DEF Next, SteadyNext, AgentNext, CentralNext, WorkerNext, EditNext,
           ToggleNext, StallNext

\* Every variable keeps its type whatever the operator edits, in whatever order
\* handlers, worker and agents run.
THEOREM TypeCorrect == Spec => []TypeOK
BY TypeInit, TypeStep, PTL DEF Spec

-----------------------------------------------------------------------------
(* The exclusion, for a subnet that stays redundant.                       *)

\* What is live after a step was granted before it: the step granted nothing.
NothingGranted ==
    \A g \in Grants' : Live(g)' => g \in Grants /\ Live(g)

\* Dropping deadlines, dropping replies and letting time pass grants nothing.
LEMMA GrantsKept ==
    ASSUME TypeOK, TypeOK', now <= now',
           \A a \in Agents : until'[a] \in {until[a], 0},
           \A m \in net' : m.kind = "reply" => m \in net
    PROVE  NothingGranted
<1> SUFFICES ASSUME NEW g \in Grants', Live(g)'
             PROVE  g \in Grants /\ Live(g)
    BY DEF NothingGranted
<1>1. CASE \E a \in Agents : g = [agent |-> a, until |-> until'[a]]
    <2>1. PICK a \in Agents : g = [agent |-> a, until |-> until'[a]]
        BY <1>1
    <2>2. until'[a] = until[a]
        BY <2>1 DEF Live, TypeOK
    <2>3. now < until[a]
        BY <2>1, <2>2 DEF Live, TypeOK
    <2> QED
        BY <2>1, <2>2, <2>3 DEF Grants, Live
<1>2. CASE \E m \in net' : /\ m.kind = "reply" /\ m.held
                           /\ g = [agent |-> m.agent, until |-> m.anchor + m.ttl]
    <2>1. PICK m \in net' : /\ m.kind = "reply" /\ m.held
                            /\ g = [agent |-> m.agent, until |-> m.anchor + m.ttl]
        BY <1>2
    <2>2. m \in net
        BY <2>1
    <2>3. m.anchor \in Nat /\ m.ttl \in Nat
        BY <2>1, <2>2, ConstantsAssumption DEF TypeOK, Messages
    <2>4. now < m.anchor + m.ttl
        BY <2>1, <2>3 DEF Live, TypeOK
    <2> QED
        BY <2>1, <2>2, <2>4 DEF Grants, Live
<1> QED
    BY <1>1, <1>2 DEF Grants

\* A step that grants nothing and at most empties the row keeps the grants
\* covered and exclusive.
LEMMA CoverKept ==
    ASSUME TypeOK, LeaseInv, NothingGranted,
           collector' \in {collector, None}, expires' = expires
    PROVE  GrantsCovered' /\ GrantsExclusive'
<1>1. GrantsCovered'
    BY DEF LeaseInv, GrantsCovered, NothingGranted
<1>2. GrantsExclusive'
    BY DEF LeaseInv, GrantsExclusive, NothingGranted
<1> QED
    BY <1>1, <1>2

\* A step that also leaves the whole row alone keeps the predecessor behind.
LEMMA RowKept ==
    ASSUME TypeOK, LeaseInv, NothingGranted, UNCHANGED leaseVars,
           now' \in Nat, now <= now'
    PROVE  GrantsCovered' /\ GrantsExclusive' /\ PredecessorBehind'
<1>1. GrantsCovered' /\ GrantsExclusive'
    BY CoverKept DEF leaseVars
<1>2. PredecessorBehind'
    BY DEF LeaseInv, PredecessorBehind, NothingGranted, leaseVars, TypeOK
<1> QED
    BY <1>1, <1>2

\* Taking the lease, by a renewal or by the worker's compare-and-swap: the
\* agent renews its own lease by the current clock, or the recorded expiry is
\* past by the clock of the statement.
LEMMA LeaseTaken ==
    ASSUME TypeOK, LeaseInv,
           NEW a \in Agents, NEW at \in Nat, NEW ttl \in Nat,
           at <= now, ttl <= leaseSeconds,
           \/ collector = a /\ at = now /\ ttl = leaseSeconds
           \/ expires <= at,
           TakeLease(a, at, ttl), now' = now, leaseSeconds' = leaseSeconds,
           \A g \in Grants' : Live(g)' => \/ g \in Grants /\ Live(g)
                                          \/ g.agent = a /\ g.until <= at + ttl
    PROVE  /\ GrantsCovered' /\ GrantsExclusive' /\ PredecessorBehind'
           /\ expires' <= now' + leaseSeconds'
<1>0. /\ collector' = a /\ expires' = at + ttl
      /\ now \in Nat /\ expires \in Nat /\ leaseSeconds \in Nat
    BY ConstantsAssumption DEF TakeLease, TypeOK
<1>1. ASSUME NEW g \in Grants, Live(g)
      PROVE  collector = a /\ at = now /\ ttl = leaseSeconds /\ g.agent = a
             /\ g.until <= now + leaseSeconds
    <2>1. g.until <= expires /\ collector \in {g.agent, None}
        BY <1>1 DEF LeaseInv, GrantsCovered
    <2>2. g.until \in Int
        <3>1. CASE \E b \in Agents : g = [agent |-> b, until |-> until[b]]
            BY <3>1 DEF TypeOK
        <3>2. CASE \E m \in net : /\ m.kind = "reply" /\ m.held
                                  /\ g = [agent |-> m.agent, until |-> m.anchor + m.ttl]
            BY <3>2, ConstantsAssumption DEF TypeOK, Messages
        <3> QED
            BY <3>1, <3>2 DEF Grants
    <2>3. ~(expires <= at)
        BY <1>0, <1>1, <2>1, <2>2 DEF Live
    <2>4. expires <= now + leaseSeconds
        BY DEF LeaseInv, LengthsBounded
    <2> QED
        BY <1>0, <2>1, <2>2, <2>3, <2>4, ConstantsAssumption
<1>2. \A g \in Grants' : Live(g)' => g.agent = a /\ g.until <= at + ttl
    BY <1>1
<1>3. GrantsCovered'
    BY <1>0, <1>2 DEF GrantsCovered
<1>4. GrantsExclusive'
    BY <1>2 DEF GrantsExclusive
<1>5. PredecessorBehind'
    <2>1. CASE collector = None
        <3>1. expires <= at
            BY <2>1, ConstantsAssumption
        <3>2. prevAgent # None => prevUntil <= now
            <4>1. prevUntil \in Nat
                BY DEF TypeOK
            <4> QED
                BY <1>0, <2>1, <3>1, <4>1 DEF LeaseInv, PredecessorBehind
        <3> QED
            BY <1>0, <2>1, <3>2, ConstantsAssumption DEF PredecessorBehind, TakeLease
    <2>2. CASE collector = a
        BY <1>0, <2>2, ConstantsAssumption DEF PredecessorBehind, TakeLease, LeaseInv
    <2>3. CASE collector \notin {None, a}
        <3>1. prevUntil' = expires /\ expires <= at
            BY <2>3 DEF TakeLease
        <3> QED
            BY <1>0, <3>1, ConstantsAssumption DEF PredecessorBehind
    <2> QED
        BY <2>1, <2>2, <2>3
<1>6. expires' <= now' + leaseSeconds'
    BY <1>0
<1> QED
    BY <1>3, <1>4, <1>5, <1>6

LEMMA LeaseInit == Init => LeaseInv
<1> SUFFICES ASSUME Init PROVE LeaseInv
    OBVIOUS
<1>1. now = 1 /\ leaseSeconds \in Nat /\ leaseSeconds > 0 /\ net = {}
    BY ConstantsAssumption DEF Init
<1>2. \A g \in Grants : ~Live(g)
    BY <1>1 DEF Init, Grants, Live
<1>3. GrantsCovered /\ GrantsExclusive
    BY <1>2 DEF GrantsCovered, GrantsExclusive
<1>4. ClocksBehind /\ LengthsBounded
    BY <1>1 DEF Init, ClocksBehind, LengthsBounded, Idle
<1>5. PredecessorBehind
    BY DEF Init, PredecessorBehind
<1> QED
    BY <1>3, <1>4, <1>5 DEF LeaseInv

LEMMA LeaseStep ==
    TypeOK /\ TypeOK' /\ LeaseInv /\ [SteadyNext]_vars => LeaseInv'
<1> SUFFICES ASSUME TypeOK, TypeOK', LeaseInv, [SteadyNext]_vars
             PROVE  LeaseInv'
    OBVIOUS
<1> USE DEF settingVars, editVars, beatVars, agentVars
<1>0. now \in Nat /\ now' \in Nat /\ leaseSeconds \in Nat /\ expires \in Nat
    BY ConstantsAssumption DEF TypeOK
<1>1. ASSUME NEW a \in Agents, SendHeartbeat(a) PROVE LeaseInv'
    <2>1. NothingGranted
        BY <1>0, <1>1, GrantsKept DEF SendHeartbeat
    <2>2. GrantsCovered' /\ GrantsExclusive' /\ PredecessorBehind'
        BY <1>0, <1>1, <2>1, RowKept DEF SendHeartbeat
    <2>3. ClocksBehind' /\ LengthsBounded'
        BY <1>0, <1>1 DEF SendHeartbeat, LeaseInv, ClocksBehind, LengthsBounded,
                          leaseVars, TypeOK
    <2> QED
        BY <2>2, <2>3 DEF LeaseInv
<1>2. ASSUME NEW m \in net, ReceiveReply(m) PROVE LeaseInv'
    <2>1. NothingGranted
        <3>1. m.agent \in Agents /\ m.anchor \in Nat /\ m.ttl \in Nat /\ m.held \in BOOLEAN
            BY <1>2, ConstantsAssumption DEF ReceiveReply, TypeOK, Messages
        <3>2. ASSUME NEW g \in Grants', Live(g)'
              PROVE  g \in Grants /\ Live(g)
            <4>1. CASE \E a \in Agents : g = [agent |-> a, until |-> until'[a]]
                <5>1. PICK a \in Agents : g = [agent |-> a, until |-> until'[a]]
                    BY <4>1
                <5>2. CASE a = m.agent
                    <6>1. until'[a] = IF m.held THEN m.anchor + m.ttl ELSE 0
                        BY <1>2, <5>2 DEF ReceiveReply, TypeOK
                    <6>2. m.held /\ g = [agent |-> m.agent, until |-> m.anchor + m.ttl]
                        BY <1>0, <3>1, <3>2, <5>1, <5>2, <6>1 DEF Live
                    <6>3. g \in Grants
                        BY <1>2, <6>2 DEF Grants, ReceiveReply
                    <6> QED
                        BY <1>2, <3>2, <6>3 DEF Live, ReceiveReply
                <5>3. CASE a # m.agent
                    <6>1. until'[a] = until[a]
                        BY <1>2, <3>1, <5>3 DEF ReceiveReply, TypeOK
                    <6> QED
                        BY <1>2, <3>2, <5>1, <6>1 DEF Grants, Live, ReceiveReply
                <5> QED
                    BY <5>2, <5>3
            <4>2. CASE \E r \in net' : /\ r.kind = "reply" /\ r.held
                                       /\ g = [agent |-> r.agent, until |-> r.anchor + r.ttl]
                BY <1>2, <3>2, <4>2 DEF Grants, Live, ReceiveReply
            <4> QED
                BY <3>2, <4>1, <4>2 DEF Grants
        <3> QED
            BY <3>2 DEF NothingGranted
    <2>2. GrantsCovered' /\ GrantsExclusive' /\ PredecessorBehind'
        BY <1>0, <1>2, <2>1, RowKept DEF ReceiveReply
    <2>3. ClocksBehind' /\ LengthsBounded'
        BY <1>0, <1>2 DEF ReceiveReply, LeaseInv, ClocksBehind, LengthsBounded,
                          leaseVars, TypeOK
    <2> QED
        BY <2>2, <2>3 DEF LeaseInv
<1>3. ASSUME NEW a \in Agents, HeartbeatFails(a) \/ RestartAgent(a) PROVE LeaseInv'
    <2>1. NothingGranted
        BY <1>0, <1>3, GrantsKept DEF HeartbeatFails, RestartAgent, HangUp, TypeOK
    <2>2. GrantsCovered' /\ GrantsExclusive' /\ PredecessorBehind'
        BY <1>0, <1>3, <2>1, RowKept DEF HeartbeatFails, RestartAgent
    <2>3. ClocksBehind' /\ LengthsBounded'
        <3>1. /\ UNCHANGED <<now, leaseSeconds, expires, worker>>
              /\ net' \subseteq net
              /\ \A b \in Agents : waiting'[b] \in {waiting[b], 0}
            BY <1>3 DEF HeartbeatFails, RestartAgent, HangUp, leaseVars, TypeOK
        <3>2. \A b \in Agents : waiting'[b] <= now'
            BY <1>0, <3>1 DEF LeaseInv, ClocksBehind
        <3> QED
            BY <3>1, <3>2 DEF LeaseInv, ClocksBehind, LengthsBounded
    <2> QED
        BY <2>2, <2>3 DEF LeaseInv
<1>4. ASSUME NEW m \in net, LoseRequest(m) PROVE LeaseInv'
    <2>1. NothingGranted
        BY <1>0, <1>4, GrantsKept DEF LoseRequest
    <2>2. GrantsCovered' /\ GrantsExclusive' /\ PredecessorBehind'
        BY <1>0, <1>4, <2>1, RowKept DEF LoseRequest
    <2>3. ClocksBehind' /\ LengthsBounded'
        BY <1>0, <1>4 DEF LoseRequest, LeaseInv, ClocksBehind, LengthsBounded, leaseVars
    <2> QED
        BY <2>2, <2>3 DEF LeaseInv
<1>5. ASSUME NEW m \in net, HandleHeartbeat(m) PROVE LeaseInv'
    <2> DEFINE held == MayRenew(m.agent, now)
    <2>0. /\ m.agent \in Agents /\ m.anchor \in Nat /\ m.anchor <= now
          /\ now' = now /\ leaseSeconds' = leaseSeconds /\ until' = until
        BY <1>5 DEF HandleHeartbeat, TypeOK, Messages, LeaseInv, ClocksBehind
    <2>1. \A r \in net' : \/ r \in net
                          \/ r = Reply(m.agent, m.anchor, held, leaseSeconds)
        BY <1>5 DEF HandleHeartbeat, Answered
    <2>2. ClocksBehind'
        BY <1>5, <2>0, <2>1 DEF HandleHeartbeat, LeaseInv, ClocksBehind
    <2>3. /\ worker' = worker
          /\ \A r \in net' : r.kind = "reply" => r.ttl <= leaseSeconds'
        BY <1>0, <1>5, <2>0, <2>1 DEF HandleHeartbeat, LeaseInv, LengthsBounded
    <2>4. CASE held
        <3>1. TakeLease(m.agent, now, leaseSeconds)
            BY <1>5, <2>4 DEF HandleHeartbeat, RenewLease
        <3>2. ASSUME NEW g \in Grants', Live(g)'
              PROVE  \/ g \in Grants /\ Live(g)
                     \/ g.agent = m.agent /\ g.until <= now + leaseSeconds
            <4>1. CASE \E a \in Agents : g = [agent |-> a, until |-> until'[a]]
                BY <2>0, <3>2, <4>1 DEF Grants, Live
            <4>2. CASE \E r \in net' : /\ r.kind = "reply" /\ r.held
                                       /\ g = [agent |-> r.agent, until |-> r.anchor + r.ttl]
                <5>1. PICK r \in net' : /\ r.kind = "reply" /\ r.held
                                        /\ g = [agent |-> r.agent, until |-> r.anchor + r.ttl]
                    BY <4>2
                <5>2. CASE r \in net
                    BY <2>0, <3>2, <5>1, <5>2 DEF Grants, Live
                <5>3. CASE r = Reply(m.agent, m.anchor, held, leaseSeconds)
                    BY <1>0, <2>0, <5>1, <5>3
                <5> QED
                    BY <2>1, <5>2, <5>3
            <4> QED
                BY <4>1, <4>2 DEF Grants
        <3>3. (collector = m.agent /\ now = now /\ leaseSeconds = leaseSeconds) \/ expires <= now
            BY <2>4 DEF MayRenew
        <3>4. /\ GrantsCovered' /\ GrantsExclusive' /\ PredecessorBehind'
              /\ expires' <= now' + leaseSeconds'
            BY <1>0, <2>0, <3>1, <3>2, <3>3, LeaseTaken
        <3> QED
            BY <2>0, <2>2, <2>3, <3>4 DEF LeaseInv, LengthsBounded
    <2>5. CASE ~held
        <3>1. UNCHANGED leaseVars
            BY <1>5, <2>5 DEF HandleHeartbeat, RenewLease
        <3>2. NothingGranted
            <4>1. ASSUME NEW g \in Grants', Live(g)' PROVE g \in Grants /\ Live(g)
                <5>1. CASE \E a \in Agents : g = [agent |-> a, until |-> until'[a]]
                    BY <2>0, <4>1, <5>1 DEF Grants, Live
                <5>2. CASE \E r \in net' : /\ r.kind = "reply" /\ r.held
                                           /\ g = [agent |-> r.agent, until |-> r.anchor + r.ttl]
                    <6>1. PICK r \in net' : /\ r.kind = "reply" /\ r.held
                                            /\ g = [agent |-> r.agent, until |-> r.anchor + r.ttl]
                        BY <5>2
                    <6>2. r \in net
                        BY <2>1, <2>5, <6>1
                    <6> QED
                        BY <2>0, <4>1, <6>1, <6>2 DEF Grants, Live
                <5> QED
                    BY <4>1, <5>1, <5>2 DEF Grants
            <4> QED
                BY <4>1 DEF NothingGranted
        <3>3. GrantsCovered' /\ GrantsExclusive' /\ PredecessorBehind'
            BY <1>0, <2>0, <3>1, <3>2, RowKept
        <3> QED
            BY <2>0, <2>2, <2>3, <3>1, <3>3 DEF LeaseInv, LengthsBounded, leaseVars
    <2> QED
        BY <2>4, <2>5
<1>6. ASSUME NEW a \in Agents, HandleOtherRequest(a) PROVE LeaseInv'
    <2>1. NothingGranted
        BY <1>0, <1>6, GrantsKept DEF HandleOtherRequest
    <2>2. GrantsCovered' /\ GrantsExclusive' /\ PredecessorBehind'
        BY <1>0, <1>6, <2>1, RowKept DEF HandleOtherRequest
    <2>3. ClocksBehind' /\ LengthsBounded'
        BY <1>0, <1>6 DEF HandleOtherRequest, LeaseInv, ClocksBehind, LengthsBounded, leaseVars
    <2> QED
        BY <2>2, <2>3 DEF LeaseInv
<1>7. CASE MarkOfflineAgents \/ ScanSubnet \/ WorkerFails
    <2>1. NothingGranted
        BY <1>0, <1>7, GrantsKept DEF MarkOfflineAgents, ScanSubnet, WorkerFails
    <2>2. GrantsCovered' /\ GrantsExclusive' /\ PredecessorBehind'
        BY <1>0, <1>7, <2>1, RowKept DEF MarkOfflineAgents, ScanSubnet, WorkerFails
    <2>3. worker'.at <= now' /\ worker'.ttl <= leaseSeconds'
        <3>1. CASE MarkOfflineAgents
            BY <3>1 DEF MarkOfflineAgents, LeaseInv, ClocksBehind, LengthsBounded,
                        TypeOK, Workers
        <3>2. CASE ScanSubnet
            BY <1>0, <3>2 DEF ScanSubnet, Idle
        <3>3. CASE WorkerFails
            BY <1>0, <3>3 DEF WorkerFails, Idle
        <3> QED
            BY <1>7, <3>1, <3>2, <3>3
    <2>4. ClocksBehind' /\ LengthsBounded'
        BY <1>0, <1>7, <2>3 DEF MarkOfflineAgents, ScanSubnet, WorkerFails, LeaseInv,
                                ClocksBehind, LengthsBounded, leaseVars
    <2> QED
        BY <2>2, <2>4 DEF LeaseInv
<1>8. CASE GrantLease
    <2>1. NothingGranted
        BY <1>0, <1>8, GrantsKept DEF GrantLease
    <2>2. worker'.at <= now' /\ worker'.ttl <= leaseSeconds'
        BY <1>0, <1>8 DEF GrantLease, Idle
    <2>3. CASE MayGrant(worker.from, worker.to, worker.at)
        <3>1. /\ worker.to \in Agents /\ worker.at \in Nat /\ worker.ttl \in Nat
              /\ worker.at <= now /\ worker.ttl <= leaseSeconds /\ expires <= worker.at
            BY <2>3, ConstantsAssumption DEF MayGrant, Eligible, TypeOK, Workers,
                                             LeaseInv, ClocksBehind, LengthsBounded
        <3>2. TakeLease(worker.to, worker.at, worker.ttl)
            BY <1>8, <2>3 DEF GrantLease
        <3>3. /\ GrantsCovered' /\ GrantsExclusive' /\ PredecessorBehind'
              /\ expires' <= now' + leaseSeconds'
            BY <1>8, <2>1, <3>1, <3>2, LeaseTaken DEF GrantLease, NothingGranted
        <3> QED
            BY <1>8, <2>2, <3>3 DEF GrantLease, LeaseInv, ClocksBehind, LengthsBounded
    <2>4. CASE ~MayGrant(worker.from, worker.to, worker.at)
        <3>1. UNCHANGED leaseVars
            BY <1>8, <2>4 DEF GrantLease
        <3>2. GrantsCovered' /\ GrantsExclusive' /\ PredecessorBehind'
            BY <1>0, <1>8, <2>1, <3>1, RowKept DEF GrantLease
        <3> QED
            BY <1>8, <2>2, <3>1, <3>2 DEF GrantLease, LeaseInv, ClocksBehind,
                                          LengthsBounded, leaseVars
    <2> QED
        BY <2>3, <2>4
<1>9. ASSUME NEW a \in Agents, AssignPrimary(a) \/ ReplaceStandby(a) PROVE LeaseInv'
    <2>1. NothingGranted
        BY <1>0, <1>9, GrantsKept DEF AssignPrimary, ReplaceStandby
    <2>2. GrantsCovered' /\ GrantsExclusive' /\ PredecessorBehind'
        BY <1>0, <1>9, <2>1, RowKept DEF AssignPrimary, ReplaceStandby
    <2>3. ClocksBehind' /\ LengthsBounded'
        BY <1>9 DEF AssignPrimary, ReplaceStandby, LeaseInv, ClocksBehind,
                    LengthsBounded, leaseVars
    <2> QED
        BY <2>2, <2>3 DEF LeaseInv
<1>10. ASSUME NEW a \in Agents, DeleteAgent(a) PROVE LeaseInv'
    <2>1. NothingGranted
        BY <1>0, <1>10, GrantsKept DEF DeleteAgent
    <2>2. collector' \in {collector, None} /\ expires' = expires /\ now' = now
        BY <1>10 DEF DeleteAgent
    <2>3. GrantsCovered' /\ GrantsExclusive'
        BY <2>1, <2>2, CoverKept
    <2>4. PredecessorBehind'
        <3>1. prevUntil' = prevUntil /\ prevAgent' \in {prevAgent, None}
            BY <1>10 DEF DeleteAgent
        <3>2. CASE prevAgent' = None
            BY <3>2 DEF PredecessorBehind
        <3>3. CASE prevAgent' = prevAgent /\ prevAgent # None
            BY <2>1, <2>2, <3>1, <3>3 DEF PredecessorBehind, LeaseInv, NothingGranted
        <3> QED
            BY <3>1, <3>2, <3>3
    <2>5. ClocksBehind' /\ LengthsBounded'
        BY <1>10 DEF DeleteAgent, LeaseInv, ClocksBehind, LengthsBounded
    <2> QED
        BY <2>3, <2>4, <2>5 DEF LeaseInv
<1>11. CASE Handback
    <2>1. NothingGranted
        BY <1>0, <1>11, GrantsKept DEF Handback
    <2>2. /\ collector' = None /\ prevAgent' = collector
          /\ prevUntil' = expires /\ expires' = expires /\ now' = now
        BY <1>11 DEF Handback, ReleaseLease
    <2>3. GrantsCovered' /\ GrantsExclusive'
        BY <2>1, <2>2, CoverKept
    <2>4. PredecessorBehind'
        <3>1. \A g \in Grants : Live(g) => g.agent = collector
            BY <1>11 DEF Handback, LeaseInv, GrantsCovered
        <3> QED
            BY <1>0, <2>1, <2>2, <3>1 DEF PredecessorBehind, NothingGranted
    <2>5. ClocksBehind' /\ LengthsBounded'
        BY <1>11 DEF Handback, ReleaseLease, LeaseInv, ClocksBehind, LengthsBounded
    <2> QED
        BY <2>3, <2>4, <2>5 DEF LeaseInv
<1>12. CASE LengthenLease
    <2>0. UNCHANGED <<leaseVars, until, waiting, net, now, worker>>
        BY <1>12 DEF LengthenLease, SaveLeaseSeconds
    <2>1. NothingGranted
        BY <1>0, <2>0, GrantsKept
    <2>2. GrantsCovered' /\ GrantsExclusive' /\ PredecessorBehind'
        BY <1>0, <2>0, <2>1, RowKept
    <2>3. leaseSeconds' \in Nat /\ leaseSeconds < leaseSeconds'
        BY <1>12, ConstantsAssumption DEF LengthenLease, SaveLeaseSeconds
    <2>4. ClocksBehind'
        BY <2>0 DEF LeaseInv, ClocksBehind
    <2>5. LengthsBounded'
        <3>1. worker.ttl \in Nat
            BY WorkerType
        <3>2. expires' <= now' + leaseSeconds' /\ worker'.ttl <= leaseSeconds'
            <4>1. expires <= now + leaseSeconds /\ worker.ttl <= leaseSeconds
                BY DEF LeaseInv, LengthsBounded
            <4>2. expires' = expires /\ now' = now /\ worker' = worker
                BY <2>0 DEF leaseVars
            <4>3. expires <= now + leaseSeconds'
                <5>1. \A e, n, s, t \in Nat : e <= n + s /\ s < t => e <= n + t
                    OBVIOUS
                <5> QED
                    BY <1>0, <2>3, <4>1, <5>1
            <4>4. worker.ttl <= leaseSeconds'
                BY <1>0, <2>3, <3>1, <4>1
            <4> QED
                BY <4>2, <4>3, <4>4
        <3>3. ASSUME NEW m \in net, m.kind = "reply" PROVE m.ttl <= leaseSeconds'
            <4>1. m.ttl \in Nat
                BY <3>3, ConstantsAssumption DEF TypeOK, Messages
            <4> QED
                BY <1>0, <2>3, <3>3, <4>1 DEF LeaseInv, LengthsBounded
        <3> QED
            BY <2>0, <3>2, <3>3 DEF LengthsBounded
    <2> QED
        BY <2>2, <2>4, <2>5 DEF LeaseInv
<1>13. CASE Tick
    <2>0. UNCHANGED <<leaseVars, until, waiting, net, worker, leaseSeconds>> /\ now' = now + 1
        BY <1>13 DEF Tick
    <2>1. NothingGranted
        BY <1>0, <2>0, GrantsKept
    <2>2. GrantsCovered' /\ GrantsExclusive' /\ PredecessorBehind'
        BY <1>0, <2>0, <2>1, RowKept
    <2>3. ClocksBehind'
        <3>1. \A m \in net : m.anchor \in Nat
            BY DEF TypeOK, Messages
        <3>2. worker.at \in Nat /\ \A a \in Agents : waiting[a] \in Nat
            BY DEF TypeOK, Workers
        <3> QED
            BY <1>0, <2>0, <3>1, <3>2 DEF LeaseInv, ClocksBehind
    <2>4. LengthsBounded'
        BY <1>0, <2>0 DEF LeaseInv, LengthsBounded, leaseVars
    <2> QED
        BY <2>2, <2>3, <2>4 DEF LeaseInv
<1>14. CASE UNCHANGED vars
    <2>1. NothingGranted
        BY <1>0, <1>14, GrantsKept DEF vars
    <2>2. GrantsCovered' /\ GrantsExclusive' /\ PredecessorBehind'
        BY <1>0, <1>14, <2>1, RowKept DEF vars
    <2>3. ClocksBehind' /\ LengthsBounded'
        BY <1>14 DEF vars, LeaseInv, ClocksBehind, LengthsBounded, leaseVars
    <2> QED
        BY <2>2, <2>3 DEF LeaseInv
<1> QED
    BY <1>1, <1>2, <1>3, <1>4, <1>5, <1>6, <1>7, <1>8, <1>9, <1>10, <1>11,
       <1>12, <1>13, <1>14
       DEF SteadyNext, AgentNext, CentralNext, WorkerNext, EditNext

\* The inductive invariant behind the exclusion.
THEOREM LeaseInvariant == SteadySpec => [](TypeOK /\ LeaseInv)
<1>1. Init => TypeOK /\ LeaseInv
    BY TypeInit, LeaseInit
<1>2. TypeOK /\ LeaseInv /\ [SteadyNext]_vars => (TypeOK /\ LeaseInv)'
    BY TypeStep, LeaseStep DEF Next
<1> QED
    BY <1>1, <1>2, PTL DEF SteadySpec

\* Two agents never both believe they may sweep the subnet, for any number of
\* agents, any lease length and any interleaving of heartbeats, worker cycles,
\* restarts, losses and edits that leave the subnet redundant.
THEOREM Exclusion == SteadySpec => []LeaseMutex
<1>1. TypeOK /\ LeaseInv => LeaseMutex
    <2> SUFFICES ASSUME LeaseInv, NEW a \in Agents, NEW b \in Agents, Holds(a), Holds(b)
                 PROVE  a = b
        BY DEF LeaseMutex
    <2>1. [agent |-> a, until |-> until[a]] \in Grants
        BY DEF Grants
    <2>2. [agent |-> b, until |-> until[b]] \in Grants
        BY DEF Grants
    <2> QED
        BY <2>1, <2>2 DEF LeaseInv, GrantsExclusive, Live, Holds
<1> QED
    BY <1>1, LeaseInvariant, PTL

\* The deadline an agent acts on never outlives the expiry central waits for.
THEOREM DeadlinesCovered == SteadySpec => []DeadlineBeforeExpiry
<1>1. TypeOK /\ LeaseInv => DeadlineBeforeExpiry
    <2> SUFFICES ASSUME LeaseInv, NEW a \in Agents, Holds(a)
                 PROVE  until[a] <= expires
        BY DEF DeadlineBeforeExpiry
    <2>1. [agent |-> a, until |-> until[a]] \in Grants
        BY DEF Grants
    <2> QED
        BY <2>1 DEF LeaseInv, GrantsCovered, Live, Holds
<1> QED
    BY <1>1, LeaseInvariant, PTL

\* The period for which the predecessor's spool is admitted is over before
\* another agent may sweep.
THEOREM HistoryClosed == SteadySpec => []PredecessorClosed
<1>1. TypeOK /\ LeaseInv => PredecessorClosed
    <2> SUFFICES ASSUME LeaseInv, NEW a \in Agents, Holds(a), prevAgent \notin {None, a}
                 PROVE  prevUntil <= now
        BY DEF PredecessorClosed
    <2>1. [agent |-> a, until |-> until[a]] \in Grants
        BY DEF Grants
    <2> QED
        BY <2>1 DEF LeaseInv, PredecessorBehind, Live, Holds
<1> QED
    BY <1>1, LeaseInvariant, PTL

-----------------------------------------------------------------------------
(* The lease implements the token.                                         *)

\* Whoever may sweep after a step was owed it before: entitlement only ever
\* comes out of a grant.
LEMMA OwedBefore ==
    ASSUME TypeOK, TypeOK', [SteadyNext]_vars, NEW b \in Agents, Holds(b)'
    PROVE  \E g \in Grants : g.agent = b /\ Live(g)
<1>0. now \in Nat /\ now' \in Nat /\ until[b] \in Nat
    BY DEF TypeOK
<1>1. CASE until'[b] = until[b] /\ now <= now'
    <2>1. now < until[b]
        BY <1>0, <1>1 DEF Holds
    <2>2. [agent |-> b, until |-> until[b]] \in Grants
        BY DEF Grants
    <2> QED
        BY <2>1, <2>2 DEF Live
<1>2. CASE \E m \in net : ReceiveReply(m) /\ m.agent = b
    <2>1. PICK m \in net : ReceiveReply(m) /\ m.agent = b
        BY <1>2
    <2>2. now' = now /\ until'[b] = IF m.held THEN m.anchor + m.ttl ELSE 0
        BY <2>1 DEF ReceiveReply, TypeOK
    <2>3. m.held /\ now < m.anchor + m.ttl
        BY <1>0, <2>2 DEF Holds
    <2>4. [agent |-> m.agent, until |-> m.anchor + m.ttl] \in Grants
        BY <2>1, <2>3 DEF Grants, ReceiveReply
    <2> QED
        BY <2>1, <2>3, <2>4 DEF Live
<1>3. CASE \E m \in net : ReceiveReply(m) /\ m.agent # b
    BY <1>0, <1>1, <1>3 DEF ReceiveReply, TypeOK
<1>4. CASE \E a \in Agents : RestartAgent(a)
    <2>1. now' = now /\ until'[b] \in {until[b], 0}
        BY <1>4 DEF RestartAgent, TypeOK
    <2>2. until'[b] # 0
        BY <1>0 DEF Holds
    <2> QED
        BY <1>0, <1>1, <2>1, <2>2
<1>5. CASE UNCHANGED <<until, now>>
    BY <1>0, <1>1, <1>5
<1>6. CASE Tick
    BY <1>0, <1>1, <1>6 DEF Tick, agentVars
<1> QED
    BY <1>2, <1>3, <1>4, <1>5, <1>6
       DEF SteadyNext, AgentNext, CentralNext, WorkerNext, EditNext, vars,
           SendHeartbeat, HeartbeatFails, LoseRequest, HandleHeartbeat,
           HandleOtherRequest, MarkOfflineAgents, ScanSubnet, GrantLease,
           WorkerFails, AssignPrimary, ReplaceStandby, DeleteAgent, Handback,
           LengthenLease, SaveLeaseSeconds, agentVars

\* The mapping names the one agent with a live deadline.
LEMMA SweeperIs ==
    ASSUME LeaseMutex
    PROVE  /\ \A a \in Agents : Holds(a) => Sweeper = a
           /\ Sweeper # None => Sweeper \in Agents /\ Holds(Sweeper)
           /\ (\A a \in Agents : ~Holds(a)) => Sweeper = None
BY DEF Sweeper, LeaseMutex

\* Every step passes the token through nobody, or leaves it where it is.
LEMMA TokenStep ==
    ASSUME TypeOK, TypeOK', LeaseInv, LeaseMutex, LeaseMutex', [SteadyNext]_vars
    PROVE  [Token!Next]_Sweeper
<1>1. CASE Sweeper' = None
    BY <1>1 DEF Token!Next, Token!Drop
<1>2. CASE Sweeper' # None
    <2>1. PICK b \in Agents : Sweeper' = b /\ Holds(b)'
        <3>1. PICK a \in Agents : Holds(a)'
            BY <1>2 DEF Sweeper
        <3>2. Sweeper' = CHOOSE c \in Agents : Holds(c)'
            BY <3>1 DEF Sweeper
        <3> QED
            BY <3>1, <3>2
    <2>2. PICK g \in Grants : g.agent = b /\ Live(g)
        BY <2>1, OwedBefore
    <2>3. CASE Sweeper = None
        BY <2>1, <2>3 DEF Token!Next, Token!Take
    <2>4. CASE Sweeper # None
        <3>1. Sweeper \in Agents /\ Holds(Sweeper)
            BY <2>4, SweeperIs
        <3>2. [agent |-> Sweeper, until |-> until[Sweeper]] \in Grants
            BY <3>1 DEF Grants
        <3>3. Sweeper = b
            BY <2>2, <3>1, <3>2 DEF LeaseInv, GrantsExclusive, Live, Holds
        <3>4. Sweeper' = Sweeper
            BY <2>1, <3>3
        <3> QED
            BY <3>4
    <2> QED
        BY <2>3, <2>4
<1> QED
    BY <1>1, <1>2

\* The lease protocol refines SubnetToken.
THEOREM Refinement == SteadySpec => ImplementsToken
<1>1. Init => Token!Init
    <2> SUFFICES ASSUME Init PROVE Sweeper = None
        BY DEF Token!Init
    <2>1. \A a \in Agents : ~Holds(a)
        BY DEF Init, Holds
    <2> QED
        BY <2>1 DEF Sweeper
<1>2. /\ TypeOK /\ LeaseInv /\ LeaseMutex /\ TypeOK' /\ LeaseMutex'
      /\ [SteadyNext]_vars
      => [Token!Next]_Sweeper
    BY TokenStep
<1> QED
    BY <1>1, <1>2, LeaseInvariant, Exclusion, PTL
       DEF SteadySpec, ImplementsToken, Token!Spec

\* No step takes a lease whose recorded expiry has not passed.
THEOREM LeasesLapse == SteadySpec => OnlyLapsedLeasesMove
<1> USE DEF editVars, settingVars, leaseVars, beatVars, agentVars
<1>1. TypeOK /\ LeaseInv /\ [SteadyNext]_vars
      => [collector' \notin {collector, None} => expires <= now]_vars
    <2> SUFFICES ASSUME TypeOK, LeaseInv, SteadyNext, collector' \notin {collector, None}
                 PROVE  expires <= now
        OBVIOUS
    <2>1. CASE \E m \in net : HandleHeartbeat(m)
        BY <2>1 DEF HandleHeartbeat, RenewLease, MayRenew, TakeLease
    <2>2. CASE GrantLease
        <3>1. expires <= worker.at /\ worker.at <= now
            BY <2>2 DEF GrantLease, MayGrant, LeaseInv, ClocksBehind
        <3>2. expires \in Nat /\ worker.at \in Nat /\ now \in Nat
            BY WorkerType DEF TypeOK
        <3> QED
            BY <3>1, <3>2
    <2>3. CASE \E a \in Agents : DeleteAgent(a)
        BY <2>3 DEF DeleteAgent
    <2>4. CASE Handback
        BY <2>4 DEF Handback, ReleaseLease
    <2>5. CASE collector' = collector
        BY <2>5
    <2> QED
        BY <2>1, <2>2, <2>3, <2>4, <2>5
           DEF SteadyNext, Tick, AgentNext, CentralNext, WorkerNext, EditNext,
               SendHeartbeat, HeartbeatFails, RestartAgent, LoseRequest,
               ReceiveReply, HandleOtherRequest, MarkOfflineAgents, ScanSubnet,
               WorkerFails, AssignPrimary, ReplaceStandby, LengthenLease,
               SaveLeaseSeconds
<1> QED
    BY <1>1, LeaseInvariant, PTL DEF SteadySpec, OnlyLapsedLeasesMove
=============================================================================
