--------------------------- MODULE CollectorLease ---------------------------
(***************************************************************************)
(* Collector redundancy: the lease that decides which of two agents sweeps *)
(* one subnet (central/collector.py), the heartbeat that renews it         *)
(* (central/api/ingest.py), the worker job that moves it                   *)
(* (central/worker/jobs.py), the operator forms that edit it               *)
(* (central/dashboard/manage.py) and the deadline the agent enforces on    *)
(* itself (agent runner.CollectorLeases).                                  *)
(*                                                                         *)
(* Every UPDATE of the source is a single-row statement, so one subnet row *)
(* is the whole state: leases of two subnets never interact.               *)
(*                                                                         *)
(* Time.  now is central's clock.  An agent's deadline is a duration added *)
(* to its own monotonic reading, so it is written here on the same axis:   *)
(* the model assumes monotonic clocks of equal RATE and nothing about what *)
(* any wall clock reads.  SQL NULL in a time column is 0; time starts at 1 *)
(* so that NULL compares as "already past", which is how each WHERE clause *)
(* treats it.                                                              *)
(***************************************************************************)
EXTENDS Integers, FiniteSets

CONSTANTS
    Agents,         \* agent rows that may collect the subnet
    None,           \* SQL NULL in an agent column
    LeaseLengths,   \* values the setting collector.lease_seconds may take
    Grace,          \* alerts.offline_grace_seconds
    TakeoverAfter,  \* collector.takeover_after_seconds
    AutoTakeover,   \* collector.auto_takeover
    MaxTime,        \* bound: the clock stops here
    MaxMessages     \* bound: heartbeat requests and replies in flight

ASSUME ConstantsAssumption ==
    /\ None \notin Agents
    /\ LeaseLengths \subseteq Nat \ {0}
    /\ Grace \in Nat
    /\ TakeoverAfter \in Nat
    /\ AutoTakeover \in BOOLEAN
    /\ MaxTime \in Nat \ {0}
    /\ MaxMessages \in Nat

VARIABLES
    now,            \* central's clock
    leaseSeconds,   \* the setting collector.lease_seconds
    registered,     \* agents whose row still exists
    primary,        \* subnets.agent_id
    standby,        \* subnets.standby_agent_id
    collector,      \* subnets.collector_agent_id
    expires,        \* subnets.collector_lease_expires_at
    prevAgent,      \* subnets.collector_prev_agent_id
    prevUntil,      \* subnets.collector_prev_until
    lastBeat,       \* agents.last_heartbeat
    status,         \* agents.status
    worker,         \* the worker's pass over this subnet
    until,          \* CollectorLeases._until for this CIDR; 0 = absent
    waiting,        \* anchor of the heartbeat the agent awaits; 0 = none
    net             \* heartbeat requests and replies in flight

settingVars == <<leaseSeconds, registered>>
editVars    == <<primary, standby>>
leaseVars   == <<collector, expires, prevAgent, prevUntil>>
beatVars    == <<lastBeat, status>>
agentVars   == <<until, waiting>>
vars == <<now, settingVars, editVars, leaseVars, beatVars, worker, agentVars,
          net>>

Time        == Nat
AgentOrNone == Agents \cup {None}

\* AgentStatus
never_seen == "never_seen"
online     == "online"
offline    == "offline"

Request(a, anchor) == [kind |-> "request", agent |-> a, anchor |-> anchor]
\* A request whose handler read the clock and the setting, and has yet to run
\* its UPDATE.
Stalled(a, anchor, at, ttl) ==
    [kind |-> "stalled", agent |-> a, anchor |-> anchor, at |-> at, ttl |-> ttl]
Reply(a, anchor, held, ttl) ==
    [kind |-> "reply", agent |-> a, anchor |-> anchor, held |-> held, ttl |-> ttl]

\* What answering m with held and ttl leaves in flight: the reply travels on
\* the request's own connection, so none if the agent has hung up.
Answered(m, held, ttl) ==
    (net \ {m}) \cup {r \in {Reply(m.agent, m.anchor, held, ttl)} :
                         waiting[r.agent] = r.anchor}

Messages ==
    [kind : {"request"}, agent : Agents, anchor : Time] \cup
    [kind : {"stalled"}, agent : Agents, anchor : Time, at : Time,
     ttl : LeaseLengths] \cup
    [kind : {"reply"}, agent : Agents, anchor : Time, held : BOOLEAN,
     ttl : LeaseLengths]

\* The worker's position: "idle" between cycles, "scan" after
\* mark_offline_agents committed, "grant" once a candidate was chosen from rows
\* read at the instant worker.at.
Idle == [pc |-> "idle", from |-> None, to |-> None, at |-> 0, ttl |-> 0]

Workers ==
    [pc : {"idle", "scan", "grant"}, from : AgentOrNone,
     to : AgentOrNone, at : Time, ttl : LeaseLengths \cup {0}]

TypeOK ==
    /\ now \in Nat \ {0}
    /\ leaseSeconds \in LeaseLengths
    /\ registered \subseteq Agents
    /\ primary \in AgentOrNone
    /\ standby \in AgentOrNone
    /\ collector \in AgentOrNone
    /\ expires \in Time
    /\ prevAgent \in AgentOrNone
    /\ prevUntil \in Time
    /\ lastBeat \in [Agents -> Time]
    /\ status \in [Agents -> {never_seen, online, offline}]
    /\ worker \in Workers
    /\ until \in [Agents -> Time]
    /\ waiting \in [Agents -> Time]
    /\ net \subseteq Messages

\* A subnet to which an operator has just given a standby: seed_lease named
\* the primary.  An agent has been heard from just now, or never.
Init ==
    /\ now = 1
    /\ leaseSeconds \in LeaseLengths
    /\ registered = Agents
    /\ primary \in Agents
    /\ standby \in Agents \ {primary}
    /\ collector = primary
    /\ expires = now + leaseSeconds
    /\ prevAgent = None
    /\ prevUntil = 0
    /\ lastBeat \in [Agents -> {0, now}]
    /\ status = [a \in Agents |-> IF lastBeat[a] = 0 THEN never_seen ELSE online]
    /\ worker = Idle
    /\ until = [a \in Agents |-> 0]
    /\ waiting = [a \in Agents |-> 0]
    /\ net = {}

-----------------------------------------------------------------------------
(* The lease row: the two conditional UPDATEs and the release.             *)

IsRedundant == standby # None

Eligible == {primary, standby} \ {None}

\* Mutant: _displaced reads the expiry the statement writes.
TakeLeaseNewExpiry(a, at, ttl) ==
    /\ collector' = a
    /\ expires' = at + ttl
    /\ IF collector \in {None, a}
       THEN UNCHANGED <<prevAgent, prevUntil>>
       ELSE prevAgent' = collector /\ prevUntil' = expires'

\* The SET clause renew_lease and grant_lease share, _displaced included: the
\* predecessor is recorded only when another agent is really displaced.
TakeLease(a, at, ttl) ==
    /\ collector' = a
    /\ expires' = at + ttl
    /\ IF collector \in {None, a}
       THEN UNCHANGED <<prevAgent, prevUntil>>
       ELSE prevAgent' = collector /\ prevUntil' = expires

\* Mutant: an unheld lease is picked up at once, barrier or not.
MayRenewNoBarrier(a, at) ==
    IsRedundant /\ a \in Eligible /\ collector \in {None, a}

\* The WHERE clause of renew_lease: extend what is mine, or pick up what
\* nobody holds once the barrier a release left behind has passed.
MayRenew(a, at) ==
    /\ IsRedundant
    /\ a \in Eligible
    /\ \/ collector = a
       \/ collector = None /\ expires <= at

\* Mutant: the swap asserts the holder alone.
MayGrantHolderOnly(from, to, at) ==
    IsRedundant /\ to \in Eligible /\ collector = from

\* The WHERE clause of grant_lease: the swap misses unless the row still
\* shows the judged holder and an expiry in the past of the caller's clock.
MayGrant(from, to, at) ==
    /\ IsRedundant
    /\ to \in Eligible
    /\ expires <= at
    /\ collector = from

\* Mutant: a release clears the expiry with the holder.
ReleaseLeaseNoBarrier ==
    /\ collector' = None
    /\ expires' = 0
    /\ prevAgent' = collector
    /\ prevUntil' = expires

\* release_lease: the expiry stays where it was and becomes the barrier.
ReleaseLease ==
    /\ collector' = None
    /\ prevAgent' = collector
    /\ prevUntil' = expires
    /\ UNCHANGED expires

\* renew_lease, by the caller's clock: TRUE and FALSE are its rowcount.
RenewLease(a, at, ttl) ==
    IF MayRenew(a, at) THEN TakeLease(a, at, ttl) ELSE UNCHANGED leaseVars

\* touch_heartbeat
Touch(a, at) ==
    /\ lastBeat' = [lastBeat EXCEPT ![a] = at]
    /\ status' = [status EXCEPT ![a] = online]

-----------------------------------------------------------------------------
(* The agent: _try_heartbeat and CollectorLeases.                          *)

\* The anchor is sampled before the request goes out; one is awaited at a time.
SendHeartbeat(a) ==
    /\ waiting[a] = 0
    /\ Cardinality(net) < MaxMessages
    /\ waiting' = [waiting EXCEPT ![a] = now]
    /\ net' = net \cup {Request(a, now)}
    /\ UNCHANGED <<now, settingVars, editVars, leaseVars, beatVars, worker, until>>

\* Mutant: the deadline counts from the arrival of the answer.
ReceiveReplyLateAnchor(m) ==
    /\ m \in net
    /\ m.kind = "reply"
    /\ net' = net \ {m}
    /\ waiting' = [waiting EXCEPT ![m.agent] = 0]
    /\ until' = [until EXCEPT ![m.agent] = IF m.held THEN now + m.ttl ELSE 0]
    /\ UNCHANGED <<now, settingVars, editVars, leaseVars, beatVars, worker>>

\* central answered: record() REPLACES the held set.
ReceiveReply(m) ==
    /\ m \in net
    /\ m.kind = "reply"
    /\ net' = net \ {m}
    /\ waiting' = [waiting EXCEPT ![m.agent] = 0]
    /\ until' = [until EXCEPT ![m.agent] =
                    IF m.held THEN m.anchor + m.ttl ELSE 0]
    /\ UNCHANGED <<now, settingVars, editVars, leaseVars, beatVars, worker>>

\* The connection is gone, and with it the reply it would have carried; a
\* request on its way may still arrive.
HangUp(a) ==
    /\ waiting' = [waiting EXCEPT ![a] = 0]
    /\ net' = {m \in net : ~(m.kind = "reply" /\ m.agent = a)}

\* A timeout or an error: the deadlines already granted are left alone.
HeartbeatFails(a) ==
    /\ waiting[a] # 0
    /\ HangUp(a)
    /\ UNCHANGED <<now, settingVars, editVars, leaseVars, beatVars, worker, until>>

\* A crash or a restart: CollectorLeases lives in memory and starts empty.
RestartAgent(a) ==
    /\ until' = [until EXCEPT ![a] = 0]
    /\ HangUp(a)
    /\ UNCHANGED <<now, settingVars, editVars, leaseVars, beatVars, worker>>

\* The network drops a request.
LoseRequest(m) ==
    /\ m.kind = "request"
    /\ net' = net \ {m}
    /\ UNCHANGED <<now, settingVars, editVars, leaseVars, beatVars, worker,
                   agentVars>>

-----------------------------------------------------------------------------
(* Central: the request handlers.                                          *)

\* POST /heartbeat: touch, renew_all, answer what is held and for how long.
\* A deleted agent no longer authenticates.
HandleHeartbeat(m) ==
    /\ m \in net
    /\ m.kind = "request"
    /\ m.agent \in registered
    /\ Touch(m.agent, now)
    /\ RenewLease(m.agent, now, leaseSeconds)
    /\ net' = Answered(m, MayRenew(m.agent, now), leaseSeconds)
    /\ UNCHANGED <<now, settingVars, editVars, worker, agentVars>>

\* The same handler, preempted (or blocked on a row lock) between reading its
\* clock and running its UPDATE: the statement later compares and writes with
\* the clock and the length it read then.
StallHeartbeat(m) ==
    /\ m \in net
    /\ m.kind = "request"
    /\ m.agent \in registered
    /\ net' = (net \ {m}) \cup {Stalled(m.agent, m.anchor, now, leaseSeconds)}
    /\ UNCHANGED <<now, settingVars, editVars, leaseVars, beatVars, worker,
                   agentVars>>

ResumeHeartbeat(m) ==
    /\ m \in net
    /\ m.kind = "stalled"
    /\ m.agent \in registered
    /\ Touch(m.agent, m.at)
    /\ RenewLease(m.agent, m.at, m.ttl)
    /\ net' = Answered(m, MayRenew(m.agent, m.at), m.ttl)
    /\ UNCHANGED <<now, settingVars, editVars, worker, agentVars>>

\* Any other authenticated request of an agent (/config, /targets, /readings,
\* ...): it counts as a heartbeat and renews nothing.
HandleOtherRequest(a) ==
    /\ a \in registered
    /\ Touch(a, now)
    /\ UNCHANGED <<now, settingVars, editVars, leaseVars, worker, agentVars, net>>

-----------------------------------------------------------------------------
(* Central: one worker cycle, as far as this subnet is concerned.          *)

\* mark_offline_agents, the first job of a cycle that got the leader lock.
MarkOfflineAgents ==
    /\ worker.pc = "idle"
    /\ status' = [a \in Agents |->
                    IF a \notin registered THEN status[a]
                    ELSE IF lastBeat[a] = 0 THEN never_seen
                    ELSE IF now - lastBeat[a] > Grace THEN offline
                    ELSE online]
    /\ worker' = [worker EXCEPT !.pc = "scan"]
    /\ UNCHANGED <<now, settingVars, editVars, leaseVars, lastBeat, agentVars, net>>

Alive(a) ==
    /\ a \in registered
    /\ status[a] = online
    /\ lastBeat[a] # 0
    /\ now - lastBeat[a] <= Grace

Gone(a) ==
    \/ a \notin registered
    \/ /\ status[a] = offline
       /\ lastBeat[a] = 0 \/ now - lastBeat[a] > TakeoverAfter

\* Mutant: takeover works in one direction only, from primary to standby.
CandidateOneWay ==
    IF collector = None \/ collector \notin Eligible THEN primary
    ELSE IF AutoTakeover /\ collector = primary /\ Gone(collector) THEN standby
    ELSE None

\* Who reassign_collectors would hand the lapsed lease to, None for nobody.
Candidate ==
    IF collector = None \/ collector \notin Eligible THEN primary
    ELSE IF AutoTakeover /\ Gone(collector) /\ Eligible \ {collector} # {}
         THEN CHOOSE a \in Eligible : a # collector
         ELSE None

\* The read half of reassign_collectors: everything judged here may be stale
\* when the write runs.
ScanSubnet ==
    /\ worker.pc = "scan"
    /\ worker' = IF /\ IsRedundant
                    /\ expires <= now
                    /\ Candidate \notin {None, collector}
                    /\ Alive(Candidate)
                 THEN [pc |-> "grant", from |-> collector, to |-> Candidate,
                       at |-> now, ttl |-> leaseSeconds]
                 ELSE Idle
    /\ UNCHANGED <<now, settingVars, editVars, leaseVars, beatVars, agentVars, net>>

\* The write half: grant_lease, a compare-and-swap on what was judged.
GrantLease ==
    /\ worker.pc = "grant"
    /\ IF MayGrant(worker.from, worker.to, worker.at)
       THEN TakeLease(worker.to, worker.at, worker.ttl)
       ELSE UNCHANGED leaseVars
    /\ worker' = Idle
    /\ UNCHANGED <<now, settingVars, editVars, beatVars, agentVars, net>>

\* The job raised, or the worker process died: its transaction rolls back and
\* the next cycle starts over.
WorkerFails ==
    /\ worker.pc # "idle"
    /\ worker' = Idle
    /\ UNCHANGED <<now, settingVars, editVars, leaseVars, beatVars, agentVars, net>>

-----------------------------------------------------------------------------
(* Central: the operator.                                                  *)

\* subnet_update, agent_id field.
AssignPrimary(a) ==
    /\ a \in registered
    /\ primary' = a
    /\ UNCHANGED <<now, settingVars, standby, leaseVars, beatVars, worker,
                   agentVars, net>>

\* _apply_standby, first standby of a subnet: seed_lease.
AddStandby(a) ==
    /\ a \in registered
    /\ standby = None
    /\ primary \notin {None, a}
    /\ standby' = a
    /\ collector' = primary
    /\ expires' = now + leaseSeconds
    /\ prevAgent' = None
    /\ prevUntil' = 0
    /\ UNCHANGED <<now, settingVars, primary, beatVars, worker, agentVars, net>>

\* _apply_standby, another standby instead: the lease is not touched.
ReplaceStandby(a) ==
    /\ a \in registered
    /\ standby \notin {None, a}
    /\ primary \notin {None, a}
    /\ standby' = a
    /\ UNCHANGED <<now, settingVars, primary, leaseVars, beatVars, worker,
                   agentVars, net>>

\* _apply_standby, "no standby": redundancy off, the lease released.
ClearStandby ==
    /\ standby # None
    /\ standby' = None
    /\ IF collector # None THEN ReleaseLease ELSE UNCHANGED leaseVars
    /\ UNCHANGED <<now, settingVars, primary, beatVars, worker, agentVars, net>>

\* Mutant: the lease is pointed straight at the primary.
HandbackReassigns ==
    /\ collector \notin {None, primary}
    /\ primary # None
    /\ collector' = primary
    /\ prevAgent' = collector
    /\ prevUntil' = expires
    /\ expires' = now + leaseSeconds
    /\ UNCHANGED <<now, settingVars, editVars, beatVars, worker, agentVars, net>>

\* subnet_handback
Handback ==
    /\ collector \notin {None, primary}
    /\ primary # None
    /\ ReleaseLease
    /\ UNCHANGED <<now, settingVars, editVars, beatVars, worker, agentVars, net>>

\* agent_delete: every column that referenced the row is SET NULL; the expiry
\* stays.
DeleteAgent(a) ==
    LET cleared(x) == IF x = a THEN None ELSE x IN
    /\ a \in registered
    /\ registered' = registered \ {a}
    /\ primary' = cleared(primary)
    /\ standby' = cleared(standby)
    /\ collector' = cleared(collector)
    /\ prevAgent' = cleared(prevAgent)
    /\ UNCHANGED <<now, leaseSeconds, expires, prevUntil, beatVars, worker,
                   agentVars, net>>

\* The settings page saves another collector.lease_seconds.
SaveLeaseSeconds(t) ==
    /\ leaseSeconds' = t
    /\ UNCHANGED <<now, registered, editVars, leaseVars, beatVars, worker,
                   agentVars, net>>

LengthenLease == \E t \in LeaseLengths : t > leaseSeconds /\ SaveLeaseSeconds(t)
ShortenLease  == \E t \in LeaseLengths : t < leaseSeconds /\ SaveLeaseSeconds(t)

-----------------------------------------------------------------------------

Tick ==
    /\ now < MaxTime
    /\ now' = now + 1
    /\ UNCHANGED <<settingVars, editVars, leaseVars, beatVars, worker,
                   agentVars, net>>

AgentNext ==
    \/ \E a \in Agents : SendHeartbeat(a) \/ HeartbeatFails(a) \/ RestartAgent(a)
    \/ \E m \in net : ReceiveReply(m) \/ LoseRequest(m)

CentralNext ==
    \/ \E m \in net : HandleHeartbeat(m)
    \/ \E a \in Agents : HandleOtherRequest(a)

WorkerNext ==
    MarkOfflineAgents \/ ScanSubnet \/ GrantLease \/ WorkerFails

\* Edits an operator may make while the subnet stays redundant.
EditNext ==
    \/ \E a \in Agents : AssignPrimary(a) \/ ReplaceStandby(a) \/ DeleteAgent(a)
    \/ Handback
    \/ LengthenLease

SteadyNext == Tick \/ AgentNext \/ CentralNext \/ WorkerNext \/ EditNext

\* The subnet stays redundant, the lease is never shortened, and a heartbeat's
\* UPDATE runs when its handler reads the clock.
SteadySpec == Init /\ [][SteadyNext]_vars

\* Also: the operator switches redundancy off and on again.
ToggleNext == ClearStandby \/ \E a \in Agents : AddStandby(a)
ToggleSpec == Init /\ [][SteadyNext \/ ToggleNext]_vars

\* Also: a shorter lease is saved.
ShortenSpec == Init /\ [][SteadyNext \/ ShortenLease]_vars

\* Also: heartbeat handlers stall between clock and UPDATE.
StallNext == \E m \in net : StallHeartbeat(m) \/ ResumeHeartbeat(m)
StallSpec == Init /\ [][SteadyNext \/ StallNext]_vars

\* Everything together.
Next == SteadyNext \/ ToggleNext \/ ShortenLease \/ StallNext
Spec == Init /\ [][Next]_vars

-----------------------------------------------------------------------------
(* Properties.                                                             *)

\* CollectorLeases.holds: the agent believes it may sweep the subnet.
Holds(a) == now < until[a]

\* No two agents are entitled to sweep the subnet at one instant
\* (collector.py: "prove two collectors cannot both believe they own a
\* subnet").
LeaseMutex == \A a, b \in Agents : Holds(a) /\ Holds(b) => a = b

\* The ordering the exclusion rests on: the deadline an agent still acts on
\* never lies past the expiry central would wait for before giving the subnet
\* to another agent.
DeadlineBeforeExpiry == \A a \in Agents : Holds(a) => until[a] <= expires

\* No lease is taken from an agent whose lease is live: whoever becomes the
\* holder finds the previous expiry in the past, through a renewal by a
\* heartbeat, a stale compare-and-swap by the worker or a hand-back.
OnlyLapsedLeasesMove ==
    [][collector' \notin {collector, None} => expires <= now]_vars

\* admits() lets the predecessor replay readings stamped up to prevUntil.  That
\* period is over before another agent may sweep, so the two series of readings
\* that billing adds up never interleave.
PredecessorClosed ==
    \A a \in Agents : Holds(a) /\ prevAgent \notin {None, a} => prevUntil <= now

\* The lease implements the token: the agent with a live deadline has it.
Sweeper ==
    IF \E a \in Agents : Holds(a) THEN CHOOSE a \in Agents : Holds(a) ELSE None

Token == INSTANCE SubnetToken WITH sweeper <- Sweeper

\* The protocol refines SubnetToken: entitlement never jumps from one agent to
\* another, whatever is delayed, lost, restarted or edited.
ImplementsToken == Token!Spec

\* What an agent will act on: the deadlines it stores and those that replies
\* still in flight will make it store.
Grants ==
    {[agent |-> a, until |-> until[a]] : a \in Agents} \cup
    {[agent |-> m.agent, until |-> m.anchor + m.ttl] :
        m \in {r \in net : r.kind = "reply" /\ r.held}}

Live(g) == now < g.until

\* The inductive strengthening of LeaseMutex and DeadlineBeforeExpiry.  A live
\* grant is covered by the row: it lapses no later than the row's expiry, and
\* the row names its agent or, released, nobody.
GrantsCovered ==
    \A g \in Grants : Live(g) => g.until <= expires /\ collector \in {g.agent, None}

\* A released row names nobody, so exclusion between grants is an invariant of
\* its own.
GrantsExclusive ==
    \A g, h \in Grants : Live(g) /\ Live(h) => g.agent = h.agent

\* Every clock that was read is in the past, and no handler is stalled.
ClocksBehind ==
    /\ \A a \in Agents : waiting[a] <= now
    /\ \A m \in net : m.kind # "stalled" /\ m.anchor <= now
    /\ worker.at <= now

\* Lengths handed out earlier are no longer than the setting, so a renewal
\* never moves the expiry back.
LengthsBounded ==
    /\ expires <= now + leaseSeconds
    /\ worker.ttl <= leaseSeconds
    /\ \A m \in net : m.kind = "reply" => m.ttl <= leaseSeconds

\* While somebody's lease is recorded, the predecessor's period is over; and
\* what is left of a period once nobody holds the row ends with its expiry.
PredecessorBehind ==
    /\ collector # None /\ prevAgent # None => prevUntil <= now
    /\ collector = None /\ prevAgent # None =>
          \/ prevUntil <= now
          \/ /\ prevUntil <= expires
             /\ \A g \in Grants : Live(g) => g.agent = prevAgent

LeaseInv ==
    /\ GrantsCovered
    /\ GrantsExclusive
    /\ ClocksBehind
    /\ LengthsBounded
    /\ PredecessorBehind
=============================================================================
