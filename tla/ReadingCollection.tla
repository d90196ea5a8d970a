-------------------------- MODULE ReadingCollection --------------------------
(***************************************************************************)
(* The readings of one printer in a leased subnet: the agents' loop        *)
(* (agent runner.py: run_forever, poll_targets, push_readings), the spool  *)
(* that survives an outage (agent spool.py), central's admission           *)
(* (central/api/ingest.py: post_readings, collector.admits) and the job    *)
(* that calls a silent printer offline (worker jobs.py).                   *)
(*                                                                         *)
(* The lease row is CollectorLease's, with its operators; here a heartbeat *)
(* is one step, for what may happen inside it is that module's subject.    *)
(* All clocks agree.  A reading is its agent and its ts: one per agent and *)
(* instant, which is the polling interval.                                 *)
(***************************************************************************)
EXTENDS Integers, Sequences, FiniteSets, SequencesExt, FiniteSetsExt

CONSTANTS
    Primary, Standby,   \* the two agents of the subnet
    None,
    Ttl,                \* collector.lease_seconds
    BatchSize,          \* drain's batch_size
    SpoolMax,           \* spool_max_readings
    PrinterLimit,       \* alerts.printer_offline_minutes
    Grace,              \* alerts.offline_grace_seconds
    MaxTime             \* bound: the clock stops here

ASSUME ReadingAssumption ==
    /\ Primary # Standby /\ None \notin {Primary, Standby}
    /\ Ttl \in Nat \ {0} /\ BatchSize \in Nat \ {0} /\ SpoolMax \in Nat \ {0}
    /\ PrinterLimit \in Nat /\ Grace \in Nat
    /\ MaxTime \in Nat \ {0}

VARIABLES
    now,
    link,           \* agents whose link to central works
    collector, expires, prevAgent, prevUntil,   \* the lease row
    until,          \* CollectorLeases._until
    cached,         \* agents whose TargetCache lists the printer
    job,            \* where each agent is in its cycle
    spool,          \* readings-spool.jsonl
    recorded,       \* readings: rows per reading
    lastSeen,       \* printers.last_seen
    status,         \* printers.status
    heard,          \* the latest agents.last_heartbeat of the site
    entitled,       \* history: the instants an agent was granted
    taken,          \* history: readings taken
    givenUp,        \* history: readings given up, counted or not
    untold,         \* history: readings lost that no count includes
    repeats         \* history: acknowledgements that were not acted upon

rowVars     == <<collector, expires, prevAgent, prevUntil>>
agentVars   == <<until, cached, job, spool>>
centralVars == <<recorded, lastSeen, status, heard>>
historyVars == <<entitled, taken, givenUp, untold, repeats>>
vars == <<now, link, rowVars, agentVars, centralVars, historyVars>>

Agents   == {Primary, Standby}
Reading(a, t) == [agent |-> a, ts |-> t]
Readings == [agent : Agents, ts : 1..MaxTime]

\* CollectorLease's row and its UPDATEs, for a subnet nobody edits.
Row == INSTANCE CollectorLease WITH
        LeaseLengths <- {Ttl}, TakeoverAfter <- 0, AutoTakeover <- TRUE,
        MaxMessages <- 0, leaseSeconds <- Ttl, registered <- Agents,
        primary <- Primary, standby <- Standby,
        lastBeat <- [a \in Agents |-> heard], status <- [a \in Agents |-> "online"],
        worker <- [pc |-> "idle"], waiting <- [a \in Agents |-> 0], net <- {}

\* fresh is this cycle's reading, sent how many spooled ones were acknowledged.
Idle == [pc |-> "idle", fresh |-> {}, sent |-> 0]

Jobs == [pc : {"idle", "poll", "drain", "rewrite", "push"}, fresh : SUBSET Readings,
         sent : Nat]

TypeOK ==
    /\ now \in 1..MaxTime
    /\ link \subseteq Agents
    /\ collector \in Agents \cup {None} /\ prevAgent \in Agents \cup {None}
    /\ expires \in Nat /\ prevUntil \in Nat
    /\ until \in [Agents -> Nat]
    /\ cached \subseteq Agents
    /\ job \in [Agents -> Jobs] /\ spool \in [Agents -> Seq(Readings)]
    /\ \A a \in Agents : job[a].sent <= Len(spool[a]) /\ Len(spool[a]) <= SpoolMax
    /\ recorded \in [Readings -> Nat]
    /\ lastSeen \in 1..now /\ heard \in 1..now
    /\ status \in {"ok", "offline"}
    /\ entitled \subseteq Agents \X Nat
    /\ taken \subseteq Readings /\ givenUp \subseteq Readings /\ untold \subseteq Readings
    /\ repeats \in Nat

Init ==
    /\ now = 1
    /\ link = Agents
    /\ collector = Primary /\ expires = now + Ttl
    /\ prevAgent = None /\ prevUntil = 0
    /\ until = [a \in Agents |-> 0]
    /\ cached = {}
    /\ job = [a \in Agents |-> Idle]
    /\ spool = [a \in Agents |-> <<>>]
    /\ recorded = [r \in Readings |-> 0]
    /\ lastSeen = now /\ status = "ok" /\ heard = now
    /\ entitled = {} /\ taken = {} /\ givenUp = {} /\ untold = {}
    /\ repeats = 0

Up(a) == a \in link

-----------------------------------------------------------------------------
(* Central.                                                                *)

\* admits, may_collect included: the holder, and the immediate predecessor up
\* to the end of its tenure.
Admits(r) ==
    \/ collector = r.agent
    \/ prevAgent = r.agent /\ prevUntil # 0 /\ r.ts <= prevUntil

\* What post_readings turns down: acknowledged too, and said so.
Refused(batch) == {r \in Range(batch) : ~Admits(r)}

\* post_readings: one transaction.  The printer's row mirrors the reading
\* applied last, whatever its ts.
PostReadings(batch) ==
    LET admitted == {i \in DOMAIN batch : Admits(batch[i])}
    IN  /\ recorded' = [r \in Readings |->
                           recorded[r] + Cardinality({i \in admitted : batch[i] = r})]
        /\ IF admitted = {} THEN UNCHANGED <<lastSeen, status>>
           ELSE lastSeen' = batch[Max(admitted)].ts /\ status' = "ok"
        /\ heard' = now

\* mark_offline_printers; _sites_with_a_live_agent keeps it from speaking for
\* a site nobody reports from.
MarkOfflinePrinters ==
    /\ now - heard <= Grace
    /\ now - lastSeen > PrinterLimit
    /\ status # "offline"
    /\ status' = "offline"
    /\ UNCHANGED <<now, link, rowVars, agentVars, recorded, lastSeen, heard, historyVars>>

\* reassign_collectors hands a lapsed lease over; the new holder learns of it
\* from its next heartbeat.
Takeover(a) ==
    /\ a # collector
    /\ Row!MayGrant(collector, a, now)
    /\ Row!TakeLease(a, now, Ttl)
    /\ UNCHANGED <<now, link, agentVars, centralVars, historyVars>>

\* subnet_handback
Handback ==
    /\ collector \notin {None, Primary}
    /\ Row!ReleaseLease
    /\ UNCHANGED <<now, link, agentVars, centralVars, historyVars>>

-----------------------------------------------------------------------------
(* One cycle of an agent.                                                  *)

\* _try_heartbeat that was answered.
Heartbeat(a) ==
    LET held == Row!MayRenew(a, now)
    IN  /\ job[a].pc = "idle"
        /\ Up(a)
        /\ Row!RenewLease(a, now, Ttl)
        /\ until' = [until EXCEPT ![a] = IF held THEN now + Ttl ELSE 0]
        /\ entitled' = IF held THEN entitled \cup ({a} \X (now..now + Ttl - 1)) ELSE entitled
        /\ heard' = now
        /\ UNCHANGED <<now, link, cached, job, spool, recorded, lastSeen, status,
                       taken, givenUp, untold, repeats>>

\* The cycle's own drain_spool, once the heartbeat was answered.
StartDrain(a) ==
    /\ job[a].pc = "idle"
    /\ Up(a)
    /\ spool[a] # <<>>
    /\ job' = [job EXCEPT ![a].pc = "drain"]
    /\ UNCHANGED <<now, link, rowVars, until, cached, spool, centralVars, historyVars>>

\* _may_collect
MayPoll(a) == now < until[a]

\* poll_targets: the list is central's if it answers, else the cached one, less
\* what _withhold_unleased takes away.
StartPoll(a) ==
    LET listed == IF Up(a) THEN collector = a ELSE a \in cached
    IN  /\ job[a].pc = "idle"
        /\ cached' = IF listed THEN cached \cup {a} ELSE cached \ {a}
        /\ heard' = IF Up(a) THEN now ELSE heard
        /\ job' = [job EXCEPT ![a].pc = IF listed /\ MayPoll(a) THEN "poll" ELSE "drain"]
        /\ UNCHANGED <<now, link, rowVars, until, spool, recorded, lastSeen, status,
                       historyVars>>

\* poll_printer answered, and stamped ts; push_readings starts with the spool.
TakeReading(a) ==
    LET r == Reading(a, now)
    IN  /\ job[a].pc = "poll"
        /\ r \notin taken
        /\ taken' = taken \cup {r}
        /\ job' = [job EXCEPT ![a].pc = "drain", ![a].fresh = {r}]
        /\ UNCHANGED <<now, link, rowVars, until, cached, spool, centralVars,
                       entitled, givenUp, untold, repeats>>

\* The printer did not answer.
PollFails(a) ==
    /\ job[a].pc = "poll"
    /\ job' = [job EXCEPT ![a].pc = "drain"]
    /\ UNCHANGED <<now, link, rowVars, until, cached, spool, centralVars, historyVars>>

\* pending[sent:sent + batch_size]
Batch(a) ==
    LET left == Len(spool[a]) - job[a].sent
    IN  SubSeq(spool[a], job[a].sent + 1,
               job[a].sent + (IF left < BatchSize THEN left ELSE BatchSize))

\* One turn of drain's loop.
SendBatch(a) ==
    /\ job[a].pc = "drain"
    /\ Up(a)
    /\ job[a].sent < Len(spool[a])
    /\ PostReadings(Batch(a))
    /\ givenUp' = givenUp \cup Refused(Batch(a))
    /\ job' = [job EXCEPT ![a].sent = @ + Len(Batch(a))]
    /\ UNCHANGED <<now, link, rowVars, until, cached, spool, entitled, taken, untold, repeats>>

\* Central committed the batch, and its answer was lost.
SendBatchUnheard(a) ==
    /\ job[a].pc = "drain"
    /\ Up(a)
    /\ job[a].sent < Len(spool[a])
    /\ PostReadings(Batch(a))
    /\ givenUp' = givenUp \cup Refused(Batch(a))
    /\ job' = [job EXCEPT ![a].pc = "rewrite"]
    /\ repeats' = repeats + 1
    /\ UNCHANGED <<now, link, rowVars, until, cached, spool, entitled, taken, untold>>

\* Mutants: a broken drain leaves nothing; the last acknowledged reading is kept.
RemainderNone(a) == <<>>
RemainderOneMore(a) ==
    SubSeq(spool[a], IF job[a].sent = 0 THEN 1 ELSE job[a].sent, Len(spool[a]))

\* pending[sent:]
Remainder(a) == SubSeq(spool[a], job[a].sent + 1, Len(spool[a]))

\* Everything was acknowledged, or a send raised.
DrainOver(a) ==
    \/ job[a].pc = "drain" /\ (job[a].sent = Len(spool[a]) \/ ~Up(a))
    \/ job[a].pc = "rewrite"

\* drain's finally clause, on the way to this cycle's push, if any.
EndDrain(a) ==
    /\ DrainOver(a)
    /\ spool' = [spool EXCEPT ![a] = IF job[a].sent = 0 THEN @ ELSE Remainder(a)]
    /\ job' = [job EXCEPT ![a].sent = 0,
                          ![a].pc = IF job[a].fresh = {} THEN "idle" ELSE "push"]
    /\ UNCHANGED <<now, link, rowVars, until, cached, centralVars, historyVars>>

\* The rewrite itself failed: what was acknowledged is still in the file.
RewriteFails(a) ==
    /\ DrainOver(a)
    /\ job[a].sent > 0
    /\ job' = [job EXCEPT ![a].sent = 0,
                          ![a].pc = IF job[a].fresh = {} THEN "idle" ELSE "push"]
    /\ repeats' = repeats + 1
    /\ UNCHANGED <<now, link, rowVars, until, cached, spool, centralVars, entitled,
                   taken, givenUp, untold>>

\* _read_all finds the file unreadable and answers that there is nothing: this
\* replay is over before it starts.
DrainUnread(a) ==
    /\ job[a].pc = "drain"
    /\ job[a].sent = 0 /\ spool[a] # <<>>
    /\ job' = [job EXCEPT ![a].sent = 0,
                          ![a].pc = IF job[a].fresh = {} THEN "idle" ELSE "push"]
    /\ UNCHANGED <<now, link, rowVars, until, cached, spool, centralVars, historyVars>>

\* An answer with a good status and no JSON in it, whether central has the batch
\* (SendBatchUnheard) or never saw it: the ValueError is not what drain_spool
\* catches, and takes the cycle's own reading with it.
DrainGarbled(a) ==
    /\ \/ job[a].pc = "drain" /\ job[a].sent < Len(spool[a])
       \/ job[a].pc = "rewrite"
    /\ job' = [job EXCEPT ![a].pc = "rewrite", ![a].fresh = {}]
    /\ givenUp' = givenUp \cup job[a].fresh
    /\ untold' = untold \cup job[a].fresh
    /\ UNCHANGED <<now, link, rowVars, until, cached, spool, centralVars, entitled,
                   taken, repeats>>

\* The push of the cycle's own readings.
Push(a) ==
    /\ job[a].pc = "push"
    /\ Up(a)
    /\ PostReadings(SetToSeq(job[a].fresh))
    /\ givenUp' = givenUp \cup Refused(SetToSeq(job[a].fresh))
    /\ job' = [job EXCEPT ![a] = Idle]
    /\ UNCHANGED <<now, link, rowVars, until, cached, spool, entitled, taken, untold, repeats>>

\* Mutant: the cap is compared before the batch is added.
AppendedLate(s, batch) ==
    (IF Len(s) > SpoolMax THEN SubSeq(s, Len(s) - SpoolMax + 1, Len(s)) ELSE s) \o batch

\* append: past the cap the oldest go.
Appended(s, batch) ==
    LET all == s \o batch
    IN  IF Len(all) > SpoolMax THEN SubSeq(all, Len(all) - SpoolMax + 1, Len(all)) ELSE all

\* The push raised: the batch goes to the spool.
SpoolFresh(a) ==
    LET after == Appended(spool[a], SetToSeq(job[a].fresh))
    IN  /\ spool' = [spool EXCEPT ![a] = after]
        /\ job' = [job EXCEPT ![a] = Idle]

Overflow(a) ==
    (Range(spool[a]) \cup job[a].fresh) \ Range(Appended(spool[a], SetToSeq(job[a].fresh)))

PushFails(a) ==
    /\ job[a].pc = "push"
    /\ ~Up(a)
    /\ SpoolFresh(a)
    /\ givenUp' = givenUp \cup Overflow(a)
    /\ UNCHANGED <<now, link, rowVars, until, cached, centralVars, entitled, taken,
                   untold, repeats>>

\* Central committed the push, and its answer was lost.
PushUnheard(a) ==
    /\ job[a].pc = "push"
    /\ Up(a)
    /\ PostReadings(SetToSeq(job[a].fresh))
    /\ givenUp' = givenUp \cup Refused(SetToSeq(job[a].fresh)) \cup Overflow(a)
    /\ SpoolFresh(a)
    /\ repeats' = repeats + 1
    /\ UNCHANGED <<now, link, rowVars, until, cached, entitled, taken, untold>>

\* The data dir is full or read-only: this batch is lost, and it is said so.
AppendFails(a) ==
    /\ job[a].pc = "push"
    /\ ~Up(a)
    /\ job' = [job EXCEPT ![a] = Idle]
    /\ givenUp' = givenUp \cup job[a].fresh
    /\ UNCHANGED <<now, link, rowVars, until, cached, spool, centralVars, entitled,
                   taken, untold, repeats>>

\* _read_all finds the file unreadable and answers that there is nothing: append
\* replaces the backlog with this batch, and counts nothing as dropped.
AppendUnread(a) ==
    LET batch == SetToSeq(job[a].fresh)
        after == Appended(<<>>, batch)
        lost  == (Range(spool[a]) \cup job[a].fresh) \ Range(after)
    IN  /\ job[a].pc = "push"
        /\ \/ /\ ~Up(a)
              /\ givenUp' = givenUp \cup lost
              /\ UNCHANGED <<centralVars, repeats>>
           \/ /\ Up(a)
              /\ PostReadings(batch)
              /\ givenUp' = givenUp \cup Refused(batch) \cup lost
              /\ repeats' = repeats + 1
        /\ spool' = [spool EXCEPT ![a] = after]
        /\ job' = [job EXCEPT ![a] = Idle]
        /\ untold' = untold \cup Range(spool[a])
        /\ UNCHANGED <<now, link, rowVars, until, cached, entitled, taken>>

\* An answer with a good status and no JSON in it, from something else than
\* central: the ValueError is not what push_readings catches, and the batch is
\* not spooled.  (From central it ends as Push does.)
PushGarbled(a) ==
    /\ job[a].pc = "push"
    /\ job' = [job EXCEPT ![a] = Idle]
    /\ givenUp' = givenUp \cup job[a].fresh
    /\ untold' = untold \cup job[a].fresh
    /\ UNCHANGED <<now, link, rowVars, until, cached, spool, centralVars, entitled,
                   taken, repeats>>

\* A crash: what was in memory is gone, and acknowledged readings are still in
\* the file.
CrashAgent(a) ==
    /\ job' = [job EXCEPT ![a] = Idle]
    /\ until' = [until EXCEPT ![a] = 0]
    /\ cached' = cached \ {a}
    /\ givenUp' = givenUp \cup job[a].fresh
    /\ repeats' = repeats + 1
    /\ UNCHANGED <<now, link, rowVars, spool, centralVars, entitled, taken, untold>>

-----------------------------------------------------------------------------

ChangeLink(a) ==
    /\ link' = (link \ {a}) \cup ({a} \ link)
    /\ UNCHANGED <<now, rowVars, agentVars, centralVars, historyVars>>

Tick ==
    /\ now < MaxTime
    /\ now' = now + 1
    /\ UNCHANGED <<link, rowVars, agentVars, centralVars, historyVars>>

\* A poll is over before the instant it was admitted in is.
PromptTick == Tick /\ \A a \in Agents : job[a].pc # "poll"

CycleNext(a) ==
    \/ StartDrain(a) \/ StartPoll(a) \/ TakeReading(a) \/ PollFails(a)
    \/ SendBatch(a) \/ EndDrain(a) \/ Push(a) \/ PushFails(a)

FaultNext(a) ==
    \/ SendBatchUnheard(a) \/ PushUnheard(a) \/ AppendFails(a) \/ RewriteFails(a)
    \/ DrainUnread(a) \/ DrainGarbled(a) \/ AppendUnread(a) \/ PushGarbled(a)
    \/ CrashAgent(a) \/ ChangeLink(a)

CentralNext == MarkOfflinePrinters \/ Handback \/ \E a \in Agents : Takeover(a)

PromptNext ==
    \/ PromptTick \/ CentralNext
    \/ \E a \in Agents : Heartbeat(a) \/ CycleNext(a) \/ FaultNext(a)

\* run_forever: the loop goes on, whatever a cycle raised.
Fairness == \A a \in Agents : WF_vars(CycleNext(a))

PromptSpec == Init /\ [][PromptNext]_vars /\ Fairness

\* Also: a poll takes longer than what is left of the lease.
Spec == Init /\ [][PromptNext \/ Tick]_vars /\ Fairness

-----------------------------------------------------------------------------
(* Properties.                                                             *)

Recorded == {r \in Readings : recorded[r] > 0}

\* A reading taken is in memory, in the spool or in the table, or it was given
\* up: refused by central, past the spool's cap, with a full data dir or in a
\* crash; or, counted by nobody (untold), with a spool that cannot be read or an
\* answer that is not JSON (ReadingSpool: "a dropped cycle is a hole in the
\* append-only time-series that nothing ever back-fills").
Accounted ==
    \A r \in taken \ (Recorded \cup givenUp) :
        r \in job[r.agent].fresh \cup Range(spool[r.agent])

\* A reading enters the table again only because an acknowledgement was lost or
\* an agent died before acting on it.
RecordedOnce == \A r \in Readings : recorded[r] <= 1 + repeats

\* Nothing enters the series that was read while the subnet was another's,
\* through outages, cached target lists, replays and hand-backs (admits: a
\* replay "cannot interleave the two series").
OwnPeriod ==
    \A r \in Recorded : \A a \in Agents \ {r.agent} : <<a, r.ts>> \notin entitled

\* A reading taken is recorded once, in the period of the agent that took it,
\* or given up for one of Accounted's causes (ReadingSpool, admits).
ReadingsKept == Accounted /\ RecordedOnce /\ OwnPeriod

\* What was spooled in an outage is replayed once the outage is over, also by
\* an agent that may no longer poll.
Replayed ==
    \A a \in Agents : <>[](a \in link) => <>[](spool[a] = <<>>)

\* A printer is called offline only when its readings dried up
\* (mark_offline_printers).
OfflineMeansSilent ==
    [][status # "offline" /\ status' = "offline" =>
          \A r \in Recorded : now - r.ts > PrinterLimit]_vars
=============================================================================
