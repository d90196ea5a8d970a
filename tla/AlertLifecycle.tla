--------------------------- MODULE AlertLifecycle ---------------------------
(***************************************************************************)
(* The alerts of one printer: what the agent's readings leave in its row   *)
(* (central/services.py), the worker's pass that opens, folds, resolves    *)
(* and escalates alerts (central/worker/jobs.py: evaluate_alerts), the     *)
(* operators who acknowledge, resolve and file them, and the events each   *)
(* transition publishes (central/events/emit.py).                          *)
(*                                                                         *)
(* The pass is one transaction: EvaluateAlerts is its reads, its sends and *)
(* what it is going to write, CommitPass the write; operators and agents   *)
(* move in between.  There is one rule of each kind.  How a notification   *)
(* is delivered or withheld is NotificationDelivery's subject; here it is  *)
(* raised.                                                                 *)
(***************************************************************************)
EXTENDS Integers, Sequences, FiniteSets, SequencesExt, FiniteSetsExt

CONSTANTS
    Codes,          \* error codes the printer may report
    Operators,
    MaxErrorAlerts, \* alerts.max_error_alerts_per_printer
    RateCount,      \* threshold of the occurrence-rate rule
    RateFloor,      \* the count at which its recovery margin ends
    RateWindow,     \* its window_minutes
    AgentLimit,     \* threshold of the agent-offline rule
    PrinterLimit,   \* threshold of the printer-offline rule
    Grace,          \* alerts.offline_grace_seconds
    Cooldown,       \* alerts.renotify_cooldown_min; 0 = off
    EscalateAfter,  \* alerts.escalate_after_minutes; 0 = off
    MaxTime         \* bound: the clock stops here

\* Keys of the rules that are not about an error code, and of a person's report.
OtherKeys == {"supply", "rate", "agent", "printer"}

ASSUME AlertAssumption ==
    /\ Codes \cap (OtherKeys \cup {"manual"}) = {}
    /\ IsFiniteSet(Codes)
    /\ MaxErrorAlerts \in Nat \ {0}
    /\ RateCount \in Nat \ {0} /\ RateFloor \in 0..RateCount - 1
    /\ RateWindow \in Nat \ {0}
    /\ AgentLimit \in Nat /\ PrinterLimit \in Nat /\ Grace \in Nat
    /\ Cooldown \in Nat /\ EscalateAfter \in Nat
    /\ MaxTime \in Nat \ {0}

VARIABLES
    now,
    rules,          \* the kinds of rule that are enabled
    level,          \* supplies.level_pct of the cartridge, against the threshold
    events,         \* printer_events: code, ts, and whether unresolved
    lastSeen,       \* printers.last_seen
    lastBeat,       \* agents.last_heartbeat
    alerts,         \* the alerts table
    outbox,         \* idempotency keys in outbound_events
    filing,         \* operators whose report found no live issue
    job,            \* the pass that evaluate_alerts is about to commit
    lastTold        \* history: when an alert was last notified about; 0 = never

fleetVars == <<level, events, lastSeen, lastBeat>>
vars == <<now, rules, fleetVars, alerts, outbox, filing, job, lastTold>>

RuleKinds == OtherKeys \cup {"error"}
RuleKeys  == OtherKeys \cup Codes
Keys      == RuleKeys \cup {"manual"}

Kind(k) == IF k \in Codes THEN "error" ELSE k

\* low: at most the threshold; band: less than the margin above it.
Levels == {"low", "band", "ok", "unknown"}

LiveStates == {"open", "acknowledged"}

Event == [code : Codes, ts : Nat, open : BOOLEAN]

Alert == [key : Keys, state : LiveStates \cup {"resolved"}, flap : Nat,
          resolvedAt : Nat, notifiedAt : Nat, level : Nat]

Jobs == [pc : {"idle", "commit"}, at : Nat, resolving : SUBSET Nat,
         reviving : SUBSET Nat, opening : SUBSET RuleKeys, escalating : SUBSET Nat]

Idle == [pc |-> "idle", at |-> 0, resolving |-> {}, reviving |-> {},
         opening |-> {}, escalating |-> {}]

TypeOK ==
    /\ now \in Nat \ {0}
    /\ rules \subseteq RuleKinds
    /\ level \in Levels
    /\ events \in Seq(Event)
    /\ \A i \in DOMAIN events : events[i].ts \in 1..now
    /\ lastSeen \in 1..now /\ lastBeat \in 1..now
    /\ alerts \in Seq(Alert)
    /\ \A i \in DOMAIN alerts :
          /\ alerts[i].resolvedAt \in 0..now /\ alerts[i].notifiedAt \in 1..now
          /\ alerts[i].state = "resolved" => alerts[i].resolvedAt # 0
    /\ outbox \subseteq {"opened", "resolved"} \X (DOMAIN alerts) \X Nat
    /\ filing \subseteq Operators
    /\ job \in Jobs /\ job.at \in 0..now
    /\ job.resolving \cup job.reviving \cup job.escalating \subseteq DOMAIN alerts
    /\ lastTold \in Seq(Nat) /\ Len(lastTold) = Len(alerts)

Init ==
    /\ now = 1
    /\ rules \in SUBSET RuleKinds
    /\ level = "ok"
    /\ events = <<>>
    /\ lastSeen = now /\ lastBeat = now
    /\ alerts = <<>> /\ outbox = {}
    /\ filing = {}
    /\ job = Idle
    /\ lastTold = <<>>

-----------------------------------------------------------------------------
(* The agent.                                                              *)

\* _reconcile_events: a standing condition is refreshed in place, one that is
\* gone is resolved, a new one is added.
Reconciled(codes) ==
    LET standing == {e.code : e \in {f \in Range(events) : f.open}}
        kept(e)  == IF ~e.open THEN e
                    ELSE IF e.code \in codes THEN [e EXCEPT !.ts = now]
                    ELSE [e EXCEPT !.open = FALSE]
    IN  [i \in DOMAIN events |-> kept(events[i])] \o
        [i \in 1..Cardinality(codes \ standing) |->
            [code |-> SetToSeq(codes \ standing)[i], ts |-> now, open |-> TRUE]]

\* apply_reading, from an agent that is thereby heard of.
ApplyReading(l, codes) ==
    /\ level' = l
    /\ events' = Reconciled(codes)
    /\ lastSeen' = now
    /\ lastBeat' = now
    /\ UNCHANGED <<now, rules, alerts, outbox, filing, job, lastTold>>

\* The agent is alive and does not reach the printer.
Heartbeat ==
    /\ lastBeat' = now
    /\ UNCHANGED <<now, rules, level, events, lastSeen, alerts, outbox, filing,
                   job, lastTold>>

-----------------------------------------------------------------------------
(* What the rules make of it.                                              *)

Unresolved == {e.code : e \in {f \in Range(events) : f.open}}

\* _occurrence_counts
Occurrences == Cardinality({i \in DOMAIN events : events[i].ts >= now - RateWindow})

\* _sites_with_a_live_agent, after mark_offline_agents of the same cycle.
Covered == now - lastBeat <= Grace

\* Mutant: an acknowledged alert is not found, and opens again.
LiveUnacknowledged(k) == {i \in DOMAIN alerts : alerts[i].key = k /\ alerts[i].state = "open"}

\* _find_open_alert
Live(k) == {i \in DOMAIN alerts : alerts[i].key = k /\ alerts[i].state \in LiveStates}

\* The condition opens an alert.  shown are the error codes under the cap.
Firing(k, shown) ==
    CASE k = "supply"  -> level = "low"
      [] k = "rate"    -> Occurrences >= RateCount
      [] k = "agent"   -> now - lastBeat >= AgentLimit
      [] k = "printer" -> Covered /\ now - lastSeen >= PrinterLimit
      [] OTHER         -> k \in shown

\* The condition holds a live alert open without opening one: the deadband and
\* the recovery margin.
Holding(k) ==
    CASE k = "supply" -> level = "band"
      [] k = "rate"   -> Occurrences > RateFloor
      [] OTHER        -> FALSE

\* active_keys
Active(k, shown) ==
    /\ Kind(k) \in rules
    /\ Firing(k, shown) \/ (Holding(k) /\ Live(k) # {})

\* Mutant: the newest event only.
ShownNewest == {{c} : c \in Unresolved} \cup {S \in {{}} : Unresolved = {}}

\* The error codes that get an alert.  ordered[:cap] sorts by ts, and one
\* reading stamps every standing code alike: any selection may come out.
Shown == kSubset(IF Cardinality(Unresolved) < MaxErrorAlerts
                 THEN Cardinality(Unresolved) ELSE MaxErrorAlerts, Unresolved)

\* _flap_cooldown_minutes: a rate rule folds only within its own window.
CooldownOf(k) == IF k = "rate" /\ RateWindow < Cooldown THEN RateWindow ELSE Cooldown

ResolvedAlerts(k) == {i \in DOMAIN alerts : alerts[i].key = k /\ alerts[i].state = "resolved"}

\* Mutant: the query has no ORDER BY.
FirstResolved(k) == Min(ResolvedAlerts(k))

\* The alert _revive_flapping_alert looks at.
LastResolved(k) ==
    CHOOSE i \in ResolvedAlerts(k) :
        \A j \in ResolvedAlerts(k) : alerts[j].resolvedAt <= alerts[i].resolvedAt

Revivable(k) ==
    /\ CooldownOf(k) > 0
    /\ ResolvedAlerts(k) # {}
    /\ alerts[LastResolved(k)].resolvedAt >= now - CooldownOf(k)

-----------------------------------------------------------------------------
(* The pass.                                                               *)

\* alert_key
AlertKey(kind, i, flap) == <<kind, i, flap>>

\* Mutant: an acknowledged alert is left to the operator.
StaleUnacknowledged(shown) ==
    {i \in DOMAIN alerts : /\ alerts[i].state = "open"
                           /\ alerts[i].key # "manual"
                           /\ ~Active(alerts[i].key, shown)}

\* _resolve_stale: whatever is live and no longer active, but never what a
\* person reported.
Stale(shown) ==
    {i \in DOMAIN alerts : /\ alerts[i].state \in LiveStates
                           /\ alerts[i].key # "manual"
                           /\ ~Active(alerts[i].key, shown)}

\* evaluate_alerts up to its commit; _escalate_alerts sees what this pass has
\* flushed, so what it resolved is left alone and what it revived is not.
EvaluateAlerts ==
    \E shown \in Shown :
        LET fired  == {k \in RuleKeys : /\ Kind(k) \in rules /\ Firing(k, shown)
                                        /\ Live(k) = {}}
            folded == {k \in fired : Revivable(k)}
            back   == {LastResolved(k) : k \in folded}
            live   == ({i \in DOMAIN alerts : alerts[i].state \in LiveStates}
                          \ Stale(shown)) \cup back
            again  == {i \in live : EscalateAfter > 0 /\
                                    now - alerts[i].notifiedAt >= EscalateAfter}
        IN  /\ job.pc = "idle"
            /\ job' = [pc |-> "commit", at |-> now, resolving |-> Stale(shown),
                       reviving |-> back, opening |-> fired \ folded,
                       escalating |-> again]
            /\ lastTold' = [i \in DOMAIN alerts |->
                               IF i \in again THEN now ELSE lastTold[i]]
            /\ UNCHANGED <<now, rules, fleetVars, alerts, outbox, filing>>

NewAlert(k, at) == [key |-> k, state |-> "open", flap |-> 0, resolvedAt |-> 0,
                    notifiedAt |-> at, level |-> 0]

\* The columns the pass changed; the others keep what operators wrote
\* meanwhile.
Written(i) ==
    LET a == alerts[i]
        b == IF i \in job.resolving
             THEN [a EXCEPT !.state = "resolved", !.resolvedAt = job.at]
             ELSE IF i \in job.reviving
             THEN [a EXCEPT !.state = "open", !.resolvedAt = 0, !.flap = @ + 1]
             ELSE a
    IN  IF i \in job.escalating
        THEN [b EXCEPT !.notifiedAt = job.at, !.level = @ + 1] ELSE b

\* The commit.  An event already in the table is not emitted again.
CommitPass ==
    LET new == SetToSeq(job.opening)
    IN  /\ job.pc = "commit"
        /\ alerts' = [i \in DOMAIN alerts |-> Written(i)] \o
                     [n \in DOMAIN new |-> NewAlert(new[n], job.at)]
        /\ outbox' = outbox
              \cup {AlertKey("resolved", i, alerts[i].flap) : i \in job.resolving}
              \cup {AlertKey("opened", i, alerts[i].flap + 1) : i \in job.reviving}
              \cup {AlertKey("opened", Len(alerts) + n, 0) : n \in DOMAIN new}
        /\ lastTold' = lastTold \o [n \in 1..(Len(alerts') - Len(lastTold)) |-> job.at]
        /\ job' = Idle
        /\ UNCHANGED <<now, rules, fleetVars, filing>>

\* The job raises or the worker dies: nothing is written, and the messages
\* about it have left.
PassFails ==
    /\ job.pc = "commit"
    /\ job' = Idle
    /\ lastTold' = [i \in DOMAIN alerts |-> alerts[i].notifiedAt]
    /\ UNCHANGED <<now, rules, fleetVars, alerts, outbox, filing>>

-----------------------------------------------------------------------------
(* Operators.  A request that writes a row the pass has already flushed    *)
(* waits for its commit, so it is ordered after it.                        *)

Locked(i) == i \in job.resolving \cup job.reviving

\* alert_action "ack", from a page that shows the alert as it is.
Acknowledge(i) ==
    /\ alerts[i].state \in LiveStates
    /\ ~Locked(i)
    /\ alerts' = [alerts EXCEPT ![i].state = "acknowledged"]
    /\ UNCHANGED <<now, rules, fleetVars, outbox, filing, job, lastTold>>

\* The same click on a page rendered before the alert was resolved: the handler
\* assigns the state without reading it.
AcknowledgeStale(i) ==
    /\ alerts[i].state = "resolved"
    /\ ~Locked(i)
    /\ alerts' = [alerts EXCEPT ![i].state = "acknowledged"]
    /\ UNCHANGED <<now, rules, fleetVars, outbox, filing, job, lastTold>>

\* Mutant: resolving by hand leaves resolved_at unset.
ResolveUnstamped(i) ==
    /\ ~Locked(i)
    /\ alerts' = [alerts EXCEPT ![i].state = "resolved"]
    /\ outbox' = outbox \cup {AlertKey("resolved", i, alerts[i].flap)}
    /\ UNCHANGED <<now, rules, fleetVars, filing, job, lastTold>>

\* alert_action "resolve", whatever the state.
Resolve(i) ==
    /\ ~Locked(i)
    /\ alerts' = [alerts EXCEPT ![i].state = "resolved", ![i].resolvedAt = now]
    /\ outbox' = outbox \cup {AlertKey("resolved", i, alerts[i].flap)}
    /\ UNCHANGED <<now, rules, fleetVars, filing, job, lastTold>>

\* create_issue: the look for a live issue of the same occurrence ...
CheckIssue(o) ==
    /\ o \notin filing
    /\ Live("manual") = {}
    /\ filing' = filing \cup {o}
    /\ UNCHANGED <<now, rules, fleetVars, alerts, outbox, job, lastTold>>

\* ... and, after the notification has been sent, the commit.
FileIssue(o) ==
    /\ o \in filing
    /\ filing' = filing \ {o}
    /\ alerts' = Append(alerts, NewAlert("manual", now))
    /\ lastTold' = Append(lastTold, now)
    /\ outbox' = outbox \cup {AlertKey("opened", Len(alerts) + 1, 0)}
    /\ UNCHANGED <<now, rules, fleetVars, job>>

\* A rule is enabled, disabled or deleted.
ToggleRule(kind) ==
    /\ rules' = (rules \ {kind}) \cup ({kind} \ rules)
    /\ UNCHANGED <<now, fleetVars, alerts, outbox, filing, job, lastTold>>

Tick ==
    /\ now < MaxTime
    /\ now' = now + 1
    /\ UNCHANGED <<rules, fleetVars, alerts, outbox, filing, job, lastTold>>

AgentNext == Heartbeat \/ \E l \in Levels, codes \in SUBSET Codes : ApplyReading(l, codes)

OperatorNext ==
    \/ \E i \in DOMAIN alerts : Acknowledge(i) \/ Resolve(i)
    \/ \E o \in Operators : CheckIssue(o) \/ FileIssue(o)
    \/ \E kind \in RuleKinds : ToggleRule(kind)

StaleNext == \E i \in DOMAIN alerts : AcknowledgeStale(i)

AlertNext ==
    \/ Tick \/ AgentNext \/ EvaluateAlerts \/ CommitPass \/ PassFails
    \/ OperatorNext

Next == AlertNext \/ StaleNext

\* run_cycle runs the job again and again; a pass may fail, not every pass does.
Fairness == WF_vars(EvaluateAlerts) /\ SF_vars(CommitPass)

\* Operators act on what the alert is.
AlertSpec == Init /\ [][AlertNext]_vars /\ Fairness

\* Also: on a page that shows it live after it was resolved.
Spec == Init /\ [][Next]_vars /\ Fairness

-----------------------------------------------------------------------------
(* Properties.                                                             *)

\* One live alert per dedupe key ("so the worker doesn't re-open the same
\* condition every cycle"), whoever acknowledges or resolves it while a pass is
\* under way.
OneIncident ==
    \A i, j \in DOMAIN alerts :
        /\ alerts[i].key = alerts[j].key /\ alerts[i].key \in RuleKeys
        /\ "resolved" \notin {alerts[i].state, alerts[j].state}
        => i = j

\* What subscribers were told agrees with every alert: a live one was reported
\* opened and not yet resolved, a resolved one resolved (alert_key: a consumer
\* must not be left "holding resolved for a fault that is live").
SubscribersAgree ==
    \A i \in DOMAIN alerts :
        LET told(kind) == AlertKey(kind, i, alerts[i].flap) \in outbox
        IN  /\ told("opened")
            /\ told("resolved") <=> alerts[i].state = "resolved"

\* One live alert per condition, and subscribers hear of it what it is
\* (_find_open_alert, alert_key).
OneStory == OneIncident /\ SubscribersAgree

\* The condition behind an alert still holds, the margins included.
StillWrong(k) ==
    CASE k = "manual"  -> TRUE
      [] k = "supply"  -> "supply" \in rules /\ level \in {"low", "band"}
      [] k = "rate"    -> "rate" \in rules /\ Occurrences > RateFloor
      [] k = "agent"   -> "agent" \in rules /\ now - lastBeat >= AgentLimit
      [] k = "printer" -> "printer" \in rules /\ Covered /\ now - lastSeen >= PrinterLimit
      [] OTHER         -> "error" \in rules /\ k \in Unresolved

\* The worker never closes an alert whose condition still holds
\* (test_alert_noise_and_honesty: "the jam is still jammed -- must not
\* resolve"), unless more error codes stand than the cap lets through: then it
\* closes those that drop out of the selection.
NotResolvedWhileWrong ==
    [][job.pc = "idle" /\ job'.pc = "commit" =>
          \A i \in job'.resolving :
              /\ alerts[i].key \notin Codes => ~StillWrong(alerts[i].key)
              /\ Cardinality(Unresolved) <= MaxErrorAlerts => ~StillWrong(alerts[i].key)]_vars

\* A condition that comes back within the cooldown is the same incident: no new
\* alert, and so no new notification, whatever resolved the last one.
FoldedWithinCooldown ==
    [][job.pc = "idle" /\ job'.pc = "commit" =>
          \A k \in job'.opening : CooldownOf(k) > 0 =>
              \A i \in ResolvedAlerts(k) : alerts[i].resolvedAt < now - CooldownOf(k)]_vars

\* An alert is not notified about again before the escalation window is over,
\* through flaps, acknowledgements and operators' edits; a pass that failed
\* after sending is forgotten.
EscalationsSpaced ==
    [][job.pc = "idle" /\ job'.pc = "commit" =>
          \A i \in job'.escalating : now - lastTold[i] >= EscalateAfter]_vars

\* People are told once an incident: what comes back within the cooldown is
\* folded, and escalations keep their distance (_revive_flapping_alert,
\* _escalate_alerts).
Paced == FoldedWithinCooldown /\ EscalationsSpaced

\* An alert whose condition is gone for good is resolved for good, acknowledged
\* or not (_resolve_stale: otherwise "it's stuck open forever").
Settles ==
    \A k \in RuleKeys : <>[](~StillWrong(k)) => <>[](Live(k) = {})
=============================================================================
