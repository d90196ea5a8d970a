# Printer Nanny: specifications and proofs

TLA+ modules for the parts of Printer Nanny in which an order of events nobody
tested can hurt: who sweeps a subnet, how a reading reaches the table and what
is made of it there, which notification and which event is owed to whom, when an
alert opens, folds, escalates and closes, what reaches an agent or a workstation
of what central decided, and which device, person and session is whose.  Source
paths are relative to the repository.  `PROJECT.json` maps every definition to
the lines it models.

* [The system](#the-system) - inventory of components
* [Modules](#modules) - how state and actions correspond to the code
* [Runs](#runs) - what is checked, bounds, fairness
* [Findings](#findings) - where the code disagrees with its own docs and tests
* [Proofs](#proofs)
* [Plan](#plan) and [what is not modelled](#not-modelled)

## The system

*Central* (`central/`, FastAPI over Postgres) serves a dashboard, an ingest API
for agents, and one worker process that runs a fixed list of jobs every cycle
under an advisory leader lock.  *Agents* (`agent/printer_nanny_agent/`) sit at
a client's site, poll printers over SNMP and IPP, and only ever call central;
central never calls them.  *Workstation agents* install printer queues.

Everything they share is a database row.  Three clocks matter: central's wall
clock (lease expiries, due times, cooldowns), each agent's monotonic clock
(lease deadlines) and each agent's wall clock (reading timestamps).

| component | state | operations | hard behaviour | what makes it correct |
|---|---|---|---|---|
| collector lease (`collector.py`) | `subnets.collector_*`, the agent's `CollectorLeases` | renew by heartbeat, grant by the worker, release, seed, hand-back, `admits` | late or lost replies, stale compare-and-swap, edits during a lease, restarts | one sweeper per subnet; a lapsed lease is taken up again |
| notification delivery (`channels/delivery.py`) | `notification_deliveries`, `alerts.last_notified_at` | dispatch, retry sweep, owed fan-out, hold and digest | one commit after many sends, crash in between, batch limit, channels switched under the queue | no live alert is without a row that answers for it; a success is not sent twice |
| event bus (`events/`) | `outbound_events`, `event_deliveries`, `event_subscriptions` | emit, sweep, prune, subscription edits | re-scoping and deletion between reads and commit | no event crosses tenants; queued events outlive retention |
| alert lifecycle (`worker/jobs.py`) | `alerts`, `alert_rules`, printer state | open, fold, escalate, resolve, acknowledge, file by hand | operators act while the pass is uncommitted; flapping; capped selection | one live alert per condition; subscribers agree with the table; everything settles |
| agent loop (`runner.py`, `spool.py`) | spool file, lease deadlines, effective config | poll, discover, push, spool, replay | crash between append, replay and truncate; a poll outlasting its lease | readings neither lost nor replayed out of their period |
| ingest API (`api/ingest.py`, `services.py`) | printers, supplies, events, readings | `apply_reading`, discovered, config, feeds | duplicates, out-of-order batches, two agents for one printer | a reading enters once unless an acknowledgement was lost; state follows the newest reading (finding `readings_order`) |
| commands, remote requests (`remote.py`) | `commands`, `remote_requests`, a printer's write capability | check, queue, pull, carry out, answer, expire | marked sent on pull, lost response, late answer after expiry, operators pressing at once | a request is carried out at most once, a write only where it was proven, an answer settles |
| worker cycle, leader lock, health (`worker/run.py`) | `worker_job_runs`, the starting marker, advisory lock | wait for the schema, run jobs, stamp, release | a job raises; the lock's connection drops; a worker dies while it waits | a dead or failing worker does not read as healthy |
| enrollment and claim tokens (`services.py`, `api/enrollment.py`) | tokens, agent keys, the install's file | mint, redeem, persist, rotate, delete | two redemptions of one code, lost answers | a code makes one agent, an agent is one install |
| agent updater (`updater.py`) | installed and running version, result marker | queue, preflight, pip, record, restart, report | a crash at each of those steps | what central is told went well is what runs |
| definitions (`device_definitions.py`) | rows, feed, cache | edit, serve, sign, apply | key rotation, withdrawal, an agent older than central | the agent applies the feed and nothing else |
| workstations (`workstation*.py`, `people.py`) | machines, keys, queues, assignments | enroll, adopt, check in, assign, reconcile | namesakes, lost state files, a poll cut short, sleeping printers | a PC in use keeps its record; queues converge to what is assigned |
| supplies: cycles, yield, reorder, orders, stock | cycles, expectations, orders, uses, notices | fold, judge, recommend, order, assign, import | late readings, resets, a scan against an assignment, mail listed late | pages are not invented, stock is overdrawn by one race only, no mail is missed |
| maintenance, forecasts | schedules, records, estimates, their alerts | due check, service, fit | dates and pages combined; a part replaced between polls | a service clears its alert and the next one comes |
| retention, billing, reports | rollups, watermark, rate cards, report runs | roll up, delete, difference meters, price, claim, send | stragglers, resets, partial meters, racing admins and workers | what is deleted was counted; pages are billed once; one report a month |
| identity: sessions, throttle, SSO, SCIM, directory | users, epochs, failures, synced people | sign in, rotate, demote, provision, sync | overlapping handlers, partial listings, stale snapshots | a session is worth what the account is now; nobody is dropped unseen |
| fleet (`services.py`, `api/ingest.py`, `dashboard/manage.py`) | clients, sites, subnets, printers | discover, push, approve, move, delete | devices that change address, overlapping networks, stale pages | a printer's client is its site's; a row is one device's |
| suppression windows (`suppression.py`) | windows | create, toggle, evaluate | DST, midnight, weekday masks, chained windows | held exactly inside the hours, to their end and no longer |

Interactions.  A heartbeat renews leases (`ingest.py`); the worker's
`mark_offline_agents` and `reassign_collectors` move them.  A reading
changes printer state that `evaluate_alerts` reads; its alerts are dispatched
through the channels (rows of notification delivery) and emitted on the event
bus in the same transaction; `retry_due`, `flush_deferred` and `deliver_due`
work the two queues off in later jobs of the cycle.  Operators write to all of
these tables at any time.

Further components (drivers and installers, settings,
dashboard pages, migrations) are listed in `PROJECT.json` with the reason they
stay outside.

## Modules

| module | what it is |
|---|---|
| `CollectorLease` | the lease protocol of one subnet: agents, network, heartbeat handler, worker, operators |
| `SubnetToken` | its abstract specification: a token that one agent has, and that is free between two agents |
| `MCCollectorLease` | `CollectorLease` with a budget for edits and faults |
| `CollectorFailover` | `CollectorLease` with one agent dying for good, and fairness |
| `CollectorLeaseProofs` | theorems about `CollectorLease` |
| `NotificationDelivery`, `MCNotificationDelivery` | the notification queue; with a budget |
| `EventDelivery`, `MCEventDelivery` | the event queue; with a budget |
| `DurableOutbox` | what both queues promise about committed rows |
| `NotificationDeliveryProofs`, `EventDeliveryProofs` | theorems about the two queues |
| `AlertLifecycle`, `MCAlertLifecycle` | the alerts of one printer; with a budget |
| `AlertLifecycleProofs` | theorems about the alerts |
| `ReadingCollection`, `MCReadingCollection` | the readings of one leased printer, from poll to table, over `CollectorLease`'s row; with a budget |
| `ReadingCollectionProofs` | theorems about the readings' collection |
| `ReadingRetention` | rollups and deletion of one fleet's readings |
| `SupplyCycles`, `SupplyYield` | cartridge cycles of one printer; what the cycles of a model say about each printer |
| `Billing`, `ScheduledReports` | invoices of one client from one printer's meters; the monthly report |
| `SupplyForecast`, `SupplyOrders` | from a level to an order; orders, stock and the shipping mailbox of one site |
| `MaintenanceDesk` | schedules, services and their alerts |
| `SuppressionCalendar` | quiet hours and maintenance windows |
| `WorkerHealth` | the worker's cycle, lock and stamps, and what the deployment says of it |
| `MCPrinterData`, `PrinterDataProofs` | those ten together; theorems about them |
| `AgentUpdate`, `DefinitionFeed` | an agent's version; the definitions it applies |
| `MachineEnrollment`, `QueueProvisioning` | which record a PC is; the queues on it |
| `MCDevices`, `DeviceProofs` | those four together; theorems about them |
| `OperatorAccounts`, `DirectorySync` | accounts, sessions and the throttle; a customer's directory |
| `PrinterAssignments` | who gets which printer |
| `RemoteRequests`, `AgentEnrollment` | commands and remote hands; claim codes and agent keys |
| `FleetRegistry` | which printer is whose |
| `MCAdministration`, `AdministrationProofs` | those six together; theorems about them |

Definitions keep the source's names in TLA+ spelling (`renew_lease` is
`RenewLease`, `_fan_out_owed` is `KeepOwed` and `FanOut`).  SQL NULL in a time
column is 0 and time starts at 1.  A definition whose comment begins with
"Mutant" is a plausible bug of the definition that follows; nothing uses it,
and replacing the one by the other must break the property named in
`PROJECT.json`.

### CollectorLease

Subnets do not interact (each UPDATE names one row), so the state is one row
(`primary`, `standby`, `collector`, `expires`, `prevAgent`, `prevUntil`), the
agents' heartbeat columns, the setting `leaseSeconds`, what the worker has
judged but not yet written (`worker`), each agent's deadline (`until`) and the
messages in flight (`net`).  `waiting` is the anchor an agent samples before a
heartbeat; the deadline it stores is anchor + ttl.

A heartbeat request may arrive late or never, its reply only while the agent
still has the connection open.  `HandleHeartbeat` is touch, renew and answer.
A worker cycle is `MarkOfflineAgents`, `ScanSubnet` (the reads) and
`GrantLease` (the compare-and-swap on what was read), with heartbeats and edits
between them, and may fail at any point.  Operators re-assign the primary,
replace, add or clear the standby, hand back, delete agents and save the lease
length.

Four specifications differ in what the environment may do:

* `SteadySpec`: the subnet stays redundant, the lease is only lengthened, and a
  heartbeat's UPDATE runs at the instant its handler read the clock;
* `ToggleSpec`: redundancy is also switched off and on;
* `ShortenSpec`: the lease is also shortened;
* `StallSpec`: handlers also stall between clock and UPDATE.

The exclusion holds of `SteadySpec` and of none of the others.  That is the
real premise of the protocol, and the models make it explicit.  `Spec` is all
of it together and is what type correctness is proved of.

One assumption stands behind all four: monotonic clocks on agents and central's
clock run at the same rate.  Nothing is assumed about what they read.

### NotificationDelivery

`rows` is the table as the worker's session sees it, `saved` as committed.
`OpenAlert` and `Escalate` dispatch (`Dispatched`: a row per channel, or one owed
row) or, inside a window, hold (`RecordWithheld`).  `StartRetry` is `retry_due` up to
its two queries, `CloseResolved`, `Resend`, `KeepOwed` and `FanOut` treat one row of
the batch, `Commit` writes them all.  `FlushDeferred` is the digest.  `Crash` and
`DispatchCrashes` lose the session but not what was sent.  Sessions do not autoflush,
so `DeliveredAfter` reads `saved`; and so `FanOutRaises`: an owed row that fans out
to several channels, all of them mute, has its siblings deleted which were only
added, which SQLAlchemy refuses, and the sweep is rolled back (`RollBack`) with all
it did.  `KeepOwed` is the case of one mute channel or none, `FanOut` that of several
of which one is not mute.

A channel's `health` is `up`, `down`, or `mute` (dry run or severity gate: ok but not
sent).  `pages`, `raised`, `crashes` (of the worker, and sweeps that raised) and
`passedOver` are history variables that no guard reads.  `NoDoublePage` bounds the
pages of an alert on a channel by the times it was raised, plus, for each crash, one
for every row the alert may then have had: a crash loses all that one sweep sent, and
a batch may hold several rows of one alert.  `NoStarvation` allows a row one sweep
for each that was rolled back and does not bound how many those are: while an owed
row's targets stay mute, every sweep that reaches it is.  `DeliverySpec` leaves out
the flap that revives an alert whose first notification was closed; `NothingLost`
holds of it.

### EventDelivery

`emit` inserts an event and its delivery rows (`Emit`); `deliver_due` fetches a
batch (`StartSweep`), treats each row (`LeaveQueued`, `Refuse`, `Unwanted`,
`Send`) and prunes and commits (`CommitSweep`).  The ORM keeps a dirty
subscription from being re-read (`job.cached`), and a row deleted under the
sweep makes its commit fail; `RollBack` is that and the crash.  An event key is
emitted once per behaviour, which bounds the model: re-emission after a prune
is a new key to every reader.  `job.scopes` collects the scopes a subscription
has had since the sweep began: a post made by a sweep may honour any of them,
and none that was given up before.

### AlertLifecycle

One printer with one rule of each kind: supply level, occurrence rate, error code,
agent offline, printer offline.  `EvaluateAlerts` computes what a pass will resolve
(`Stale`), fold back (`Revivable`), open and escalate; `CommitPass` writes only the
columns the pass changed, so an operator's acknowledgement in between survives, and
`PassFails` writes nothing.  Which error codes get an alert when there are more than
the cap is any selection of that size, because one reading stamps all of them alike
and the sort has no second key; that a standing code beyond the cap may so be
resolved is the exception `NotResolvedWhileWrong` states.  `AlertSpec` leaves out the
acknowledgement from an out-of-date page, `Spec` has it.  `ApplyReading` is the part
of `apply_reading` that alerts read.  A report by hand is two steps (`CheckIssue`,
`FileIssue`).  Suppression and delivery are `NotificationDelivery`'s subject and are
left out here.

### ReadingCollection

Two agents and one printer of their subnet.  `job` is where an agent is in its
cycle: a heartbeat, the drain that follows it, a poll, the drain and the push
that `push_readings` makes of it.  `spool` is the file; `cached` says whether
the `TargetCache` lists the printer; `until` is the lease deadline.  Central is
`recorded` (rows per reading), the printer's `last_seen` and `status`, and the
lease row.  The row is changed by the operators of `CollectorLease`
(`Row!RenewLease`, `Row!TakeLease`, `Row!ReleaseLease`, through an `INSTANCE`),
so that the two modules cannot drift apart; a heartbeat is one step here, as
what may happen inside one is `CollectorLease`'s subject.

`SendBatchUnheard` and `PushUnheard` are posts that central committed and whose
answer was lost; `RewriteFails` and `AppendFails` are a data directory that is full;
`CrashAgent` loses what is in memory and keeps the file.  A spool that cannot be read
counts as empty: a replay does nothing (`DrainUnread`), and a push that fails puts
its batch in the place of the backlog (`AppendUnread`).  An answer with a good status
that is not JSON raises what neither `drain_spool` nor `push_readings` catches: the
cycle ends, and the batch in memory with it (`DrainGarbled`, `PushGarbled`).
Readings given up are collected in `givenUp`: refused by `admits` (central answers
with the list), dropped at the spool's cap (which a post whose answer was lost can
reach too: its readings go back to the spool), not writable, in the memory of an
agent that died, or lost by one of these last three.  What no log line or count of
the agent includes is in `untold` besides.  `entitled` records for which instants an
agent was granted the subnet.

`PromptSpec` lets a poll end in the instant it was admitted in; `Spec` lets it
last.  `_withhold_unleased` samples the clock once before the poll, so in `Spec`
a reading may be stamped after the deadline, and if the agent holds the lease
again when it pushes, the reading enters the table although the other agent was
granted that instant.  `OwnPeriod` is checked and proved of `PromptSpec`; that
readings are accounted for and recorded once needs no such premise and is proved
of `Spec`.

### What becomes of readings

`ReadingRetention` splits a pass of `roll_up_readings` where other transactions
can commit: it picks a printer's day, reads its rows, then writes the rollup
and deletes in one transaction; readings arrive in between, with any date, and
the setting that says whether to delete is switched on and off (`SwitchDeletion`).
`deleted` is history, and `mixed` the printer-days whose pruned rollup took in
readings that stayed.
`SupplyCycles` has the device beside central: levels run down and are replaced,
the meter counts and resets, polls reach central in any order, and `Scan` is
`scan_printer`, which reads a day from its rollup where it has one.
`SupplyYield` judges a printer's completed cycles against what an operator
entered or against its peers (`_judge`, `fleet_baseline`); a median is the number
that half of them do not exceed (`Kth`), which needs no sorting.  `Billing` computes
an invoice from readings that may lack meters (`PeriodMeter`, `Classify`,
`TieredCost`, rounding included); activating a rate card is two steps, as the
handler reads and commits.  `ScheduledReports` claims, sends and releases a
month.  `SupplyForecast` fits the levels since the last refill by least squares
over whole numbers and derives the urgency that the dashboard shows and the
event publishes.  In `SupplyOrders` staff handlers check and then write; the
scan matches replacements against the stock it read and commits later; a mail
is listed some time after it arrives, and the first poll that succeeds looks
`Lookback` days back, which `reach` remembers.  `MaintenanceDesk` keeps what the
operator was told (`promise`) beside what the schedule row says.
`SuppressionCalendar` counts time in units of a small day, with an offset per
client that changes once; `Evaluate` follows chained windows to the horizon.
`WorkerHealth` stamps job by job under a lock whose connection may drop.

### Devices

`AgentUpdate` is one agent and the disk it is installed on; `Confirm` is
the version read back after pip, and the marker that the next start reads may
fail to be written.  `DefinitionFeed` identifies a version with the content it
digests and a signature with the key it was made with.  `MachineEnrollment`
knows a record by the identity in the PC's state file or, once the record has
gone quiet, by name; a lost answer loses the key it carried.  An enrollment is a
transaction (`BeginEnroll`, then `CommitEnroll` or `EnrollLost`): it picks the
record, and updates it by its number later, whatever became of it; columns that
would not change by what it read are not written (`Column`).  `raced` holds the
records that such a commit wrote after they had been enrolled again or heard from.
`QueueProvisioning` takes a poll apart into snapshot, one step per queue,
removals and default; the platforms (Windows, a Windows without `-IppURL`, CUPS)
differ in what they compare and in what a failed repair leaves behind.  A build
may be refused before anything is touched (`BuildRefused`: a driver that cannot be
staged, no `-IppURL`), find its printer asleep (`BuildFails`), err halfway
(`BuildErrs`), be cut short (`CutShort`), or be left for the next poll once the
queries nobody answered have used the time up (`Defer`, CUPS alone).  In which
order a poll takes its queues is open.

### Accounts, agents and customers

In `OperatorAccounts` a cookie, once made, may be presented for ever; a request
that changes an account reads it in `Begin` and commits in `CommitEdit`.  A
sign-in writes into the session its browser has and only ever sets the flag of a
forced rotation (`LeftOver`): one that is in it stays.
`DirectorySync` separates the fetch of a snapshot from its application and lets
the worker and an operator run at once.  `PrinterAssignments` resolves the
layers of person, machine and groups; its property restates the rule the
screens explain, in another form than the code computes it.  `RemoteRequests`
is policy, queue, pull, execution and answer, each of which may be lost; requests
that are overdue count against the cap of open ones until a POST that is under
the cap commits their expiry.
`AgentEnrollment` has several installs carrying one code.  `FleetRegistry`
gives each site the same network behind it and lets devices move, swap
addresses and hide their serials.

What does not change in these (who a printer, a seat or a host belongs to) is a
constant function, to which the run's configuration gives a value, so that
the theorems hold for every such function.

### How independent components share a run

`MCPrinterData`, `MCDevices` and `MCAdministration` each instantiate several
specifications that share no variable.  The first state picks the one that a
behaviour follows (`focus`), the others rest in their first state; the state
space is then the sum of the components' and not the product, which
would add nothing, as no action of one reads another.  `spent` counts what
operators and faults have done; it bounds them and appears in no guard of the
specifications.  A property of a run is the conjunction of its components'
properties, named in the module of the run.  `Fleet`, accounts, requests,
invoices and stock are each followed twice, with different things moving, where
one behaviour with everything would be too large.  The components keep a `Spec`
of their own with everything their actions allow and no budget; the theorems
are about those.

### Abstract specifications

`SubnetToken`: `Take` from nobody, `Drop` to nobody.  `CollectorLease` is
mapped to it by "the agent whose deadline is in the future, if any", so the
refinement says that entitlement never jumps from one agent to another.
`DurableOutbox`: a row that is sent or closed stays so until it is deleted, and
is only sent if a transmission took place; both queues are mapped to it through
their committed rows.  It is deliberately at-least-once: `Transmit` leaves the
log alone, as a crash before the commit does.

## Runs

All runs use small time: durations of 0 to 2 ticks.  What the properties tell
apart is only which of two instants comes first, and every comparison in the
code appears with equality and with both strict orders at these values.

| run | outcome | question |
|---|---|---|
| `lease_steady` | pass | Under `SteadySpec`: `LeaseMutex`, `DeadlineBeforeExpiry`, `PredecessorClosed`, `OnlyLapsedLeasesMove`, the inductive `LeaseInv`, and the refinement of `SubnetToken` |
| `lease_failover` | pass | Liveness, `AlwaysCollected`: after a death the survivor sweeps; no gap between living agents is for ever |
| `notifications` | pass | `NothingLost`, `NoDoublePage`, `TurnsCome` (no row starves while sweeps commit, none is held twice), refinement of `DurableOutbox` |
| `notifications_digest` | violation | Can an outage settle a notification? |
| `events` | pass | `NoDoublePost`, `EventsKept` (tenancy, and a backlog outlives retention), refinement of `DurableOutbox` |
| `alerts` | pass | `OneStory` (one live alert per condition, subscribers agree with the table), `NotResolvedWhileWrong`, `Paced` (folding, escalation), `Settles` |
| `readings` | pass | `ReadingsKept` (recorded or given up for a named cause, recorded once, in the agent's own period) and `Replayed`: every spool empties once its link stays up |
| `readings_order` | violation | Is a printer called offline only when its readings dried up? |
| `printer_data` | pass | `BooksTrue`, `TermsKept`, `NothingMissed`, `SuppliesWatched`, `DeskKeepsWord` |
| `devices` | pass | `RecordsAgree`, `LiveKeepsKey`; liveness: `Recovers`, `QueuesConverge` |
| `administration` | pass | `SessionsBound`, `AgentsBound`, `CustomersApart`, `DecisionsStand` |
| `fleet_overlap` | violation | Is a device recorded at the site it was found at, when two customers' networks overlap? |

### Bounds

*lease_steady.*  Three agents, so that a re-assigned or replaced agent can still
hold a deadline while two others are eligible; lease lengths 1 and 2, so that
a grant of an earlier, shorter setting meets a renewal with the longer one; a
clock to 3, which lets a lease be granted, lapse, and be granted to another;
two messages in flight (a request and a reply of different agents); two edits,
other requests or faults per behaviour.  `Grace` and `TakeoverAfter` are 0,
the most aggressive takeover the code can be configured to.  The theorems do
not depend on any of these.

*lease_failover.*  The clock stops at `MaxTime` while everything else goes on,
so `MaxTime` means "long after"; `HorizonAssumption` makes sure that it is late
enough for every lease to have lapsed and for a dead agent to be gone.  Without
that assumption the liveness properties would be about a frozen clock.

*notifications.*  Two alerts and two channels: an owed row can overtake a row of
its own alert, and a sweep of one row per batch can starve the others.  Two
attempts put a row through failed and dead.  Three rows and two changes
(switches, outages, windows, escalations, crashes) suffice for a hold, a
conversion to owed and a fan-out with a sibling.

*events.*  Two facts, two subscriptions, one client and the global scope: every
case of `scope_allows` occurs.  Retention 1 and a clock to 3 let an event
outlive its retention with a row still failing.

*alerts.*  Two error codes at a cap of two, so that no code drops out of the
selection (what the cap does is in the theorems, which hold for any), cooldown and
escalation of one tick, so that a fold and an escalation meet in one pass; rules
start from three sets that between them contain every kind.

*readings.*  Leases of two ticks and a clock to 3: an agent polls twice in one
lease, spools both, replays them one per batch, and the other agent takes the
subnet over in between.  The spool holds two, so a third reading overflows it.
Two faults, hand-backs or broken links per behaviour; links come back for free.
An unreadable spool over a backlog takes two (a broken link, then the fault).

*printer_data.*  Two printers, three days and two readings a day make a straggler
before, between and after the first and last of a deleted day; the readings of a day
differ in their meters, which no step compares.  Two slots (one that empties, one
that fills), four polls and three disturbances give a replacement, a reset and a late
reading in one life of a cartridge.  Two pages over two months, polled twice in each,
and one misread, reset or pruned month; five operations of two admins on two cards
with tiers, priced over twice the pages.  A month with the wanted day and one too
short for it, two workers.  Three printers of a model with two and three cycles and
yields 6 and 10, so that baselines cross the shortfall.  Two orders, two cartridges
and five stock operations; two mails and an overlap of a day, as long as the listing
lag, and a first poll that looks back one day of the two.  One schedule with every
combination of date, interval and threshold and three edits.  Two clients whose
clocks jump in opposite directions, two chained windows over almost three days.  Two
workers, two jobs and two mishaps.  The week has `WeekDays` days and an evaluation
follows windows as far as `QuietHorizon` and `MaintenanceHorizon`; the source has 7
days and two fixed horizons, the run fewer, the theorems any.

*devices.*  Three versions, two PCs of two names, two keys, two definitions of
two clients, two printers with two labels, addresses and tiers; two or three
disturbances, after which the liveness properties ask for convergence.  A
`QueryBudget` of one: of two printers that have no queue one asleep is enough to
put off the other (the source's 150 s are two queries of 75 s).

*administration.*  Two users, two browsers, four operations on their accounts, one
handler in flight beside the sign-ins (with two, a lost update of the session epoch
is a known gap, see below); two people of one directory, two runs and three edits;
four operations on the assignments of three printers of two customers; two operators,
two requests and one fault (three requests where no agent answers), a cap of two open
ones, so that a stale one and its expiry are met below the cap and at it; two
installs and two codes; two devices, two hosts, two sites and three moves or
decisions, five for setting places up.

### Fairness

`CollectorFailover`: time passes; a living agent keeps heartbeating
(`_try_heartbeat` runs on every loop), is answered, and times out on what is
lost (a 30 s client timeout).  The worker starts every cycle (weak fairness)
and its steps succeed again and again though any of them may fail (strong
fairness): `run_cycle` swallows what a job raises and starts over on the next
interval.  Nothing is assumed of operators, of the network or of crashes.
`AlertLifecycle`: a pass starts whenever none is under way, and commits again
and again.  `ReadingCollection`: each agent's loop goes on whatever a cycle raised
(`run_forever` catches it); that the link comes back for good is the premise of
`Replayed`, not an assumption.  The two queues state safety only.
`MCDevices`: the service manager restarts an agent and its loop polls, an
operator who rotates a key installs it (the screen shows it once for that), a
machine that runs keeps trying to enroll, and a poll that has begun goes on.
Its budget ends the disturbances, which is what "once they end" means.

`CHECK_DEADLOCK FALSE` is set for the two queues and the three composed runs:
with the clock at its bound, every row settled and the budget spent nothing is
left to do.

## Findings

Each is the counterexample of a run whose property states what a docstring, a
comment or a test says.

* `notifications_digest`: a digest that every channel *refused* is booked as
  skipped, as if every channel had declined it.
* `readings_order`: a replay applied after newer readings moves `last_seen`
  back, and a printer that has just reported is called offline.
* `fleet_overlap`: a device found behind one of two overlapping networks is
  recorded at whichever site's subnet has the CIDR and comes first.

### Statements that do not hold and have no run

Each is written in a module or follows from the words here, TLC refutes each, and
none is kept as a run of its own; they are the reason for a premise elsewhere or a
note for a maintainer.

| statement | what TLC shows |
|---|---|
| `LeaseMutex` under `ToggleSpec` | `seed_lease` ignores the barrier a release left: a standby cleared and set again yields two live deadlines |
| `LeaseMutex` under `StallSpec`, `DeadlineBeforeExpiry` under `ShortenSpec` | a handler preempted between clock and UPDATE renews with an old clock; a shorter lease moves an expiry below a deadline in use.  Nothing in the repository promises otherwise |
| `HandbackReachesPrimary` | a released lease goes to whichever agent heartbeats first after the barrier |
| `NothingLost` under `MCReviveSpec` | a flap revives an alert whose first notification was closed undelivered |
| `SweepsCommit`: a sweep that no crash cuts short commits (`retry_due`: "starvation-free rather than merely bounded", delivery.py:636) | one owed row with two targets, both mute, makes every sweep that reaches it raise and roll back; the rows in it and after it wait as long as that lasts |
| `NoStarvation` of events with `ToggleNext` | rows of a disabled subscription fill every batch |
| `SubscribersAgree` under `MCStaleSpec` | acknowledging from an old page reopens an alert without an event |
| `NotResolvedWhileWrong` without its exception for codes above the cap | a standing code that drops out of the selection is resolved |
| `RotationForced` and `AdminRemains` with two changes of accounts under way at once | each handler commits what it computed from the row as it was: a forced rotation is lost, or the last two admins demote each other |
| `RotationForced` with equality (`c.forced = users[c.user].forced`) | a sign-in keeps the flag the browser's session had: signed in to another account, or after the password was reset again and replaced elsewhere, a browser is held to the form although nothing awaits a new password; who has no local password can only log out |
| `SlotsFreed`: a POST that is refused at the cap finds no stale request in it ("an expired request no longer holds a slot against the cap", test_remote_hands.py:605-609) | the count does not see the expiry, which is not flushed, and the refusal rolls it back: at the cap stale requests stay open and go on refusing, though the page shows them expired |
| `LossesTold` (`untold = {}`; "a failed push never drops the cycle", runner.py:405) | an unreadable spool under a failed push, or a 200 that is not JSON, loses readings no log line counts |
| `MailImported` without `reach` | mail older than `initial_lookback_days` when the first poll succeeds is never imported |
| `LiveKeepsKey` and `OneRecordPerIdentity` without `raced` ("adopting it would rotate a working PC's credential out from under it", `adopt_by_name`) | two namesakes enroll at once, both adopt the quiet record, and the second commit takes the key of the first; or a record is heard from between lookup and commit |
| `QueuesConverge` without `TakenForRight` ("a queue whose port or driver has drifted must be corrected", workstation.py:41; "a failure leaves nothing half-applied", macos.py:404) | a driverless queue on Windows keeps the address it was built for; a CUPS queue whose repair was cut short has the right address, no working driver, and is never looked at again |
| `QueuesConverge` without the query budget in `OutOfReach` ("will retry next poll", macos.py:891) | a printer that answers stays behind ones that sleep in every poll |
| `OwnPeriod` under `Spec` | a poll that outlasts its lease enters the other agent's period |
| `NotCountedTwice` | `_process_printer_day` merges into a pruned rollup without asking whether this pass deletes: with deletion switched off since, a straggler is merged, stays, and is merged again by the next pass |
| `BacklogDrains` | with deletion off and as many printers as the budget, the pass never reaches the next day |
| `ClosedIsReplaced` | a level that rises by more than the tolerance closes a cycle though nothing was replaced |
| `UnsplitBilledOnce` | a month whose split is known and one whose split is not may bill the same pages, under "bill as mono" |
| `NoPeriodDropped` | a delivery that fails on the last check of its day is not retried on the next |
| `EventSaysWhatPageSays` | the event is published with another lead time than the page uses |
| `ToldComesDue` | a page schedule without a date is "next due at N pages" and never due |
| `DeadIsSeen` | a worker that restarts again and again shelters behind its marker |
| `AdminCanSignIn` | the last-admin guard counts an admin the identity provider has deactivated |
| `NeverAborts` | one client's address clash ends the worker's job before the other clients' runs |

Met while reading and left as they are: a lost update of the session epoch when
two handlers commit over each other (the reason for one handler in
`administration`); a truncated Google or Entra member list that is taken for
complete (`Fetch` has it, and `NobodyDroppedUnseen` is about people, not members);
purge of expired claim tokens that nobody calls; a deleted shipping notice that
the overlap imports again; macOS comparing a queue's address and not its
driver; a worker that loses its lock's connection goes on beside another.

## Proofs

All are checked by `tlapm` to the last leaf.  They hold for any sets of agents,
alerts, channels, subscriptions, codes, printers, people and so on, any limits,
intervals and delays and any clock bound.  The only assumptions are those on the
constants: `ConstantsAssumption`, `DeliveryAssumption`, `EventAssumption`,
`AlertAssumption`, `ReadingAssumption`, `AdministrationAssumption`,
`DevicesAssumption` and `DataAssumption` (the last three name the assumptions of
their components).  They say that limits are numbers, that finite things are
finite and that `None` and the like are none of the values they stand beside; the
runs evaluate every one.  Two theorems have a premise besides, which is written in
their statement: `OneAtATime` (changes of accounts take turns) and
`MailboxKeepsUp` (a mail is listed no later than the overlap of two polls, and
there are no more mails than a poll can take); the code ensures neither.

| module | theorem | statement |
|---|---|---|
| `CollectorLeaseProofs` | `TypeCorrect` | `Spec => []TypeOK` |
| | `LeaseInvariant` | `SteadySpec => [](TypeOK /\ LeaseInv)` |
| | `Exclusion` | `SteadySpec => []LeaseMutex` |
| | `DeadlinesCovered` | `SteadySpec => []DeadlineBeforeExpiry` |
| | `HistoryClosed` | `SteadySpec => []PredecessorClosed` |
| | `LeasesLapse` | `SteadySpec => OnlyLapsedLeasesMove` |
| | `Refinement` | `SteadySpec => ImplementsToken` |
| `NotificationDeliveryProofs` | `QueueInvariant`, `TypeCorrect` | `Spec => [](TypeOK /\ QueueInv)` |
| | `PagesExplained` | `Spec => []NoDoublePage` |
| | `HeldInOneRow` | `Spec => []HeldOnce` |
| | `TurnsInvariant`, `TurnsTaken` | `Spec` implies `[]TurnsInv` and `[]TurnsCome` |
| | `NothingForgotten` | `DeliverySpec => []NothingLost` |
| | `Refinement` | `Spec => ImplementsOutbox` |
| `EventDeliveryProofs` | `QueueInvariant`, `TypeCorrect` | `Spec => [](TypeOK /\ QueueInv)` |
| | `RepeatsExplained` | `Spec => []NoDoublePost` |
| | `SubscribersServed` | `Spec => EventsKept` |
| | `Refinement` | `Spec => ImplementsOutbox` |
| `AlertLifecycleProofs` | `PassInvariant`, `TypeCorrect` | `Spec => []Inv`, which holds `TypeOK` |
| | `PeopleToldOnce` | `Spec => Paced` |
| | `NothingClosedWhileWrong` | `Spec => NotResolvedWhileWrong` |
| | `OneStoryTold` | `AlertSpec => []OneStory` |
| `ReadingCollectionProofs` | `KeptInvariant`, `TypeCorrect` | `Spec => []KeptInv`, which holds `TypeOK` |
| | `NothingMissing` | `Spec => [](Accounted /\ RecordedOnce)` |
| | `KeptInPeriod` | `PromptSpec => []ReadingsKept` |
| `AdministrationProofs` | `EnrollmentInvariant` | `Enroll!Spec => [](Enroll!TypeOK /\ EnrollInv)` |
| | `IdentitiesApart`, `OrphansAdopted` | `Enroll!Spec` implies `[]OneIdentity` and `AdoptsOrphansOnly` |
| | `RemoteInvariant` | `Remote!Spec => [](Remote!TypeOK /\ RemoteInv)` |
| | `CarriedOnce`, `WritesWereProven`, `OpenWithinRate`, `SettledStays` | `Remote!Spec` implies `[]AtMostOnce`, `[]WritesProven`, `[]OpenBounded` and `AnswersSettle` |
| | `AgentsKeptInBounds` | `Remote!Spec /\ Enroll!Spec => []AgentsBound` |
| | `NobodyDropped` | `Directory!Spec => NobodyDroppedUnseen` |
| | `FleetInvariant` | `Fleet!Spec => [](Fleet!TypeOK /\ FleetInv)` |
| | `TenancyKept`, `HistoriesKeptApart`, `DecisionsKept` | `Fleet!Spec` implies `[]TenancyAgrees`, `[]HistoriesApart` and `DecisionsKept` |
| | `AssignInvariant` | `Assigning!Spec => [](Assigning!TypeOK /\ OwnersInv)` |
| | `OwnTenantTold`, `DefaultsFollowRank` | `Assigning!Spec` implies `[]OwnTenantOnly` and `[]DefaultFollowsRank` |
| | `CustomersKeptApart` | `Assigning!Spec /\ Fleet!Spec => []CustomersApart` |
| | `WhatWasDecidedStands` | the specifications of directory, requests, enrollment and fleet imply `DecisionsStand` |
| | `SessionsInvariant` | `Accounts!Spec /\ []OneAtATime => [](Accounts!TypeOK /\ SessionsInv)` |
| | `SessionsWorth` | under the same premise `[](RotationForced /\ AdminRemains)` |
| | `BudgetInvariant`, `BudgetStands` | `Accounts!Spec` implies `[](TypeOK /\ BudgetInv)` and `[]BudgetKept` |
| | `SessionsStayBound` | `Accounts!Spec /\ []OneAtATime => []SessionsBound` |
| | `AdministrationTypes` | the six specifications imply `[]TypesOK` |
| `DeviceProofs` | `UpdateInvariant`, `UpdatesTrue` | `Update!Spec` implies `[](TypeOK /\ UpdateInv)` and `[]OkIsRunning` |
| | `FeedInvariant`, `FeedsTrue` | `Feeds!Spec` implies `[](TypeOK /\ FeedInv)`, `[]VersionNamesContent` and `[]OneScopePerKey` |
| | `SeatInvariant`, `OneRecordEach` | `Seats!Spec` implies `[](TypeOK /\ SeatInv)` and `[]OneRecordPerIdentity` |
| | `KeysKeptLive` | `Seats!Spec => LiveKeepsKey` |
| | `SpoolTypes`, `DeviceTypes` | the four specifications imply `[]TypesOK` |
| | `RecordsKeptTrue` | the first three imply `[]RecordsAgree` |
| `PrinterDataProofs` | `RetainInvariant` | `Retain!Spec => []RetainInv`, which holds its `TypeOK` |
| | `DeletedCounted`, `WindowsKept` | `Retain!Spec` implies `[]DeletedIsCounted` and `WindowKept` |
| | `MonthlyInvariant`, `MonthsReported` | `Monthly!Spec` implies `[](TypeOK /\ OneHolder /\ NoneSkipped)` and `[]OneReportAMonth` |
| | `InvoiceInvariant`, `TermsAreKept` | `Invoice!Spec` implies `[]InvoiceInv` and `ActiveKept` |
| | `MetersInvariant`, `MonthsAreTrue` | `Invoice!Spec` implies `[]MetersInv` and `[](MonthsTile /\ PagesBilledOnce)` |
| | `YieldInvariant`, `WorseClearsNothing` | `Yield!Spec` implies `[]YieldInv` and `WorseNeverClears` |
| | `ForecastInvariant`, `ForecastOnOwnReadings`, `ForecastNeverDrops` | `Forecast!Spec` implies `[]ForecastInv`, `OwnReadingsOnly` and `WorseNeverDrops` |
| | `StockTypes`, `StockInvariant` | `Stock!Spec` implies `[](TypeOK /\ MailsSent)` and `[]StockInv` |
| | `OverdrawnByRaceOnly` | `Stock!Spec => OverdrawnOnlyByRace` |
| | `MailReachesLedger` | `MailboxKeepsUp => (Stock!Spec => []MailImported)` |
| | `DeskInvariant`, `DeskWord` | `Desk!Spec` implies `[]DeskInv` and `DeskKeepsWord` |
| | `CalendarInvariant`, `SilentInsideOnly`, `HeldUntilEnd` | `Calendar!Spec` implies `[]TypeOK`, `SilentExactlyInside` and `[]HeldToTheEnd` |
| | `HealthInvariant`, `SicknessSeen` | `Health!Spec` implies `[](TypeOK /\ MarkerIsLast)` and `[]SickIsSeen` |
| | `DataTypes`, `NothingIsMissed`, `TermsStand`, `SuppliesAreWatched` | the specifications concerned imply `[]TypesOK`, `[]NothingMissed` (while the mailbox keeps up), `TermsKept` and `SuppliesWatched` |

In every module the step is proved action by action, an action's lemma saying
what it keeps; steps that touch the same part share a lemma.  A module holds the
facts on sequences, sets and numbers that its proofs cite.

### The lease

`LeaseMutex` is not inductive: it speaks of the deadlines that agents have
stored, and a reply in flight may store another.  `LeaseInv` therefore speaks
of *grants*, the stored deadlines and those that held replies in flight would
store, and has five parts:

* `GrantsCovered`: a live grant lapses no later than the row's expiry, and the
  row names its agent or nobody;
* `GrantsExclusive`: live grants belong to one agent.  It does not follow from
  the first part, for a released row names nobody while its former holder still
  sweeps;
* `ClocksBehind`: every clock that was read is in the past, so a worker's stale
  judgement can only be too cautious;
* `LengthsBounded`: no length handed out exceeds the present setting, so a
  renewal never moves the expiry back.  This is where shortening would break
  the proof;
* `PredecessorBehind`: a recorded predecessor's period is over once somebody
  holds the row, and ends with the row's expiry until then.

Most actions add no grant and leave the
row alone (`GrantsKept`, `RowKept`); the two that take the lease share
`LeaseTaken`: whoever the row's guard lets take it finds either its own lease
or an expiry in the past, and then `GrantsCovered` says nobody else's grant is
live.  The refinement uses that an agent's deadline jumps into the future only
by a reply, whose grant was already exclusive while in flight (`OwedBefore`,
`SweeperIs`, `TokenStep`).

### The two queues

What makes both hard is that a sweep works on a session's copy of the rows and
commits once.  The invariants say how the two tables differ.

*Events.*  `AtRest` and `SessionHonest` say that the session agrees with the table
between sweeps and, within one, never leaves a settled row; `InHand` that what
it has not treated yet is still queued.  `PostsCounted` is what `NoDoublePost` needs: a
row the session sees open was posted at most once for each roll-back.
`CopiesCurrent` says that a subscription, and the copy of it a sweep caches, has
a scope it had since the sweep began; tenancy is then a step property.
`AttemptsLeft` and `DeliveredWasPosted` serve the types and the refinement.

*Notifications.*  `TableInv` (open rows have attempts left, an alert is held in one
row, and no more rows of it are open than it was raised times) is demanded of the
session's rows and of the saved ones alike; `SessionExtends` says the session adds to
the saved table and leaves settled rows alone.  `PagesBounded` counts pages together
with the rows that may still become pages, as an open row is a page waiting to
happen.  `NothingForgotten` needs `AnswersInv`: a row that answers for no alert
belongs to a resolved one.  `TurnsInv` is what `NoStarvation` needs: a row left out
of n successive sweeps that committed (`Skips`: those that were rolled back are taken
off) has n - 1 full batches of rows *behind* it, settled or due later, and rows are behind no other way than by having had their turn.  While a sweep
runs, what it has in hand counts with them (`TurnsSweep`): none of it was behind, as
it was fetched first, and each row it treats goes behind (`LeftBehind`).  The first
sweep that leaves a row out may re-stamp its batch to the very instant the row fell
due, hence n - 1.  Both refinements map the committed rows; all but the commit and
the deletions stutter.

### The alerts

`PassInv` says that what a pass decided still fits the rows when it commits: what it
resolves is live and what it revives is resolved, as when it read them.  `ToldInv`
makes `lastTold`, which is history, equal to the column or to what the pass is about
to write there; `Paced` follows.  `OneStory` needs `DecidedInv` (what a pass will
open has no live alert by then, although operators file by hand and revive meanwhile)
and `FlapsInv` (an outbox key belongs to a flap that has been, so the next is new).

### The readings

`KeptInv` follows each reading from the poll: it is in memory, in the spool, recorded
or given up; memory and spool have one copy of it between them; what a drain is about
to cut from the spool was recorded or given up before; and what is still to be sent
was recorded at most as often as an answer or a process was lost, of any other
reading once more.  `PeriodInv` carries `OwnPeriod` along the argument of
`PredecessorBehind`: what an agent's deadline or poll allows was granted to it,
granted instants are one agent's each, lie before the row's expiry, and before now
for all but the holder.

### Administration

* *Enrollment.*  `CodesSpent` and `KeysApart`: a code that made an agent is
  used up and made no other; an install holds, or is about to write, a key
  nobody else has.
* *Remote hands.*  `CommandsInv` (a request has one command, a batch holds its
  agent's sent ones), `CarriedInv` (a request carried out is in no batch any
  more), `ProofsInv` (capability, an open POST and a queued write all go back to
  an answer), `OpenInv`.  The last is why the rate may be exceeded by the number of
  operators less one and by no more: it counts the posts under way beside the open
  rows, the stale ones included (`Standing`, `Posting`).
* *Directory.*  `SnapshotsInv`: a fetched list agrees with what the directory
  held at the fetch, and lists everybody if it says it is complete.
* *Fleet.*  `SitesOwned`, `PrintersPlaced`, `AddressesApart` (a site has one row
  for an address, which is what makes a lookup unambiguous), `SerialsHeard` (a
  row has heard of no serial but the one it carries).
* *Assignments.*  `OwnersInv`: rows and members stay of one customer.
* *Accounts.*  `CookiesWorth` (a cookie of the present epoch, made or about to be
  made, is forced if its account awaits a new password), `ChangesFresh` (a change
  under way read the row as it is) and `SomeAdmin`.  `ChangesFresh` is kept only if
  changes take turns; that is the premise `[]OneAtATime`, a condition on behaviours
  which the run meets with one handler, and which the code does not enforce.  TLC
  refutes both properties with two handlers (see above).

* *The throttle.*  `BudgetInv`: what is counted against an account or an address
  in a window, with the attempts already let in, is less than the threshold and
  the number of browsers, since an attempt is let in below the threshold only.
  Counts per address are sums over a set by a fold of the community modules; what
  such a sum is when one element is added is proved from its recursive definition
  by a least counterexample, as the induction theorems cannot be instantiated.

### What becomes of readings, proved

* *Retention.*  `RetainInv`: a pruned row stands for the readings deleted from its
  day (`RowsStand`: exactly those, unless readings that stayed were merged into
  it, and never less), readings are not two at an instant, and what a pass has
  read is there.
* *Reports.*  `OneHolder` (a month is held by one worker at most, from the claim
  to the release) and `NoneSkipped` (a month whose day was checked is claimed).
* *Cards.*  `OneActive`: activation commits on what its handler read, and the
  index that allows one active card a client makes the loser of a race fail.
* *Invoices.*  `MetersInv`: what the mono and color meters climbed from reading to
  reading, and on to what they show now, is no more than was printed, however
  meters are reset, left out of a poll or pruned.  A month's pages are the climbs
  between its readings, so the months are the fibres of one sum (`ByMonth`) and add
  up to it.
* *Yields.*  The order statistic behind `Kth` does not fall when a value no
  smaller than it is added, nor rise for one no larger.
* *Forecasts.*  `ForecastInv`: the points kept are in order and of the window;
  points since the last refill are the part's own.
* *Stock.*  `UsesApart` and `ScansCovered`: what an open scan took from an order it
  took from what the order had, less what staff assigned meanwhile; a scan's commit
  can overdraw only in the latter case.  `MailInTime`: a mail not imported is not
  older than the next window.
* *Desk.*  `KeepsPromise`: what the operator was told of a schedule follows from
  its row until it is edited.
* *Calendar.*  Types alone are inductive; the decision is about `Occurrences`,
  which a jump of the clock moves by no more than itself.
* *Health.*  `MarkerIsLast`: the marker is that of the last worker to start.

### Devices

* *Updates.*  `CommandsHeld`, `LoadedFromDisk` (a process runs what is on its
  disk until pip replaces it, and then no marker says so yet), `MarkerTrue` (a
  marker that says ok names the disk's version, unless an install went untold,
  and a process with no news of it has reported itself).
* *Definitions.*  `FeedsNarrow`: a feed on its way, cached or applied has one
  scope for a key, since central narrows before it signs.
* *Workstations.*  `RowsDense`, `SerialsMinted` (nothing is ahead of the counter, so
  the next serial is new), `IdentitiesApart` (no identity is in two files or rows)
  and `KeysMatch` (credentials that fit a row are those of the PC whose identity the
  row has, unless the row is in `raced`).  An enrollment picks its row in one step
  and writes it in another: `RequestsOpen` says what an open request holds of the
  counters and of its own PC's file, and `RowChosen` why the row it read is no live
  PC's: it was this identity's or had gone quiet, and has changed since only if the
  commit is one of those `raced` records.
* *Queues.*  Types alone; what `QueueProvisioning` promises is liveness.

### What attempts at a proof corrected

* `EventsKept` compared a post with the scope before or at the sweep's reads alone;
  four re-scopings around one sweep refute that, and the run has two.
  `job.scopes` states what the code does.
* `NoDoublePage` allowed one page for a crash.  With a batch of two a crash loses
  two pages of one alert; the run's batch holds one row.
* A post whose answer was lost puts readings back into the spool, where the
  cap may drop them; `PushUnheard` now gives those up.  It
  takes three faults, and the run has two.
* `NoStarvation` allowed a row to be passed over once for each batch that the rows
  make.  With a batch of two, two owed rows that no channel takes are re-stamped
  "now", tie with a row due at that instant and are taken before it; the bound is
  one sweep more, as its comment says.  The run's batch holds one row.
* Retention had deletion only switched on.  With both, a pruned row can hold
  readings that stay (`mixed`), and may count them twice: `NotCountedTwice` does
  not hold (see the table above).
* `SuppressionCalendar` looked for the days on which quiet hours begin among the
  days of the run, which a client's offset may leave; `Occurrences` now takes the
  days around the local one, and an offset is bound to jump by a day at most.
* `Billing`, `SupplyOrders` and `SuppressionCalendar` gave no type to the forms of
  two admins, to the worker's scan and to what is held; `desk`, `Scans` and
  `Holds` have one now.
* `SupplyForecast` filtered its window and `SupplyYield` sorted to find a median,
  by recursive operators of which nothing can be said without induction.  The
  oldest points are cut off, which is the same as long as points are in order
  (`ForecastInv`), and the median is an order statistic, which is the same number.
* `DefaultFollowsRank` had `\cup` and `\` of which SANY takes the left one first;
  they are parenthesised now as they are meant.

### Only model-checked

* Liveness under fairness, which is beyond these proofs: `AlwaysCollected`,
  `Settles`, `Replayed`, `Recovers`, `QueuesConverge`.
* `BooksTrue`: the cycles that passes over a part's readings write
  (`PassesDoNotMatter`, `PagesNotInvented`), the bands of a rate card
  (`PricedPerPage`) and the type of a fit are folds over sequences, sets and
  bands, of which every step would be an induction.
* `QueueProvisioning` beyond its types: what it promises is liveness.

## Plan

Modelled, in this order: the lease with its proofs, the two queues, the alerts,
the agent's readings; then what becomes of readings, the devices, and the
accounts, agents and customers.

Every safety property of the runs but `BooksTrue` is proved.  Theorems to prove
next: the folds of `SupplyCycles`; the premise `OneAtATime` made a part of a
repaired specification of the accounts.

Still to model: editing of alert rules and ticket routing; the merge of local
and central agent configuration; SCIM deletion; the retention of events and
audit rows.

## Not modelled

Rendering, exports, CSV, message formats and wording; SNMP and IPP parsing and
vendor providers; package builders; migrations; signing and address checks of
event destinations; token cryptography and the OIDC exchange; parsing of
supplier mails and matching of catalogue entries, which are outcomes here.
They keep no state that another actor races with, or they are input and output.
Channels from the `notification_channels` table are left out because no screen
creates one; the worker's clock is assumed not to run backwards; the database
is assumed to run each UPDATE atomically, which is how the source uses it.
