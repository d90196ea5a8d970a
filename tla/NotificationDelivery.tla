------------------------ MODULE NotificationDelivery ------------------------
(***************************************************************************)
(* Durable notification delivery (central/channels/delivery.py): the rows  *)
(* of notification_deliveries, the sweep that retries them, the digest     *)
(* that releases what quiet hours held, and the steps of an alert's life   *)
(* that write them (central/worker/jobs.py).                               *)
(*                                                                         *)
(* The worker is one thread under the leader lock; operators and the       *)
(* outside world move between its steps.  What the worker writes during a  *)
(* sweep is its session's view (rows) until the one commit at the end; a   *)
(* crash before that commit rolls back to saved, but not the messages that *)
(* have left.  A row's id is its position; SQL NULL in a time column is 0, *)
(* which sorts first, as the CASE in _due_order makes it.                  *)
(***************************************************************************)
EXTENDS Integers, Sequences, FiniteSets, SequencesExt, FiniteSetsExt

CONSTANTS
    Alerts,         \* rows of the alerts table that may come to exist
    Channels,       \* names of the Settings-page channels
    BatchLimit,     \* BATCH_LIMIT
    MaxAttempts,    \* notifications.max_attempts
    Base,           \* notifications.retry_base_seconds
    BackoffCap,     \* _BACKOFF_CAP_SECONDS
    GiveUp,         \* UNROUTED_GIVE_UP
    EscalateAfter,  \* alerts.escalate_after_minutes; 0 = off
    Cooldown,       \* alerts.renotify_cooldown_min; 0 = off
    MaxTime,        \* bound: the clock stops here
    MaxRows         \* bound: delivery rows

\* Reserved channel keys.
Unrouted == "*unrouted*"
Withheld == "*withheld*"

ASSUME DeliveryAssumption ==
    /\ IsFiniteSet(Channels)
    /\ Channels \cap {Unrouted, Withheld} = {}
    /\ BatchLimit \in Nat \ {0}
    /\ MaxAttempts \in Nat \ {0}
    /\ Base \in Nat \ {0}
    /\ BackoffCap \in Nat \ {0}
    /\ GiveUp \in Nat \ {0}
    /\ EscalateAfter \in Nat
    /\ Cooldown \in Nat
    /\ MaxTime \in Nat \ {0}
    /\ MaxRows \in Nat

VARIABLES
    now,
    enabled,        \* channels active_channels would build
    health,         \* what a send through a channel meets
    window,         \* the suppression window covering the alerts
    alert,          \* the alerts table: state, baseline and resolved_at
    rows,           \* notification_deliveries as the worker's session sees it
    saved,          \* notification_deliveries as committed
    job,            \* where the worker is in retry_due or flush_deferred
    pages,          \* history: messages received per alert and channel
    raised,         \* history: notifications raised per alert
    crashes,        \* history: worker crashes and sweeps that raised
    passedOver      \* history: sweeps in succession that had no turn for a due row

worldVars   == <<now, enabled, health, window>>
historyVars == <<pages, raised, crashes, passedOver>>
vars == <<worldVars, alert, rows, saved, job, historyVars>>

\* up transmits; down fails; mute is a dry run or a severity gate (ok, not sent).
Health == {"up", "down", "mute"}

Keys == Channels \cup {Unrouted, Withheld}

\* DeliveryStatus
\* Mutant: whatever is not dead is fetched.
RetryableUnlessDead == {"pending", "failed", "delivered", "skipped"}

Retryable == {"pending", "failed"}
Terminal  == {"delivered", "skipped", "dead"}
Statuses  == Retryable \cup Terminal \cup {"deferred", "suppressed"}

\* why stands for the last_error that _close leaves on a dead row.
Reasons == {"", "exhausted", "resolved", "gave up", "superseded"}

NewRow(a, key, status, next) ==
    [alert |-> a, key |-> key, status |-> status, attempts |-> 0,
     next |-> next, created |-> now, why |-> ""]

Row == [alert : Alerts, key : Keys, status : Statuses, attempts : 0..MaxAttempts,
        next : Nat, created : Nat, why : Reasons]

Jobs == [pc : {"idle", "sweep", "commit"}, at : Nat, chans : SUBSET Channels,
         todo : SUBSET (1..MaxRows), left : SUBSET (1..MaxRows),
         stamp : SUBSET Alerts]

Idle == [pc |-> "idle", at |-> 0, chans |-> {}, todo |-> {}, left |-> {},
         stamp |-> {}]

NoWindow == [kind |-> "none", ends |-> 0]

TypeOK ==
    /\ now \in Nat \ {0}
    /\ enabled \subseteq Channels
    /\ health \in [Channels -> Health]
    /\ window \in [kind : {"none", "defer", "suppress"}, ends : Nat]
    /\ alert \in [Alerts -> [state : {"none", "live", "resolved"},
                             since : Nat, resolvedAt : Nat]]
    /\ rows \in Seq(Row) /\ saved \in Seq(Row)
    /\ Len(rows) <= MaxRows
    /\ job \in Jobs
    /\ pages \in [Alerts \X Channels -> Nat]
    /\ raised \in [Alerts -> Nat]
    /\ crashes \in Nat
    /\ passedOver \in [1..MaxRows -> Nat]

Init ==
    /\ now = 1
    /\ enabled \in SUBSET Channels
    /\ health \in [Channels -> Health]
    /\ window = NoWindow
    /\ alert = [a \in Alerts |-> [state |-> "none", since |-> 0, resolvedAt |-> 0]]
    /\ rows = <<>> /\ saved = <<>>
    /\ job = Idle
    /\ pages = [p \in Alerts \X Channels |-> 0]
    /\ raised = [a \in Alerts |-> 0]
    /\ crashes = 0
    /\ passedOver = [i \in 1..MaxRows |-> 0]

-----------------------------------------------------------------------------
(* Folding one send into a row.                                            *)

\* backoff_delay
Delay(n) ==
    LET exponent == IF n - 1 > 20 THEN 20 ELSE n - 1
        delay    == Base * 2 ^ exponent
    IN  IF delay < BackoffCap THEN delay ELSE BackoffCap

\* _close: dead-lettered without counting an attempt.
Close(r, why) == [r EXCEPT !.status = "dead", !.next = 0, !.why = why]

\* Mutant: the cap is compared before the attempt is counted.
ApplyResultLateCap(r, c, at) ==
    LET counted == [r EXCEPT !.attempts = @ + 1]
    IN  CASE health[c] = "up"   -> [counted EXCEPT !.status = "delivered", !.next = 0]
          [] health[c] = "mute" -> [counted EXCEPT !.status = "skipped", !.next = 0]
          [] health[c] = "down" ->
                IF r.attempts >= MaxAttempts
                THEN Close(counted, "exhausted")
                ELSE [counted EXCEPT !.status = "failed", !.next = at + Delay(r.attempts + 1)]

\* _apply_result for a send through channel c.
ApplyResult(r, c, at) ==
    LET n == r.attempts + 1
        counted == [r EXCEPT !.attempts = n]
    IN  CASE health[c] = "up"   -> [counted EXCEPT !.status = "delivered", !.next = 0]
          [] health[c] = "mute" -> [counted EXCEPT !.status = "skipped", !.next = 0]
          [] health[c] = "down" ->
                IF n >= MaxAttempts
                THEN Close(counted, "exhausted")
                ELSE [counted EXCEPT !.status = "failed", !.next = at + Delay(n)]

\* The messages that leave when an alert's notification goes to chans.
Paged(A, chans) ==
    [p \in DOMAIN pages |->
        IF p[1] \in A /\ p[2] \in chans /\ health[p[2]] = "up"
        THEN pages[p] + 1 ELSE pages[p]]

-----------------------------------------------------------------------------
(* Raising a notification: _notify_alert, called when an alert opens and   *)
(* when it escalates.  It commits with the job that called it.             *)

\* Mutant: dispatching to no channel writes no row.
DispatchedUnowed(a) ==
    [k \in 1..Cardinality(enabled) |->
        ApplyResult(NewRow(a, SetToSeq(enabled)[k], "pending", 0), SetToSeq(enabled)[k], now)]

\* record_dispatch: a row per channel, or one owed row when there is none.
Dispatched(a) ==
    IF enabled = {} THEN <<NewRow(a, Unrouted, "pending", 0)>>
    ELSE [k \in 1..Cardinality(enabled) |->
            LET c == SetToSeq(enabled)[k]
            IN  ApplyResult(NewRow(a, c, "pending", 0), c, now)]

\* suppression.evaluate
Silenced == window.kind # "none" /\ now < window.ends

Held(a) == {i \in DOMAIN rows : rows[i].alert = a /\ rows[i].status \in {"deferred", "suppressed"}}

\* _record_withheld: the held row is refreshed in place, never stacked.
RecordWithheld(a) ==
    LET status == IF window.kind = "suppress" THEN "suppressed" ELSE "deferred"
        next   == IF window.kind = "suppress" THEN 0 ELSE window.ends
    IN  IF Held(a) # {}
        THEN rows' = [rows EXCEPT ![Min(Held(a))].status = status,
                                  ![Min(Held(a))].next = next]
        ELSE rows' = Append(rows, NewRow(a, Withheld, status, next))

Notify(a) ==
    /\ Len(rows) + Cardinality(enabled) + 1 <= MaxRows
    /\ IF Silenced
       THEN RecordWithheld(a) /\ UNCHANGED pages
       ELSE /\ rows' = rows \o Dispatched(a)
            /\ pages' = Paged({a}, enabled)
    /\ saved' = rows'
    /\ raised' = [raised EXCEPT ![a] = @ + 1]
    /\ UNCHANGED <<job, crashes, passedOver>>

\* evaluate_alerts opens an alert.
OpenAlert(a) ==
    /\ job.pc = "idle"
    /\ alert[a].state = "none"
    /\ alert' = [alert EXCEPT ![a] = [@ EXCEPT !.state = "live", !.since = now]]
    /\ Notify(a)
    /\ UNCHANGED worldVars

\* _escalate_alerts: a deliberate re-send; the clock restarts only if it went
\* out.
Escalate(a) ==
    /\ job.pc = "idle"
    /\ EscalateAfter > 0
    /\ alert[a].state = "live"
    /\ now - alert[a].since >= EscalateAfter
    /\ alert' = IF Silenced THEN alert ELSE [alert EXCEPT ![a].since = now]
    /\ Notify(a)
    /\ UNCHANGED worldVars

\* The worker dies between the sends and the commit: the alert is not open
\* (or not re-stamped), no row was written, and the messages have left.
DispatchCrashes(a) ==
    /\ job.pc = "idle"
    /\ \/ alert[a].state = "none"
       \/ alert[a].state = "live" /\ EscalateAfter > 0 /\ now - alert[a].since >= EscalateAfter
    /\ ~Silenced
    /\ pages' = Paged({a}, enabled)
    /\ crashes' = crashes + 1
    /\ UNCHANGED <<worldVars, alert, rows, saved, job, raised, passedOver>>

\* _resolve_stale by the worker between sweeps, or an operator at any time.
ResolveAlert(a) ==
    /\ alert[a].state = "live"
    /\ alert' = [alert EXCEPT ![a].state = "resolved", ![a].resolvedAt = now]
    /\ UNCHANGED <<worldVars, rows, saved, job, historyVars>>

\* _revive_flapping_alert: the same incident again, and nobody is notified.
ReviveAlert(a) ==
    /\ job.pc = "idle"
    /\ alert[a].state = "resolved"
    /\ Cooldown > 0
    /\ alert[a].resolvedAt >= now - Cooldown
    /\ alert' = [alert EXCEPT ![a].state = "live", ![a].resolvedAt = 0]
    /\ UNCHANGED <<worldVars, rows, saved, job, historyVars>>

-----------------------------------------------------------------------------
(* retry_due                                                               *)

\* _due_clause
Due(r, at) == r.status \in Retryable /\ r.next <= at

\* _due_order
Before(i, j) ==
    \/ rows[i].next < rows[j].next
    \/ rows[i].next = rows[j].next /\ i < j

\* ORDER BY _due_order LIMIT BatchLimit
Batch(S) == {i \in S : Cardinality({j \in S : Before(j, i)}) < BatchLimit}

Resolved(r) == alert[r.alert].state = "resolved"

\* Pass 1 closes what is due for resolved alerts, whatever its channel; pass 2
\* fetches the batch something can be done with.
StartRetry ==
    LET stale    == Batch({i \in DOMAIN rows : Due(rows[i], now) /\ Resolved(rows[i])})
        sendable == {i \in DOMAIN rows \ stale :
                        Due(rows[i], now) /\ rows[i].key \in enabled \cup {Unrouted}}
    IN  /\ job.pc = "idle"
        /\ job.at < now
        /\ rows' = [i \in DOMAIN rows |->
                        IF i \in stale THEN Close(rows[i], "resolved") ELSE rows[i]]
        /\ job' = [pc |-> "sweep", at |-> now, chans |-> enabled,
                   todo |-> Batch(sendable), left |-> sendable \ Batch(sendable),
                   stamp |-> {}]
        /\ UNCHANGED <<worldVars, alert, saved, historyVars>>

\* The row of the batch whose turn it is.
Turn(i) == i \in job.todo /\ \A j \in job.todo \ {i} : Before(i, j)

Processed(i) == job' = [job EXCEPT !.todo = @ \ {i}]

\* The alert was resolved since pass 1, or pass 1 hit its limit.
CloseResolved(i) ==
    /\ Turn(i)
    /\ Resolved(rows[i])
    /\ rows' = [rows EXCEPT ![i] = Close(@, "resolved")]
    /\ Processed(i)
    /\ UNCHANGED <<worldVars, alert, saved, historyVars>>

\* One more attempt through the row's own channel.
Resend(i) ==
    /\ Turn(i)
    /\ ~Resolved(rows[i])
    /\ rows[i].key # Unrouted
    /\ rows' = [rows EXCEPT ![i] = ApplyResult(@, rows[i].key, job.at)]
    /\ pages' = Paged({rows[i].alert}, {rows[i].key})
    /\ Processed(i)
    /\ UNCHANGED <<worldVars, alert, saved, raised, crashes, passedOver>>

\* Still owed and still due, behind every row this cycle did not reach.
Owed(r) == [r EXCEPT !.key = Unrouted, !.status = "pending", !.attempts = 0,
                     !.next = job.at]

\* Mutant: a row left owed is left exactly as it was.
KeepOwedUnstamped(i) ==
    /\ Turn(i)
    /\ ~Resolved(rows[i])
    /\ rows[i].key = Unrouted
    /\ job.chans = {}
    /\ rows' = IF job.at - rows[i].created < GiveUp THEN rows
               ELSE [rows EXCEPT ![i] = Close(@, "gave up")]
    /\ Processed(i)
    /\ UNCHANGED <<worldVars, alert, saved, historyVars>>

\* _fan_out_owed without a channel: no attempt is burned until it gives up.
KeepOwed(i) ==
    /\ Turn(i)
    /\ ~Resolved(rows[i])
    /\ rows[i].key = Unrouted
    /\ job.chans = {}
    /\ rows' = [rows EXCEPT ![i] =
                    IF job.at - @.created < GiveUp THEN [@ EXCEPT !.next = job.at]
                    ELSE Close(@, "gave up")]
    /\ Processed(i)
    /\ UNCHANGED <<worldVars, alert, saved, historyVars>>

\* _delivered_after reads the database: sessions do not autoflush, so what
\* this sweep itself delivered is not there yet.
DeliveredAfter(i) ==
    {saved[j].key : j \in {k \in DOMAIN saved : k > i /\
                               saved[k].alert = rows[i].alert /\
                               saved[k].status = "delivered"}}

\* _fan_out_owed with channels: the row becomes the first target's, siblings
\* the others'; if its one target is mute it goes back to owed.
FanOut(i) ==
    LET r       == rows[i]
        targets == SetToSeq(job.chans \ DeliveredAfter(i))
        reached == Range(targets)
        sent(k) == ApplyResult(IF k = 1 THEN [r EXCEPT !.key = targets[1]]
                               ELSE NewRow(r.alert, targets[k], "pending", 0),
                               targets[k], job.at)
        siblings == [k \in 1..Len(targets) - 1 |-> sent(k + 1)]
    IN  /\ Turn(i)
        /\ ~Resolved(r)
        /\ r.key = Unrouted
        /\ job.chans # {}
        /\ CASE targets = <<>> ->
                  /\ rows' = [rows EXCEPT ![i] = Close(@, "superseded")]
                  /\ Processed(i)
                  /\ UNCHANGED pages
             [] targets # <<>> /\ \A c \in reached : health[c] = "mute" ->
                  /\ Len(targets) = 1
                  /\ rows' = [rows EXCEPT ![i] = Owed(@)]
                  /\ Processed(i)
                  /\ UNCHANGED pages
             [] OTHER ->
                  /\ Len(rows) + Len(siblings) <= MaxRows
                  /\ rows' = [rows EXCEPT ![i] = sent(1)] \o siblings
                  /\ pages' = Paged({r.alert}, reached)
                  /\ job' = [job EXCEPT !.todo = @ \ {i}, !.stamp = @ \cup {r.alert}]
        /\ UNCHANGED <<worldVars, alert, saved, raised, crashes, passedOver>>

\* The single commit at the end of a sweep or a flush.
Commit ==
    /\ job.pc \in {"sweep", "commit"}
    /\ job.todo = {}
    /\ saved' = rows
    /\ alert' = [a \in Alerts |-> IF a \in job.stamp
                                  THEN [alert[a] EXCEPT !.since = job.at] ELSE alert[a]]
    /\ passedOver' = [i \in DOMAIN passedOver |->
                        IF job.pc = "commit" THEN passedOver[i]
                        ELSE IF i \in job.left THEN passedOver[i] + 1 ELSE 0]
    /\ job' = [Idle EXCEPT !.at = job.at]
    /\ UNCHANGED <<worldVars, rows, pages, raised, crashes>>

\* What the session wrote is gone, and so are the turns of a sweep: a row it
\* had not reached, or had no room for, was passed over once more.
RollBack ==
    /\ rows' = saved
    /\ job' = [Idle EXCEPT !.at = job.at]
    /\ crashes' = crashes + 1
    /\ passedOver' = [i \in DOMAIN passedOver |->
                        IF job.pc = "sweep" /\ i \in job.todo \cup job.left
                        THEN passedOver[i] + 1 ELSE passedOver[i]]
    /\ UNCHANGED <<worldVars, alert, saved, pages, raised>>

\* _fan_out_owed when each of several targets is mute: the siblings it drops
\* were added and never flushed, Session.delete raises on them, and the sweep
\* is rolled back.  The row is as it was, so while its targets stay mute every
\* sweep that reaches it ends here.
FanOutRaises(i) ==
    LET targets == job.chans \ DeliveredAfter(i)
    IN  /\ Turn(i)
        /\ ~Resolved(rows[i])
        /\ rows[i].key = Unrouted
        /\ Cardinality(targets) > 1
        /\ \A c \in targets : health[c] = "mute"
        /\ RollBack

\* The worker dies or the job raises for a reason outside it.
Crash ==
    /\ job.pc # "idle"
    /\ RollBack

-----------------------------------------------------------------------------
(* flush_deferred                                                          *)

\* Mutant: a digest that no channel refused counts as delivered.
DigestedIfOk(r) ==
    [r EXCEPT !.attempts = @ + 1, !.key = SetToSeq(enabled)[1], !.next = 0,
              !.status = IF \A c \in enabled : health[c] # "down"
                         THEN "delivered" ELSE "skipped"]

\* What the digest leaves in a row it was sent for: one outcome for them all,
\* under the name of the first channel.
Digested(r) ==
    [r EXCEPT !.attempts = @ + 1, !.key = SetToSeq(enabled)[1], !.next = 0,
              !.status = IF \E c \in enabled : health[c] = "up"
                         THEN "delivered" ELSE "skipped"]

\* Held rows whose window has closed leave as one digest; without a channel
\* they become owed.
FlushDeferred ==
    LET due  == {i \in DOMAIN rows : rows[i].status = "deferred" /\ rows[i].next <= now}
        live == {i \in due : ~Resolved(rows[i])}
        told == {rows[i].alert : i \in live}
    IN  /\ job.pc = "idle"
        /\ due # {}
        /\ rows' = [i \in DOMAIN rows |->
                      IF i \in due \ live THEN Close(rows[i], "resolved")
                      ELSE IF i \notin live THEN rows[i]
                      ELSE IF enabled = {}
                           THEN [rows[i] EXCEPT !.key = Unrouted, !.status = "pending",
                                                !.next = 0]
                           ELSE Digested(rows[i])]
        /\ pages' = Paged(told, enabled)
        /\ job' = [Idle EXCEPT !.pc = "commit", !.at = now,
                      !.stamp = IF \E c \in enabled : health[c] = "up"
                                THEN told ELSE {}]
        /\ UNCHANGED <<worldVars, alert, saved, raised, crashes, passedOver>>

-----------------------------------------------------------------------------
(* Operators and the outside world.                                        *)

\* The settings page switches a channel on or off.
ToggleChannel(c) ==
    /\ enabled' = (enabled \ {c}) \cup ({c} \ enabled)
    /\ UNCHANGED <<now, health, window, alert, rows, saved, job, historyVars>>

\* A destination goes down, comes back, or is configured.
ChangeHealth(c) ==
    /\ \E h \in Health \ {health[c]} : health' = [health EXCEPT ![c] = h]
    /\ UNCHANGED <<now, enabled, window, alert, rows, saved, job, historyVars>>

\* A window opens, for evaluate() always with an end in the future.
OpenWindow(kind, ends) ==
    /\ ends > now
    /\ window' = [kind |-> kind, ends |-> ends]
    /\ UNCHANGED <<now, enabled, health, alert, rows, saved, job, historyVars>>

\* An operator deletes or disables the window before it ends.
CloseWindow ==
    /\ window # NoWindow
    /\ window' = NoWindow
    /\ UNCHANGED <<now, enabled, health, alert, rows, saved, job, historyVars>>

Tick ==
    /\ now < MaxTime
    /\ now' = now + 1
    /\ UNCHANGED <<enabled, health, window, alert, rows, saved, job, historyVars>>

AlertNext ==
    \E a \in Alerts : OpenAlert(a) \/ Escalate(a) \/ ResolveAlert(a)

SweepNext ==
    \/ StartRetry \/ FlushDeferred \/ Commit
    \/ \E i \in job.todo :
          CloseResolved(i) \/ Resend(i) \/ KeepOwed(i) \/ FanOut(i) \/ FanOutRaises(i)

CrashNext == Crash \/ \E a \in Alerts : DispatchCrashes(a)

WorldNext ==
    \/ \E c \in Channels : ToggleChannel(c) \/ ChangeHealth(c)
    \/ \E kind \in {"defer", "suppress"}, ends \in 1..MaxTime : OpenWindow(kind, ends)
    \/ CloseWindow

\* Flapping conditions are left to ReviveNext.
DeliveryNext == Tick \/ AlertNext \/ SweepNext \/ CrashNext \/ WorldNext

ReviveNext == \E a \in Alerts : ReviveAlert(a)

Next == DeliveryNext \/ ReviveNext

\* What fires again after it was resolved is another alert.
DeliverySpec == Init /\ [][DeliveryNext]_vars

Spec == Init /\ [][Next]_vars

-----------------------------------------------------------------------------
(* Properties.                                                             *)

\* Settled rows that still answer for their alert: somebody was told, nobody
\* was to be told, or delivery was given up for a cause the operator can see.
Accounts(r) ==
    \/ r.status # "dead"
    \/ r.why \in {"exhausted", "gave up", "superseded"}

\* No live alert is without a row that answers for it, whatever crashed, was
\* held, owed or disabled: "every (alert, channel) send durable".
NothingLost ==
    \A a \in Alerts : alert[a].state = "live" =>
        \E r \in Range(saved) : r.alert = a /\ Accounts(r)

\* A destination receives an alert once per notification raised, and again
\* only because a worker died, or a sweep raised, with sends uncommitted: a
\* crash repeats no more than what was raised before it and what it was raising.
NoDoublePage ==
    \A a \in Alerts, c \in Channels :
        pages[<<a, c>>] <= raised[a] + crashes * (raised[a] + 1)

\* retry_due: "every row a pass touches is left sorting ... behind every row it
\* did not touch": a due row that could be worked on waits out no more
\* successive sweeps than the other rows take, plus one (an owed row re-stamped
\* "now" ties with a row that falls due at that very instant), plus one for each
\* sweep that was rolled back.  Nothing bounds how many those are: see
\* FanOutRaises, and SweepsCommit in the README.
NoStarvation ==
    \A i \in DOMAIN saved :
        passedOver[i] * BatchLimit < Len(saved) + (crashes + 1) * BatchLimit

\* A held alert waits in one row however often it escalates (_record_withheld:
\* "must not stack a second held row"), and an owed or held row never carries
\* the count of attempts of an earlier life.
HeldOnce ==
    /\ \A a \in Alerts : Cardinality(Held(a)) <= 1
    /\ \A r \in Range(rows) : r.key \in {Unrouted, Withheld} /\ r.status # "dead" => r.attempts = 0

\* What waits waits in one row and is passed over for rows ahead of it or for a
\* rolled-back sweep only, whatever is held, owed or escalated meanwhile
\* (retry_due, _record_withheld).
TurnsCome == NoStarvation /\ HeldOnce

\* A failing channel never settles a notification: while every enabled channel
\* is down a row is not marked delivered or skipped, and it dies only of its
\* attempts (module docstring: "failures are scheduled for an
\* exponential-backoff retry").
OutageNeverSettles ==
    [][(enabled # {} /\ \A c \in enabled : health[c] = "down") =>
          \A i \in DOMAIN rows :
              rows[i].status \notin Terminal /\ rows'[i].status \in Terminal =>
                  rows'[i].status = "dead"]_vars

\* The committed rows are a durable outbox: final rows stay final across
\* retries, fan-outs, digests and crashes, and only what was transmitted is
\* recorded as sent.
Stage(r) ==
    CASE r.status = "delivered" -> "sent"
      [] r.status \in {"skipped", "dead"} -> "closed"
      [] OTHER -> "open"

Heard(r) == \E c \in Channels : pages[<<r.alert, c>>] > 0

Outbox == INSTANCE DurableOutbox WITH
            Rows  <- 1..MaxRows,
            log   <- [i \in 1..MaxRows |->
                        IF i \in DOMAIN saved THEN Stage(saved[i]) ELSE "absent"],
            heard <- {i \in DOMAIN saved : Heard(saved[i])}

ImplementsOutbox == Outbox!Spec
=============================================================================
