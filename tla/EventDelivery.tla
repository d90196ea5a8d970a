---------------------------- MODULE EventDelivery ----------------------------
(***************************************************************************)
(* The outbound event bus: emit's fan-out (central/events/emit.py), the    *)
(* sweep that POSTs and prunes (central/events/delivery.py) and the        *)
(* operator's edits of a subscription (central/dashboard/events_routes.py).*)
(*                                                                         *)
(* An event is its idempotency key: the table holds each key once.  The    *)
(* sweep works in one database session: a subscription it has sent to is   *)
(* dirty, so the session keeps its copy until the commit at the end        *)
(* (cached), and the commit fails if a row it changed was deleted          *)
(* meanwhile.                                                              *)
(***************************************************************************)
EXTENDS Integers, Sequences, FiniteSets, SequencesExt, FiniteSetsExt

CONSTANTS
    Facts,          \* idempotency keys
    Clients,
    Global,         \* SQL NULL in a client_id column
    Types,          \* the event catalogue
    Subscriptions,  \* ids of event_subscriptions, in id order
    BatchLimit,     \* BATCH_LIMIT
    MaxAttempts,    \* events.max_attempts
    Base,           \* events.retry_base_seconds
    BackoffCap,     \* _BACKOFF_CAP_SECONDS
    Retention,      \* events.retention_days; 0 keeps everything
    MaxTime         \* bound: the clock stops here

ASSUME EventAssumption ==
    /\ Global \notin Clients
    /\ Types # {}
    /\ Subscriptions \subseteq Nat
    /\ BatchLimit \in Nat \ {0}
    /\ MaxAttempts \in Nat \ {0}
    /\ Base \in Nat \ {0}
    /\ BackoffCap \in Nat \ {0}
    /\ Retention \in Nat
    /\ MaxTime \in Nat \ {0}

VARIABLES
    now,
    switchedOn,     \* events.enabled
    subs,           \* event_subscriptions
    health,         \* whether a POST to the subscription's URL is answered 2xx
    order,          \* the outbound_events ever written, in id order
    event,          \* outbound_events: client, type and created_at of a fact
    rows,           \* event_deliveries as the sweep's session sees it
    saved,          \* event_deliveries as committed
    job,            \* where the worker is in deliver_due
    posts,          \* history: POSTs answered 2xx per row
    rollbacks,      \* history: sweeps that lost what they had recorded
    passedOver      \* history: committed sweeps in succession that left a due row out

worldVars   == <<now, switchedOn, subs, health>>
eventVars   == <<order, event>>
historyVars == <<posts, rollbacks, passedOver>>
vars == <<worldVars, eventVars, rows, saved, job, historyVars>>

Scopes == Clients \cup {Global}
Rows   == Facts \X Subscriptions

\* Mutant: whatever is not dead is fetched.
RetryableUnlessDead == {"pending", "failed", "delivered"}

Retryable == {"pending", "failed"}
Terminal  == {"delivered", "skipped", "dead"}
Statuses  == Retryable \cup Terminal \cup {"absent", "gone"}

Absent == [status |-> "absent", attempts |-> 0, next |-> 0]
Gone   == [status |-> "gone", attempts |-> 0, next |-> 0]
Queued == [status |-> "pending", attempts |-> 0, next |-> 0]

NoEvent == [stored |-> FALSE, client |-> Global, type |-> CHOOSE t \in Types : TRUE,
            created |-> 0]

SubRecords == [exists : BOOLEAN, enabled : BOOLEAN, scope : Scopes,
               types : SUBSET Types]

\* Copies of subscriptions, of some of them.
Copies == UNION {[S -> SubRecords] : S \in SUBSET Subscriptions}

\* scopes is history: what each subscription was scoped to since the sweep began.
Jobs == [pc : {"idle", "sweep"}, at : Nat, todo : SUBSET Rows, left : SUBSET Rows,
         cached : Copies, touched : SUBSET Rows,
         scopes : [Subscriptions -> SUBSET Scopes]]

Idle == [pc |-> "idle", at |-> 0, todo |-> {}, left |-> {}, cached |-> <<>>,
         touched |-> {}, scopes |-> [s \in Subscriptions |-> {}]]

Row == [status : Statuses, attempts : 0..MaxAttempts, next : Nat]

TypeOK ==
    /\ now \in Nat \ {0}
    /\ switchedOn \in BOOLEAN
    /\ subs \in [Subscriptions -> SubRecords]
    /\ health \in [Subscriptions -> {"up", "down"}]
    /\ order \in Seq(Facts)
    /\ event \in [Facts -> [stored : BOOLEAN, client : Scopes, type : Types,
                            created : Nat]]
    /\ rows \in [Rows -> Row]
    /\ saved \in [Rows -> Row]
    /\ job \in Jobs
    /\ posts \in [Rows -> Nat]
    /\ rollbacks \in Nat
    /\ passedOver \in [Rows -> Nat]

Init ==
    /\ now = 1
    /\ switchedOn = TRUE
    /\ subs \in [Subscriptions -> {s \in SubRecords : s.exists /\ s.enabled /\ s.types # {}}]
    /\ health \in [Subscriptions -> {"up", "down"}]
    /\ order = <<>>
    /\ event = [f \in Facts |-> NoEvent]
    /\ rows = [r \in Rows |-> Absent]
    /\ saved = rows
    /\ job = Idle
    /\ posts = [r \in Rows |-> 0]
    /\ rollbacks = 0
    /\ passedOver = [r \in Rows |-> 0]

-----------------------------------------------------------------------------
(* emit                                                                    *)

\* scope_allows: a client's subscription gets that client's events only; an
\* event of no client goes to global subscriptions.
ScopeAllows(sub, client) ==
    sub.scope = Global \/ (client # Global /\ sub.scope = client)

\* wants_type; an empty filter wants every type.
WantsType(sub, type) == sub.types = {} \/ type \in sub.types

\* subscriptions_for
SubscriptionsFor(type, client) ==
    {s \in Subscriptions : /\ subs[s].exists /\ subs[s].enabled
                           /\ ScopeAllows(subs[s], client)
                           /\ WantsType(subs[s], type)}

\* emit, in a transaction of the caller's that commits; a key already in the
\* table emits nothing.  Bound: a key that prune removed is not emitted again.
Emit(f, client, type) ==
    LET queue(table) ==
            [r \in Rows |-> IF r[1] = f
                            THEN IF r[2] \in SubscriptionsFor(type, client)
                                 THEN Queued ELSE Absent
                            ELSE table[r]]
    IN  /\ ~event[f].stored
        /\ f \notin Range(order)
        /\ order' = Append(order, f)
        /\ event' = [event EXCEPT ![f] = [stored |-> TRUE, client |-> client,
                                          type |-> type, created |-> now]]
        /\ rows' = queue(rows)
        /\ saved' = queue(saved)
        /\ UNCHANGED <<worldVars, job, historyVars>>

-----------------------------------------------------------------------------
(* deliver_due                                                             *)

\* backoff_delay
Delay(n) ==
    LET exponent == IF n - 1 > 20 THEN 20 ELSE n - 1
        delay    == Base * 2 ^ exponent
    IN  IF delay < BackoffCap THEN delay ELSE BackoffCap

Due(r, at) == rows[r].status \in Retryable /\ rows[r].next <= at

\* Rows are numbered in the order emit wrote them.
Before(q, r) ==
    LET place(f) == CHOOSE i \in DOMAIN order : order[i] = f
    IN  place(q[1]) < place(r[1]) \/ (q[1] = r[1] /\ q[2] < r[2])

\* _due: ORDER BY id LIMIT BatchLimit, whatever becomes of the rows.
Batch(S) == {r \in S : Cardinality({q \in S : Before(q, r)}) < BatchLimit}

StartSweep ==
    LET due == {r \in Rows : Due(r, now)}
    IN  /\ job.pc = "idle"
        /\ job.at < now
        /\ switchedOn
        /\ job' = [Idle EXCEPT !.pc = "sweep", !.at = now, !.todo = Batch(due),
                       !.left = {r \in due \ Batch(due) : subs[r[2]].enabled},
                       !.scopes = [s \in Subscriptions |-> {subs[s].scope}]]
        /\ UNCHANGED <<worldVars, eventVars, rows, saved, historyVars>>

Turn(r) == r \in job.todo /\ \A q \in job.todo \ {r} : Before(r, q)

\* db.get: the session's own copy of a subscription it has written to.
Loaded(s) == IF s \in DOMAIN job.cached THEN job.cached[s] ELSE subs[s]

Settled(r, status) ==
    /\ rows' = [rows EXCEPT ![r].status = status, ![r].next = 0]
    /\ job' = [job EXCEPT !.todo = @ \ {r}, !.touched = @ \cup {r}]

\* A disabled subscription: the row is left untouched.
LeaveQueued(r) ==
    /\ Turn(r)
    /\ Loaded(r[2]).exists
    /\ ~Loaded(r[2]).enabled
    /\ job' = [job EXCEPT !.todo = @ \ {r}]
    /\ UNCHANGED <<worldVars, eventVars, rows, saved, historyVars>>

\* The tenancy re-check (re-scoped since the row was queued), and orphans.
Refuse(r) ==
    LET sub == Loaded(r[2]) IN
    /\ Turn(r)
    /\ \/ ~sub.exists \/ ~event[r[1]].stored
       \/ sub.enabled /\ ~ScopeAllows(sub, event[r[1]].client)
    /\ Settled(r, "dead")
    /\ UNCHANGED <<worldVars, eventVars, saved, historyVars>>

\* Mutant: what is unwanted is booked as delivered.
UnwantedDelivered(r) ==
    LET sub == Loaded(r[2]) IN
    /\ Turn(r)
    /\ sub.exists /\ sub.enabled
    /\ ScopeAllows(sub, event[r[1]].client)
    /\ ~WantsType(sub, event[r[1]].type)
    /\ Settled(r, "delivered")
    /\ UNCHANGED <<worldVars, eventVars, saved, historyVars>>

\* The type filter narrowed since.
Unwanted(r) ==
    LET sub == Loaded(r[2]) IN
    /\ Turn(r)
    /\ sub.exists /\ sub.enabled
    /\ ScopeAllows(sub, event[r[1]].client)
    /\ ~WantsType(sub, event[r[1]].type)
    /\ Settled(r, "skipped")
    /\ UNCHANGED <<worldVars, eventVars, saved, historyVars>>

\* Mutant: the cap is compared before the attempt is counted.
ApplyResultLateCap(row, ok, at) ==
    LET n == row.attempts + 1
    IN  CASE ok -> [status |-> "delivered", attempts |-> n, next |-> 0]
          [] ~ok /\ n > MaxAttempts -> [status |-> "dead", attempts |-> n, next |-> 0]
          [] OTHER -> [status |-> "failed", attempts |-> n, next |-> at + Delay(n)]

\* _apply_result for a POST.
ApplyResult(row, ok, at) ==
    LET n == row.attempts + 1
    IN  CASE ok -> [status |-> "delivered", attempts |-> n, next |-> 0]
          [] ~ok /\ n >= MaxAttempts -> [status |-> "dead", attempts |-> n, next |-> 0]
          [] OTHER -> [status |-> "failed", attempts |-> n, next |-> at + Delay(n)]

\* Mutant: scope was checked when the row was queued.
SendUnchecked(r) ==
    LET ok == health[r[2]] = "up"
    IN  /\ Turn(r)
        /\ Loaded(r[2]).exists /\ Loaded(r[2]).enabled
        /\ rows' = [rows EXCEPT ![r] = ApplyResult(@, ok, job.at)]
        /\ posts' = IF ok THEN [posts EXCEPT ![r] = @ + 1] ELSE posts
        /\ job' = [job EXCEPT !.todo = @ \ {r}, !.touched = @ \cup {r}]
        /\ UNCHANGED <<worldVars, eventVars, saved, rollbacks, passedOver>>

\* send_one, and _stamp, which makes the session hold on to its copy.
Send(r) ==
    LET sub == Loaded(r[2])
        ok  == health[r[2]] = "up"
    IN  /\ Turn(r)
        /\ sub.exists /\ sub.enabled
        /\ ScopeAllows(sub, event[r[1]].client)
        /\ WantsType(sub, event[r[1]].type)
        /\ rows' = [rows EXCEPT ![r] = ApplyResult(@, ok, job.at)]
        /\ posts' = IF ok THEN [posts EXCEPT ![r] = @ + 1] ELSE posts
        /\ job' = [job EXCEPT !.todo = @ \ {r}, !.touched = @ \cup {r},
                       !.cached = [s \in DOMAIN @ \cup {r[2]} |-> Loaded(s)]]
        /\ UNCHANGED <<worldVars, eventVars, saved, rollbacks, passedOver>>

\* prune: events past retention none of whose deliveries is live in the
\* database, where this sweep's outcomes are not yet written.
Prunable(f) ==
    /\ Retention > 0
    /\ event[f].stored
    /\ event[f].created < job.at - Retention
    /\ \A s \in Subscriptions : saved[<<f, s>>].status \notin Retryable

Deleted(r) == saved[r].status = "gone"

\* The end of deliver_due: prune, then the single commit.
CommitSweep ==
    /\ job.pc = "sweep"
    /\ job.todo = {}
    /\ \A r \in job.touched : ~Deleted(r)
    /\ \A s \in DOMAIN job.cached : subs[s].exists
    /\ rows' = [r \in Rows |->
                   IF Prunable(r[1]) /\ rows[r].status # "absent" THEN Gone
                   ELSE IF Deleted(r) THEN Gone ELSE rows[r]]
    /\ saved' = rows'
    /\ event' = [f \in Facts |-> IF Prunable(f) THEN NoEvent ELSE event[f]]
    /\ passedOver' = [r \in Rows |-> IF r \in job.left THEN passedOver[r] + 1 ELSE 0]
    /\ job' = [Idle EXCEPT !.at = job.at]
    /\ UNCHANGED <<worldVars, order, posts, rollbacks>>

\* A crash, or a commit that misses a row an operator deleted: every outcome
\* of the sweep is rolled back.
RollBack ==
    /\ job.pc = "sweep"
    /\ rows' = saved
    /\ job' = [Idle EXCEPT !.at = job.at]
    /\ rollbacks' = rollbacks + 1
    /\ UNCHANGED <<worldVars, eventVars, saved, posts, passedOver>>

-----------------------------------------------------------------------------
(* Operators and destinations.                                             *)

ToggleSubscription(s) ==
    /\ subs[s].exists
    /\ subs' = [subs EXCEPT ![s].enabled = ~@]
    /\ UNCHANGED <<now, switchedOn, health, eventVars, rows, saved, job, historyVars>>

\* update_subscription: another scope, another type filter.
UpdateSubscription(s, scope, types) ==
    /\ subs[s].exists
    /\ types # {}
    /\ subs' = [subs EXCEPT ![s].scope = scope, ![s].types = types]
    /\ job' = IF job.pc = "idle" THEN job ELSE [job EXCEPT !.scopes[s] = @ \cup {scope}]
    /\ UNCHANGED <<now, switchedOn, health, eventVars, rows, saved, historyVars>>

\* delete_subscription deletes its queue explicitly.
DeleteSubscription(s) ==
    /\ subs[s].exists
    /\ subs' = [subs EXCEPT ![s].exists = FALSE]
    /\ saved' = [r \in Rows |-> IF r[2] = s /\ saved[r].status # "absent"
                                THEN Gone ELSE saved[r]]
    /\ rows' = IF job.pc = "idle" THEN saved' ELSE rows
    /\ UNCHANGED <<now, switchedOn, health, eventVars, job, historyVars>>

ToggleBus ==
    /\ switchedOn' = ~switchedOn
    /\ UNCHANGED <<now, subs, health, eventVars, rows, saved, job, historyVars>>

ChangeHealth(s) ==
    /\ health' = [health EXCEPT ![s] = IF @ = "up" THEN "down" ELSE "up"]
    /\ UNCHANGED <<now, switchedOn, subs, eventVars, rows, saved, job, historyVars>>

Tick ==
    /\ now < MaxTime
    /\ now' = now + 1
    /\ UNCHANGED <<switchedOn, subs, health, eventVars, rows, saved, job, historyVars>>

EmitNext == \E f \in Facts, c \in Scopes, t \in Types : Emit(f, c, t)

SweepNext ==
    \/ StartSweep \/ CommitSweep
    \/ \E r \in job.todo : LeaveQueued(r) \/ Refuse(r) \/ Unwanted(r) \/ Send(r)

EditNext ==
    \/ \E s \in Subscriptions :
          \/ DeleteSubscription(s) \/ ChangeHealth(s)
          \/ \E scope \in Scopes, types \in SUBSET Types : UpdateSubscription(s, scope, types)
    \/ ToggleBus

ToggleNext == \E s \in Subscriptions : ToggleSubscription(s)

Next == Tick \/ EmitNext \/ SweepNext \/ RollBack \/ EditNext \/ ToggleNext
Spec == Init /\ [][Next]_vars

-----------------------------------------------------------------------------
(* Properties.                                                             *)

\* Tenancy: an event reaches a subscription only if a scope allowed it that the
\* subscription had while the sweep was under way, however many times it was
\* re-scoped since the row was queued.  The session keeps the copy it read, so
\* a re-scoping during the sweep may count from the next one only.
TenancyKept ==
    [][\A r \in Rows : posts'[r] > posts[r] =>
          \E scope \in job.scopes[r[2]] :
              ScopeAllows([scope |-> scope], event[r[1]].client)]_vars

\* "A success is never double-sent": a subscriber gets an event again only if a
\* sweep lost what it had recorded.
NoDoublePost == \A r \in Rows : posts[r] <= 1 + rollbacks

\* A backlog against one destination does not keep another's rows from being
\* attempted: a row is left out of no more sweeps than the attempts the rows
\* before it may use up ("the queue behind it belongs to other subscribers").
NoStarvation ==
    \A r \in Rows :
        saved[r].status \in Retryable =>
            passedOver[r] * BatchLimit <=
                MaxAttempts * Cardinality({q \in Rows : saved[q].status # "absent" /\ Before(q, r)})

\* prune never costs a subscriber an event still owed to it, however long the
\* backlog outlives retention: a queued row goes only with its subscription.
BacklogKeepsEvent ==
    [][\A r \in Rows :
          saved[r].status \in Retryable /\ saved'[r].status = "gone"
              => ~subs'[r[2]].exists]_vars

\* An event owed to a subscription stays owed to it, and reaches no other
\* customer's, through re-scoping and pruning (deliver_due, prune).
EventsKept == TenancyKept /\ BacklogKeepsEvent

Stage(row) ==
    CASE row.status \in Retryable -> "open"
      [] row.status = "delivered" -> "sent"
      [] row.status \in {"skipped", "dead"} -> "closed"
      [] OTHER -> row.status

Outbox == INSTANCE DurableOutbox WITH
            log   <- [r \in Rows |-> Stage(saved[r])],
            heard <- {r \in Rows : posts[r] > 0}

\* The event bus keeps the same promise as the notification queue it shares
\* its retry policy with.
ImplementsOutbox == Outbox!Spec
=============================================================================
