------------------------- MODULE EventDeliveryProofs -------------------------
(***************************************************************************)
(* The event bus keeps what it has committed: type correctness of          *)
(* EventDelivery, that a POST is repeated only by a sweep that lost its    *)
(* record of it, that re-scoping and pruning cost no subscriber an event   *)
(* and show none to another customer, and that the committed rows are a    *)
(* DurableOutbox.  All of it holds under every edit operators can make     *)
(* while a sweep is under way, and for any batch limit, retry policy,      *)
(* retention and set of subscriptions.                                     *)
(***************************************************************************)
EXTENDS EventDelivery, SequencesExt, TLAPS

USE DEF Rows, Retryable, Terminal, Statuses

-----------------------------------------------------------------------------
(* Facts about numbers and sequences that the proofs below cite.           *)

\* The powers that the queues' capped exponent reaches.
LEMMA PowersOfTwo ==
    ASSUME NEW n \in 0..20
    PROVE  2 ^ n \in Nat
<1>1. /\ 2^0 \in Nat /\ 2^1 \in Nat /\ 2^2 \in Nat /\ 2^3 \in Nat
      /\ 2^4 \in Nat /\ 2^5 \in Nat /\ 2^6 \in Nat /\ 2^7 \in Nat
      /\ 2^8 \in Nat /\ 2^9 \in Nat /\ 2^10 \in Nat /\ 2^11 \in Nat
      /\ 2^12 \in Nat /\ 2^13 \in Nat /\ 2^14 \in Nat /\ 2^15 \in Nat
      /\ 2^16 \in Nat /\ 2^17 \in Nat /\ 2^18 \in Nat /\ 2^19 \in Nat
      /\ 2^20 \in Nat
    BY SMT
<1>2. \/ n = 0 \/ n = 1 \/ n = 2 \/ n = 3 \/ n = 4 \/ n = 5 \/ n = 6 \/ n = 7
      \/ n = 8 \/ n = 9 \/ n = 10 \/ n = 11 \/ n = 12 \/ n = 13 \/ n = 14
      \/ n = 15 \/ n = 16 \/ n = 17 \/ n = 18 \/ n = 19 \/ n = 20
    BY SMT
<1> QED
    BY <1>1, <1>2, Zenon

\* What an Append adds to the range.
LEMMA RangeAppend ==
    ASSUME NEW S, NEW s \in Seq(S), NEW e \in S
    PROVE  Range(Append(s, e)) = Range(s) \cup {e}
<1>1. /\ DOMAIN Append(s, e) = 1..Len(s) + 1
      /\ DOMAIN s = 1..Len(s)
      /\ Len(s) \in Nat
    OBVIOUS
<1>2. \A i \in 1..Len(s) : Append(s, e)[i] = s[i]
    OBVIOUS
<1>3. Append(s, e)[Len(s) + 1] = e
    OBVIOUS
<1> QED
    BY <1>1, <1>2, <1>3 DEF Range

-----------------------------------------------------------------------------
(* The inductive invariant.                                                *)

\* An event that was never emitted has no rows.
UnsentHaveNoRows ==
    \A r \in Rows : r[1] \notin Range(order) =>
        rows[r].status = "absent" /\ saved[r].status = "absent"

\* Between sweeps the session sees what is committed.
AtRest == job.pc = "idle" => rows = saved /\ job.todo = {}

\* What the sweep has yet to treat is as it was fetched.
InHand == \A r \in job.todo : rows[r].status \in Retryable

\* The session neither loses a row by itself nor touches a settled one.
SessionHonest ==
    \A r \in Rows :
        /\ rows[r].status = "gone" => saved[r].status = "gone"
        /\ saved[r].status \in Terminal => rows[r].status = saved[r].status

\* A row the session sees open is not posted yet, but for sweeps that were lost.
PostsCounted ==
    \A r \in Rows :
        /\ posts[r] <= 1 + rollbacks
        /\ rows[r].status \in Retryable \cup {"absent"} => posts[r] <= rollbacks

\* An open row has attempts left.
AttemptsLeft ==
    \A r \in Rows : /\ rows[r].status \in Retryable => rows[r].attempts < MaxAttempts
                    /\ saved[r].status \in Retryable => saved[r].attempts < MaxAttempts

\* Only a POST that was answered makes a row delivered.
DeliveredWasPosted ==
    \A r \in Rows : "delivered" \in {rows[r].status, saved[r].status} => posts[r] > 0

\* Whatever copy of a subscription the sweep uses, it is of its own time.
CopiesCurrent ==
    job.pc = "sweep" =>
        \A s \in Subscriptions :
            /\ subs[s].scope \in job.scopes[s]
            /\ s \in DOMAIN job.cached => job.cached[s].scope \in job.scopes[s]

QueueInv ==
    /\ UnsentHaveNoRows /\ AtRest /\ InHand /\ SessionHonest
    /\ AttemptsLeft /\ PostsCounted /\ DeliveredWasPosted /\ CopiesCurrent

-----------------------------------------------------------------------------
(* Facts about the operators.                                              *)

\* A retry is scheduled at a time, however many attempts were made.
LEMMA DelayType ==
    ASSUME NEW n \in Nat \ {0}
    PROVE  Delay(n) \in Nat
<1> DEFINE exponent == IF n - 1 > 20 THEN 20 ELSE n - 1
           power    == 2 ^ exponent
<1>1. exponent \in 0..20
    BY SMT
<1>2. power \in Nat
    BY <1>1, PowersOfTwo
<1>3. Base \in Nat /\ BackoffCap \in Nat
    BY EventAssumption
<1> HIDE DEF power
<1>4. Base * power \in Nat
    BY <1>2, <1>3
<1>5. Delay(n) = IF Base * power < BackoffCap THEN Base * power ELSE BackoffCap
    BY DEF Delay, power
<1> QED
    BY <1>3, <1>4, <1>5

\* What a POST makes of a row that has attempts left.
LEMMA ApplyResultType ==
    ASSUME NEW row \in Row, row.attempts < MaxAttempts, NEW ok \in BOOLEAN, NEW at \in Nat
    PROVE  /\ ApplyResult(row, ok, at) \in Row
           /\ ApplyResult(row, ok, at).status \in {"delivered", "dead", "failed"}
           /\ ApplyResult(row, ok, at).status = "delivered" <=> ok
           /\ ApplyResult(row, ok, at).status = "failed" =>
                  ApplyResult(row, ok, at).attempts < MaxAttempts
<1> DEFINE n == row.attempts + 1
<1>1. n \in Nat \ {0} /\ n \in 0..MaxAttempts /\ MaxAttempts \in Nat
    BY EventAssumption DEF Row
<1>2. at + Delay(n) \in Nat
    BY <1>1, DelayType
<1>3. CASE ok
    BY <1>1, <1>3 DEF ApplyResult, Row
<1>4. CASE ~ok /\ n >= MaxAttempts
    BY <1>1, <1>4 DEF ApplyResult, Row
<1>5. CASE ~ok /\ n < MaxAttempts
    <2>1. ApplyResult(row, ok, at) = [status |-> "failed", attempts |-> n, next |-> at + Delay(n)]
        BY <1>1, <1>5 DEF ApplyResult
    <2> QED
        BY <1>1, <1>2, <1>5, <2>1 DEF Row
<1> QED
    BY <1>1, <1>3, <1>4, <1>5

-----------------------------------------------------------------------------
(* Type correctness.                                                       *)

USE DEF worldVars, eventVars, historyVars

LEMMA RowConstants ==
    /\ Absent \in Row /\ Gone \in Row /\ Queued \in Row
    /\ NoEvent \in [stored : BOOLEAN, client : Scopes, type : Types, created : Nat]
    /\ Idle \in Jobs
<1>1. Absent \in Row /\ Gone \in Row /\ Queued \in Row
    BY EventAssumption DEF Absent, Gone, Queued, Row
<1>2. (CHOOSE t \in Types : TRUE) \in Types
    BY EventAssumption
<1>3. NoEvent \in [stored : BOOLEAN, client : Scopes, type : Types, created : Nat]
    BY <1>2 DEF NoEvent, Scopes
<1>4. <<>> \in Copies
    BY DEF Copies
<1>5. Idle \in Jobs
    BY <1>4 DEF Idle, Jobs
<1> QED
    BY <1>1, <1>3, <1>5

\* The session's copy of a subscription is a subscription's record.
LEMMA LoadedType ==
    ASSUME TypeOK, NEW s \in Subscriptions
    PROVE  Loaded(s) \in SubRecords
<1>1. job.cached \in Copies
    BY DEF TypeOK, Jobs
<1>2. PICK S \in SUBSET Subscriptions : job.cached \in [S -> SubRecords]
    BY <1>1 DEF Copies
<1> QED
    BY <1>2 DEF Loaded, TypeOK

\* Holding on to one more copy.
LEMMA CopyKept ==
    ASSUME TypeOK, NEW s \in Subscriptions
    PROVE  [q \in DOMAIN job.cached \cup {s} |-> Loaded(q)] \in Copies
<1>1. job.cached \in Copies
    BY DEF TypeOK, Jobs
<1>2. PICK S \in SUBSET Subscriptions : job.cached \in [S -> SubRecords]
    BY <1>1 DEF Copies
<1>3. DOMAIN job.cached \cup {s} \in SUBSET Subscriptions
    BY <1>2
<1>4. \A q \in DOMAIN job.cached \cup {s} : Loaded(q) \in SubRecords
    BY <1>3, LoadedType
<1>5. [q \in DOMAIN job.cached \cup {s} |-> Loaded(q)]
          \in [DOMAIN job.cached \cup {s} -> SubRecords]
    BY <1>4
<1> QED
    BY <1>3, <1>5 DEF Copies

LEMMA TypeInit == Init => TypeOK
<1> SUFFICES ASSUME Init PROVE TypeOK
    OBVIOUS
<1>1. subs \in [Subscriptions -> SubRecords]
    BY DEF Init
<1>2. order \in Seq(Facts)
    BY DEF Init
<1>3. rows \in [Rows -> Row] /\ saved \in [Rows -> Row]
    BY RowConstants DEF Init
<1>4. event \in [Facts -> [stored : BOOLEAN, client : Scopes, type : Types, created : Nat]]
    BY RowConstants DEF Init
<1>5. job \in Jobs
    BY RowConstants DEF Init
<1> QED
    BY <1>1, <1>2, <1>3, <1>4, <1>5 DEF Init, TypeOK

\* Settling a row without a POST.
LEMMA SettledType ==
    ASSUME TypeOK, NEW r \in job.todo, NEW status \in Terminal, Settled(r, status)
    PROVE  rows' \in [Rows -> Row] /\ job' \in Jobs
<1>1. r \in Rows
    BY DEF TypeOK, Jobs
<1>2. rows' = [rows EXCEPT ![r] = [rows[r] EXCEPT !.status = status, !.next = 0]]
    BY <1>1 DEF Settled, TypeOK, Row
<1>3. [rows[r] EXCEPT !.status = status, !.next = 0] \in Row
    <2>1. rows[r] \in Row
        BY <1>1 DEF TypeOK
    <2>2. status \in Statuses
        OBVIOUS
    <2> QED
        BY <2>1, <2>2 DEF Row
<1>4. job' \in Jobs
    BY <1>1 DEF Settled, TypeOK, Jobs
<1> QED
    BY <1>1, <1>2, <1>3, <1>4 DEF TypeOK

LEMMA TypeStep == TypeOK /\ QueueInv /\ [Next]_vars => TypeOK'
<1> SUFFICES ASSUME TypeOK, QueueInv, [Next]_vars PROVE TypeOK'
    OBVIOUS
<1>1. CASE Tick
    BY <1>1 DEF Tick, TypeOK
<1>2. ASSUME NEW f \in Facts, NEW c \in Scopes, NEW t \in Types, Emit(f, c, t) PROVE TypeOK'
    <2>1. order' \in Seq(Facts)
        BY <1>2 DEF Emit, TypeOK
    <2>2. event' \in [Facts -> [stored : BOOLEAN, client : Scopes, type : Types,
                                created : Nat]]
        BY <1>2 DEF Emit, TypeOK
    <2>3. rows' \in [Rows -> Row] /\ saved' \in [Rows -> Row]
        BY <1>2, RowConstants DEF Emit, TypeOK
    <2> QED
        BY <1>2, <2>1, <2>2, <2>3 DEF Emit, TypeOK
<1>3. CASE StartSweep
    <2> DEFINE due == {r \in Rows : Due(r, now)}
    <2>1. Batch(due) \subseteq Rows
        BY DEF Batch
    <2>2. [s \in Subscriptions |-> {subs[s].scope}] \in [Subscriptions -> SUBSET Scopes]
        BY DEF TypeOK, SubRecords
    <2>3. job' \in Jobs
        BY <1>3, <2>1, <2>2, RowConstants DEF StartSweep, Jobs, Idle, TypeOK
    <2> QED
        BY <1>3, <2>3 DEF StartSweep, TypeOK
<1>4. CASE CommitSweep
    <2>1. rows' \in [Rows -> Row] /\ saved' \in [Rows -> Row]
        BY <1>4, RowConstants DEF CommitSweep, TypeOK
    <2>2. event' \in [Facts -> [stored : BOOLEAN, client : Scopes, type : Types,
                                created : Nat]]
        BY <1>4, RowConstants DEF CommitSweep, TypeOK
    <2>3. job' \in Jobs
        BY <1>4, RowConstants DEF CommitSweep, TypeOK, Jobs, Idle
    <2>4. passedOver' \in [Rows -> Nat]
        BY <1>4 DEF CommitSweep, TypeOK
    <2> QED
        BY <1>4, <2>1, <2>2, <2>3, <2>4 DEF CommitSweep, TypeOK
<1>5. ASSUME NEW r \in job.todo, LeaveQueued(r) PROVE TypeOK'
    BY <1>5 DEF LeaveQueued, TypeOK, Jobs
<1>6. ASSUME NEW r \in job.todo, Refuse(r) PROVE TypeOK'
    <2>1. rows' \in [Rows -> Row] /\ job' \in Jobs
        BY <1>6, SettledType DEF Refuse
    <2> QED
        BY <1>6, <2>1 DEF Refuse, TypeOK
<1>7. ASSUME NEW r \in job.todo, Unwanted(r) PROVE TypeOK'
    <2>1. rows' \in [Rows -> Row] /\ job' \in Jobs
        BY <1>7, SettledType DEF Unwanted
    <2> QED
        BY <1>7, <2>1 DEF Unwanted, TypeOK
<1>8. ASSUME NEW r \in job.todo, Send(r) PROVE TypeOK'
    <2> DEFINE ok == health[r[2]] = "up"
    <2>1. r \in Rows /\ rows[r] \in Row /\ job.at \in Nat
        BY DEF TypeOK, Jobs
    <2>2. rows[r].attempts < MaxAttempts
        BY <2>1 DEF QueueInv, InHand, AttemptsLeft
    <2>3. ApplyResult(rows[r], ok, job.at) \in Row
        BY <2>1, <2>2, ApplyResultType
    <2>4. rows' \in [Rows -> Row]
        BY <1>8, <2>1, <2>3 DEF Send, TypeOK
    <2>5. [s \in DOMAIN job.cached \cup {r[2]} |-> Loaded(s)] \in Copies
        BY <2>1, CopyKept
    <2>6. job' \in Jobs
        BY <1>8, <2>1, <2>5 DEF Send, TypeOK, Jobs
    <2>7. posts' \in [Rows -> Nat]
        BY <1>8, <2>1 DEF Send, TypeOK
    <2> QED
        BY <1>8, <2>4, <2>6, <2>7 DEF Send, TypeOK
<1>9. CASE RollBack
    <2>1. job' \in Jobs
        BY <1>9, RowConstants DEF RollBack, TypeOK, Jobs, Idle
    <2> QED
        BY <1>9, <2>1 DEF RollBack, TypeOK
<1>10. ASSUME NEW s \in Subscriptions, DeleteSubscription(s) PROVE TypeOK'
    BY <1>10, RowConstants DEF DeleteSubscription, TypeOK, SubRecords
<1>11. ASSUME NEW s \in Subscriptions, ChangeHealth(s) PROVE TypeOK'
    BY <1>11 DEF ChangeHealth, TypeOK
<1>12. ASSUME NEW s \in Subscriptions, NEW scope \in Scopes, NEW types \in SUBSET Types,
              UpdateSubscription(s, scope, types)
       PROVE  TypeOK'
    <2>1. subs' \in [Subscriptions -> SubRecords]
        BY <1>12 DEF UpdateSubscription, TypeOK, SubRecords
    <2>2. [job.scopes EXCEPT ![s] = @ \cup {scope}] \in [Subscriptions -> SUBSET Scopes]
        BY DEF TypeOK, Jobs
    <2>3. [job EXCEPT !.scopes = [job.scopes EXCEPT ![s] = @ \cup {scope}]] \in Jobs
        BY <2>2 DEF TypeOK, Jobs
    <2>4. job' \in Jobs
        BY <1>12, <2>3 DEF UpdateSubscription, TypeOK
    <2> QED
        BY <1>12, <2>1, <2>4 DEF UpdateSubscription, TypeOK
<1>13. CASE ToggleBus
    BY <1>13 DEF ToggleBus, TypeOK
<1>14. ASSUME NEW s \in Subscriptions, ToggleSubscription(s) PROVE TypeOK'
    BY <1>14 DEF ToggleSubscription, TypeOK, SubRecords
<1>15. CASE UNCHANGED vars
    BY <1>15 DEF vars, TypeOK
<1> QED
    BY <1>1, <1>2, <1>3, <1>4, <1>5, <1>6, <1>7, <1>8, <1>9, <1>10, <1>11, <1>12,
       <1>13, <1>14, <1>15
       DEF Next, EmitNext, SweepNext, EditNext, ToggleNext

-----------------------------------------------------------------------------
(* The invariant is inductive.                                             *)

LEMMA InvInit == Init => QueueInv
BY DEF Init, QueueInv, UnsentHaveNoRows, AtRest, InHand, SessionHonest, AttemptsLeft,
       PostsCounted, DeliveredWasPosted, CopiesCurrent, Idle, Absent

\* The sweep has treated one row of its batch: it is settled, or has failed with
\* attempts left, and has been posted if it says so.
LEMMA RowTreated ==
    ASSUME TypeOK, QueueInv, NEW r \in job.todo, NEW new \in Row,
           new.status \in {"delivered", "skipped", "dead", "failed"},
           new.status = "failed" => new.attempts < MaxAttempts,
           rows' = [rows EXCEPT ![r] = new],
           job'.todo = job.todo \ {r}, job'.pc = job.pc,
           UNCHANGED <<saved, order, rollbacks>>,
           posts' = IF new.status = "delivered" THEN [posts EXCEPT ![r] = @ + 1] ELSE posts
    PROVE  /\ UnsentHaveNoRows' /\ AtRest' /\ InHand' /\ SessionHonest'
           /\ AttemptsLeft' /\ PostsCounted' /\ DeliveredWasPosted'
<1>1. r \in Rows /\ rows[r].status \in Retryable /\ job.pc # "idle"
    BY DEF TypeOK, Jobs, QueueInv, InHand, AtRest
<1>2. \A q \in Rows : rows'[q] = IF q = r THEN new ELSE rows[q]
    BY <1>1 DEF TypeOK
<1>3. \A q \in Rows : posts'[q] = IF q = r /\ new.status = "delivered" THEN posts[q] + 1 ELSE posts[q]
    BY <1>1 DEF TypeOK
<1>4. \A q \in Rows : posts[q] \in Nat /\ rollbacks \in Nat
    BY DEF TypeOK
<1>5. UnsentHaveNoRows'
    BY <1>1, <1>2 DEF QueueInv, UnsentHaveNoRows
<1>6. AtRest'
    BY <1>1 DEF AtRest
<1>7. InHand'
    <2>1. \A q \in job'.todo : q \in Rows /\ q \in job.todo /\ q # r
        BY DEF TypeOK, Jobs
    <2> QED
        BY <1>2, <2>1 DEF QueueInv, InHand
<1>8. SessionHonest'
    BY <1>1, <1>2 DEF QueueInv, SessionHonest
<1>9. AttemptsLeft'
    BY <1>1, <1>2 DEF QueueInv, AttemptsLeft
<1>10. PostsCounted'
    BY <1>1, <1>2, <1>3, <1>4 DEF QueueInv, PostsCounted
<1>11. DeliveredWasPosted'
    BY <1>1, <1>2, <1>3, <1>4 DEF QueueInv, DeliveredWasPosted, SessionHonest
<1> QED
    BY <1>5, <1>6, <1>7, <1>8, <1>9, <1>10, <1>11

\* The same for a row that is settled without a POST.
LEMMA RowSettled ==
    ASSUME TypeOK, QueueInv, NEW r \in job.todo, NEW status \in {"skipped", "dead"},
           Settled(r, status), UNCHANGED <<subs, saved, order, posts, rollbacks>>
    PROVE  QueueInv'
<1> DEFINE new == [rows[r] EXCEPT !.status = status, !.next = 0]
<1>1. r \in Rows /\ rows[r] \in Row
    BY DEF TypeOK, Jobs
<1>2. new \in Row /\ new.status = status
    BY <1>1 DEF Row
<1>3. rows' = [rows EXCEPT ![r] = new]
    BY <1>1 DEF Settled, TypeOK, Row
<1>4. job'.todo = job.todo \ {r} /\ job'.pc = job.pc /\ job'.cached = job.cached
         /\ job'.scopes = job.scopes
    BY DEF Settled, TypeOK, Jobs
<1> HIDE DEF new
<1>5. /\ UnsentHaveNoRows' /\ AtRest' /\ InHand' /\ SessionHonest'
      /\ AttemptsLeft' /\ PostsCounted' /\ DeliveredWasPosted'
    BY <1>2, <1>3, <1>4, RowTreated
<1>6. CopiesCurrent'
    BY <1>4 DEF QueueInv, CopiesCurrent
<1> QED
    BY <1>5, <1>6 DEF QueueInv

LEMMA InvStep == TypeOK /\ QueueInv /\ [Next]_vars => QueueInv'
<1> SUFFICES ASSUME TypeOK, QueueInv, [Next]_vars PROVE QueueInv'
    OBVIOUS
<1> USE DEF QueueInv
<1> DEFINE Unread == UNCHANGED <<rows, saved, order, posts, rollbacks>>
\* Steps that touch neither the tables nor the sweep.
<1>a. ASSUME Unread, UNCHANGED <<job, subs>> PROVE QueueInv'
    BY <1>a DEF UnsentHaveNoRows, AtRest, InHand, SessionHonest, AttemptsLeft,
                PostsCounted, DeliveredWasPosted, CopiesCurrent
<1>1. CASE Tick
    BY <1>1, <1>a DEF Tick
<1>2. ASSUME NEW f \in Facts, NEW c \in Scopes, NEW t \in Types, Emit(f, c, t) PROVE QueueInv'
    <2>1. Range(order') = Range(order) \cup {f} /\ f \notin Range(order)
        BY <1>2, RangeAppend DEF Emit, TypeOK
    <2>2. \A r \in Rows :
             /\ r[1] # f => rows'[r] = rows[r] /\ saved'[r] = saved[r]
             /\ r[1] = f => /\ rows'[r] \in {Queued, Absent} /\ saved'[r] = rows'[r]
                            /\ rows[r].status = "absent" /\ saved[r].status = "absent"
        BY <1>2, <2>1 DEF Emit, UnsentHaveNoRows
    <2>3. UNCHANGED <<subs, job, posts, rollbacks>>
        BY <1>2 DEF Emit
    <2>4. UnsentHaveNoRows'
        BY <2>1, <2>2 DEF UnsentHaveNoRows
    <2>5. AtRest'
        BY <1>2, <2>3 DEF AtRest, Emit
    <2>6. InHand'
        BY <2>2, <2>3 DEF InHand, TypeOK, Jobs
    <2>7. SessionHonest'
        BY <2>2 DEF SessionHonest, Queued, Absent
    <2>8. AttemptsLeft'
        BY <2>2, EventAssumption DEF AttemptsLeft, Queued, Absent
    <2>9. PostsCounted'
        BY <2>2, <2>3 DEF PostsCounted
    <2>10. DeliveredWasPosted'
        BY <2>2, <2>3 DEF DeliveredWasPosted, Queued, Absent
    <2>11. CopiesCurrent'
        BY <2>3 DEF CopiesCurrent
    <2> QED
        BY <2>4, <2>5, <2>6, <2>7, <2>8, <2>9, <2>10, <2>11
<1>3. CASE StartSweep
    <2> DEFINE due == {r \in Rows : Due(r, now)}
    <2>1. /\ job'.pc = "sweep" /\ job'.todo = Batch(due) /\ job'.cached = <<>>
          /\ job'.scopes = [s \in Subscriptions |-> {subs[s].scope}]
        BY <1>3 DEF StartSweep, Idle
    <2>2. Unread /\ UNCHANGED subs
        BY <1>3 DEF StartSweep
    <2>3. InHand'
        BY <2>1, <2>2 DEF InHand, Batch, Due
    <2>4. CopiesCurrent'
        BY <2>1, <2>2 DEF CopiesCurrent
    <2> QED
        BY <2>1, <2>2, <2>3, <2>4 DEF UnsentHaveNoRows, AtRest, SessionHonest, AttemptsLeft,
                              PostsCounted, DeliveredWasPosted
<1>4. CASE CommitSweep
    <2>1. job'.pc = "idle" /\ job'.todo = {} /\ UNCHANGED <<order, posts, rollbacks>>
        BY <1>4 DEF CommitSweep, Idle
    <2>2. \A r \in Rows :
             /\ saved'[r] = rows'[r]
             /\ \/ rows'[r] = rows[r]
                \/ /\ rows'[r] = Gone
                   /\ rows[r].status # "absent" \/ saved[r].status = "gone"
        BY <1>4 DEF CommitSweep, Deleted
    <2>3. UnsentHaveNoRows'
        BY <2>1, <2>2 DEF UnsentHaveNoRows
    <2>4. AtRest'
        BY <1>4, <2>1 DEF AtRest, CommitSweep
    <2>5. AttemptsLeft'
        BY <2>2 DEF AttemptsLeft, Gone
    <2>6. PostsCounted'
        BY <2>1, <2>2 DEF PostsCounted, Gone
    <2>7. DeliveredWasPosted'
        BY <2>1, <2>2 DEF DeliveredWasPosted, Gone
    <2> QED
        BY <2>1, <2>2, <2>3, <2>4, <2>5, <2>6, <2>7 DEF InHand, SessionHonest, CopiesCurrent
<1>5. ASSUME NEW r \in job.todo, LeaveQueued(r) PROVE QueueInv'
    <2>1. /\ job'.todo = job.todo \ {r} /\ job'.pc = job.pc /\ job'.cached = job.cached
          /\ job'.scopes = job.scopes
        BY <1>5 DEF LeaveQueued, TypeOK, Jobs
    <2>2. Unread /\ UNCHANGED subs
        BY <1>5 DEF LeaveQueued
    <2> QED
        BY <2>1, <2>2 DEF UnsentHaveNoRows, AtRest, InHand, SessionHonest, AttemptsLeft,
                          PostsCounted, DeliveredWasPosted, CopiesCurrent
<1>6. ASSUME NEW r \in job.todo, Refuse(r) PROVE QueueInv'
    <2>1. Settled(r, "dead") /\ UNCHANGED <<subs, saved, order, posts, rollbacks>>
        BY <1>6 DEF Refuse
    <2> QED
        BY <2>1, RowSettled
<1>7. ASSUME NEW r \in job.todo, Unwanted(r) PROVE QueueInv'
    <2>1. Settled(r, "skipped") /\ UNCHANGED <<subs, saved, order, posts, rollbacks>>
        BY <1>7 DEF Unwanted
    <2> QED
        BY <2>1, RowSettled
<1>8. ASSUME NEW r \in job.todo, Send(r) PROVE QueueInv'
    <2> DEFINE ok  == health[r[2]] = "up"
               new == ApplyResult(rows[r], ok, job.at)
    <2>1. /\ r \in Rows /\ r[2] \in Subscriptions /\ rows[r] \in Row /\ job.at \in Nat
          /\ rows[r].attempts < MaxAttempts
        BY DEF TypeOK, Jobs, InHand, AttemptsLeft
    <2>2. /\ new \in Row /\ new.status \in {"delivered", "dead", "failed"}
          /\ new.status = "delivered" <=> ok
          /\ new.status = "failed" => new.attempts < MaxAttempts
        BY <2>1, ApplyResultType
    <2>3. rows' = [rows EXCEPT ![r] = new] /\ UNCHANGED <<subs, saved, order, rollbacks>>
        BY <1>8 DEF Send
    <2>4. posts' = IF new.status = "delivered" THEN [posts EXCEPT ![r] = @ + 1] ELSE posts
        BY <1>8, <2>2 DEF Send
    <2>5. /\ job'.todo = job.todo \ {r} /\ job'.pc = job.pc /\ job'.scopes = job.scopes
          /\ job'.cached = [s \in DOMAIN job.cached \cup {r[2]} |-> Loaded(s)]
        BY <1>8 DEF Send, TypeOK, Jobs
    <2> HIDE DEF new, ok
    <2>6. /\ UnsentHaveNoRows' /\ AtRest' /\ InHand' /\ SessionHonest'
          /\ AttemptsLeft' /\ PostsCounted' /\ DeliveredWasPosted'
        BY <2>2, <2>3, <2>4, <2>5, RowTreated
    <2>7. CopiesCurrent'
        BY <2>3, <2>5 DEF CopiesCurrent, Loaded
    <2> QED
        BY <2>6, <2>7
<1>9. CASE RollBack
    <2>1. job'.pc = "idle" /\ job'.todo = {} /\ job'.cached = <<>>
        BY <1>9 DEF RollBack, Idle
    <2>2. rows' = saved /\ rollbacks' = rollbacks + 1 /\ UNCHANGED <<saved, order, posts, subs>>
        BY <1>9 DEF RollBack
    <2>3. PostsCounted'
        BY <2>2 DEF PostsCounted, TypeOK
    <2> QED
        BY <2>1, <2>2, <2>3 DEF UnsentHaveNoRows, AtRest, InHand, SessionHonest, AttemptsLeft,
                                DeliveredWasPosted, CopiesCurrent
<1>10. ASSUME NEW s \in Subscriptions, DeleteSubscription(s) PROVE QueueInv'
    <2>1. /\ UNCHANGED <<job, order, posts, rollbacks>>
          /\ rows' = IF job.pc = "idle" THEN saved' ELSE rows
          /\ subs' = [subs EXCEPT ![s].exists = FALSE]
        BY <1>10 DEF DeleteSubscription
    <2>2. \A r \in Rows : \/ saved'[r] = saved[r]
                          \/ saved'[r] = Gone /\ saved[r].status # "absent"
        BY <1>10 DEF DeleteSubscription
    <2>3. \A q \in Subscriptions : subs'[q].scope = subs[q].scope
        BY <2>1 DEF TypeOK, SubRecords
    <2>4. CASE job.pc = "idle"
        <3>1. rows' = saved' /\ rows = saved /\ job.todo = {}
            BY <2>1, <2>4 DEF AtRest
        <3> QED
            BY <2>1, <2>2, <2>4, <3>1 DEF UnsentHaveNoRows, AtRest, InHand, SessionHonest,
               AttemptsLeft, PostsCounted, DeliveredWasPosted, CopiesCurrent, Gone
    <2>5. CASE job.pc # "idle"
        BY <2>1, <2>2, <2>3, <2>5 DEF UnsentHaveNoRows, AtRest, InHand, SessionHonest,
           AttemptsLeft, PostsCounted, DeliveredWasPosted, CopiesCurrent, Gone
    <2> QED
        BY <2>4, <2>5
<1>11. ASSUME NEW s \in Subscriptions, ChangeHealth(s) PROVE QueueInv'
    BY <1>11, <1>a DEF ChangeHealth
<1>12. ASSUME NEW s \in Subscriptions, NEW scope \in Scopes, NEW types \in SUBSET Types,
              UpdateSubscription(s, scope, types)
       PROVE  QueueInv'
    <2>1. Unread
        BY <1>12 DEF UpdateSubscription
    <2>2. job'.pc = job.pc /\ job'.todo = job.todo /\ job'.cached = job.cached
        BY <1>12 DEF UpdateSubscription, TypeOK, Jobs
    <2>3. CopiesCurrent'
        <3> SUFFICES ASSUME job.pc = "sweep", NEW q \in Subscriptions
                     PROVE  /\ subs'[q].scope \in job'.scopes[q]
                            /\ q \in DOMAIN job.cached => job.cached[q].scope \in job'.scopes[q]
            BY <2>2 DEF CopiesCurrent
        <3>1. job'.scopes = [job.scopes EXCEPT ![s] = @ \cup {scope}]
            BY <1>12 DEF UpdateSubscription, TypeOK, Jobs
        <3>2. job.scopes \in [Subscriptions -> SUBSET Scopes]
            BY DEF TypeOK, Jobs
        <3>3. job'.scopes[q] = IF q = s THEN job.scopes[q] \cup {scope} ELSE job.scopes[q]
            BY <3>1, <3>2
        <3>4. subs'[q].scope = IF q = s THEN scope ELSE subs[q].scope
            BY <1>12 DEF UpdateSubscription, TypeOK, SubRecords
        <3> QED
            BY <3>3, <3>4 DEF CopiesCurrent
    <2> QED
        BY <2>1, <2>2, <2>3 DEF UnsentHaveNoRows, AtRest, InHand, SessionHonest, AttemptsLeft,
                                PostsCounted, DeliveredWasPosted
<1>13. CASE ToggleBus
    BY <1>13, <1>a DEF ToggleBus
<1>14. ASSUME NEW s \in Subscriptions, ToggleSubscription(s) PROVE QueueInv'
    <2>1. Unread /\ UNCHANGED job
        BY <1>14 DEF ToggleSubscription
    <2>2. \A q \in Subscriptions : subs'[q].scope = subs[q].scope
        BY <1>14 DEF ToggleSubscription, TypeOK, SubRecords
    <2> QED
        BY <2>1, <2>2 DEF UnsentHaveNoRows, AtRest, InHand, SessionHonest, AttemptsLeft,
                          PostsCounted, DeliveredWasPosted, CopiesCurrent
<1>15. CASE UNCHANGED vars
    BY <1>15, <1>a DEF vars
<1> QED
    BY <1>1, <1>2, <1>3, <1>4, <1>5, <1>6, <1>7, <1>8, <1>9, <1>10, <1>11, <1>12,
       <1>13, <1>14, <1>15
       DEF Next, EmitNext, SweepNext, EditNext, ToggleNext

-----------------------------------------------------------------------------
(* Theorems.                                                               *)

\* Every reachable state is well typed and keeps the books of the two views of
\* event_deliveries consistent.
THEOREM QueueInvariant == Spec => [](TypeOK /\ QueueInv)
<1>1. Init => TypeOK /\ QueueInv
    BY TypeInit, InvInit
<1>2. TypeOK /\ QueueInv /\ [Next]_vars => (TypeOK /\ QueueInv)'
    BY TypeStep, InvStep
<1> QED
    BY <1>1, <1>2, PTL DEF Spec

\* Type correctness, under every edit and every lost sweep.
THEOREM TypeCorrect == Spec => []TypeOK
BY QueueInvariant, PTL

\* A subscriber hears of an event again only because a sweep lost its outcomes.
THEOREM RepeatsExplained == Spec => []NoDoublePost
<1>1. QueueInv => NoDoublePost
    BY DEF QueueInv, PostsCounted, NoDoublePost
<1> QED
    BY <1>1, QueueInvariant, PTL

\* A POST goes out under a scope the subscription had during the sweep.
LEMMA TenancyStep ==
    ASSUME TypeOK, QueueInv, [Next]_vars, NEW r \in Rows, posts'[r] > posts[r]
    PROVE  \E scope \in job.scopes[r[2]] : ScopeAllows([scope |-> scope], event[r[1]].client)
<1>1. posts' # posts
    BY DEF TypeOK
<1>2. PICK q \in job.todo : Send(q)
    BY <1>1 DEF Next, EmitNext, SweepNext, EditNext, ToggleNext, Tick, Emit, StartSweep,
       CommitSweep, LeaveQueued, Refuse, Unwanted, RollBack, DeleteSubscription, ChangeHealth,
       UpdateSubscription, ToggleBus, ToggleSubscription, vars
<1>3. r = q /\ q \in Rows
    BY <1>2 DEF Send, TypeOK, Jobs
<1>4. ScopeAllows(Loaded(r[2]), event[r[1]].client)
    BY <1>2, <1>3 DEF Send
<1>5. job.pc = "sweep" /\ r[2] \in Subscriptions
    BY <1>2 DEF QueueInv, AtRest, TypeOK, Jobs
<1>6. Loaded(r[2]).scope \in job.scopes[r[2]]
    BY <1>5 DEF QueueInv, CopiesCurrent, Loaded
<1>7. ScopeAllows([scope |-> Loaded(r[2]).scope], event[r[1]].client)
    BY <1>4 DEF ScopeAllows
<1> QED
    BY <1>6, <1>7

\* A committed open row goes only with its subscription.
LEMMA BacklogStep ==
    ASSUME TypeOK, QueueInv, [Next]_vars, NEW r \in Rows,
           saved[r].status \in Retryable, saved'[r].status = "gone"
    PROVE  ~subs'[r[2]].exists
<1>1. CASE \E f \in Facts, c \in Scopes, t \in Types : Emit(f, c, t)
    BY <1>1 DEF Emit, Queued, Absent
<1>2. CASE CommitSweep
    BY <1>2 DEF CommitSweep, Prunable, Deleted, QueueInv, SessionHonest
<1>3. ASSUME NEW s \in Subscriptions, DeleteSubscription(s) PROVE ~subs'[r[2]].exists
    BY <1>3 DEF DeleteSubscription, TypeOK, SubRecords
<1>4. CASE UNCHANGED saved
    BY <1>4
<1> QED
    BY <1>1, <1>2, <1>3, <1>4 DEF Next, EmitNext, SweepNext, EditNext, ToggleNext, Tick,
       StartSweep, LeaveQueued, Refuse, Unwanted, Send, RollBack, ChangeHealth,
       UpdateSubscription, ToggleBus, ToggleSubscription, vars

\* Neither re-scoping nor pruning under way costs a subscriber an event or
\* shows it one of another customer.
THEOREM SubscribersServed == Spec => EventsKept
<1>1. TypeOK /\ QueueInv /\ [Next]_vars
      => [\A r \in Rows : posts'[r] > posts[r] =>
             \E scope \in job.scopes[r[2]] :
                 ScopeAllows([scope |-> scope], event[r[1]].client)]_vars
    BY TenancyStep
<1>2. TypeOK /\ QueueInv /\ [Next]_vars
      => [\A r \in Rows :
             saved[r].status \in {"pending", "failed"} /\ saved'[r].status = "gone"
                 => ~subs'[r[2]].exists]_vars
    BY BacklogStep
<1> QED
    BY <1>1, <1>2, QueueInvariant, PTL DEF Spec, EventsKept, TenancyKept, BacklogKeepsEvent

-----------------------------------------------------------------------------
(* The bus is a durable outbox.                                            *)

\* How a status reads in the outbox.
LEMMA Stages ==
    ASSUME NEW row \in Row
    PROVE  /\ Stage(row) \in Outbox!Stages
           /\ Stage(row) = "absent" <=> row.status = "absent"
           /\ Stage(row) = "gone" <=> row.status = "gone"
           /\ Stage(row) = "sent" <=> row.status = "delivered"
           /\ Stage(row) \in Outbox!Final <=> row.status \in Terminal
BY DEF Stage, Row, Outbox!Stages, Outbox!Final

\* A commit settles rows for good, and never undoes a POST.
LEMMA OutboxStep ==
    ASSUME TypeOK, TypeOK', QueueInv, QueueInv', [Next]_vars
    PROVE  [Outbox!Next]_<<[r \in Rows |-> Stage(saved[r])], {r \in Rows : posts[r] > 0}>>
<1> DEFINE log   == [r \in Rows |-> Stage(saved[r])]
           heard == {r \in Rows : posts[r] > 0}
<1>1. heard \subseteq heard'
    <2>1. \A r \in Rows : posts[r] <= posts'[r] /\ posts[r] \in Nat /\ posts'[r] \in Nat
        <3>1. CASE posts' = posts
            BY <3>1 DEF TypeOK
        <3>2. CASE \E q \in job.todo : Send(q)
            <4>1. PICK q \in job.todo : Send(q)
                BY <3>2
            <4>2. posts \in [Rows -> Nat] /\ posts' \in {posts, [posts EXCEPT ![q] = @ + 1]}
                BY <4>1 DEF Send, TypeOK
            <4> QED
                BY <4>2
        <3> QED
            BY <3>1, <3>2 DEF Next, EmitNext, SweepNext, EditNext, ToggleNext, Tick, Emit,
               StartSweep, CommitSweep, LeaveQueued, Refuse, Unwanted, RollBack,
               DeleteSubscription, ChangeHealth, UpdateSubscription, ToggleBus,
               ToggleSubscription, vars
    <2> QED
        BY <2>1
<1>2. CASE UNCHANGED saved
    BY <1>1, <1>2 DEF Outbox!Next, Outbox!Transmit
<1>3. ASSUME \A r \in Rows :
                /\ saved[r].status \in Terminal => saved'[r].status \in {saved[r].status, "gone"}
                /\ saved[r].status = "gone" => saved'[r].status = "gone"
      PROVE  Outbox!Commit
    <2>1. log' \in [Rows -> Outbox!Stages]
        BY Stages DEF TypeOK
    <2>2. ASSUME NEW r \in Rows
          PROVE  /\ log[r] \in Outbox!Final => log'[r] \in {log[r], "gone"}
                 /\ log[r] = "gone" => log'[r] = "gone"
                 /\ log'[r] = "sent" => r \in heard'
        <3>1. saved[r] \in Row /\ saved'[r] \in Row
            BY DEF TypeOK
        <3>2. log[r] = Stage(saved[r]) /\ log'[r] = Stage(saved'[r])
            OBVIOUS
        <3>3. saved'[r].status = "delivered" => posts'[r] > 0
            BY DEF QueueInv, DeliveredWasPosted
        <3>4. saved'[r].status = saved[r].status => Stage(saved'[r]) = Stage(saved[r])
            BY DEF Stage
        <3> QED
            BY <1>3, <3>1, <3>2, <3>3, <3>4, Stages
    <2> QED
        BY <1>1, <2>1, <2>2 DEF Outbox!Commit
<1>4. CASE \E f \in Facts, c \in Scopes, t \in Types : Emit(f, c, t)
    BY <1>3, <1>4 DEF Emit, QueueInv, UnsentHaveNoRows, Outbox!Next
<1>5. CASE CommitSweep
    BY <1>3, <1>5 DEF CommitSweep, Deleted, Gone, QueueInv, SessionHonest, Outbox!Next
<1>6. CASE \E s \in Subscriptions : DeleteSubscription(s)
    BY <1>3, <1>6 DEF DeleteSubscription, Gone, Outbox!Next
<1> QED
    BY <1>2, <1>4, <1>5, <1>6 DEF Next, EmitNext, SweepNext, EditNext, ToggleNext, Tick,
       StartSweep, LeaveQueued, Refuse, Unwanted, Send, RollBack, ChangeHealth,
       UpdateSubscription, ToggleBus, ToggleSubscription, vars

\* What the committed event_deliveries show is a DurableOutbox.
THEOREM Refinement == Spec => ImplementsOutbox
<1>1. Init => Outbox!Init
    BY DEF Init, Outbox!Init, Stage, Absent
<1>2. /\ TypeOK /\ QueueInv /\ (TypeOK /\ QueueInv)' /\ [Next]_vars
      => [Outbox!Next]_<<[r \in Rows |-> Stage(saved[r])], {r \in Rows : posts[r] > 0}>>
    BY OutboxStep
<1> QED
    BY <1>1, <1>2, QueueInvariant, PTL DEF Spec, ImplementsOutbox, Outbox!Spec
=============================================================================
