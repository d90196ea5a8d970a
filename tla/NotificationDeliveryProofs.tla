---------------------- MODULE NotificationDeliveryProofs ----------------------
(***************************************************************************)
(* Durable notification delivery, for any number of alerts, channels and   *)
(* rows and any batch limit: type correctness of NotificationDelivery,     *)
(* that no live alert is left without a row that answers for it, how often *)
(* a destination may receive an alert at most, that what is held is held   *)
(* once and what waits gets its turn, and that the committed rows are a    *)
(* DurableOutbox.  Operators, destinations and windows move between any    *)
(* two steps of the worker, and the worker may die at any of them.         *)
(***************************************************************************)
EXTENDS NotificationDelivery, SequencesExt, FiniteSetTheorems, WellFoundedInduction, TLAPS

USE DEF Retryable, Terminal, Statuses, Reasons, Keys, Health

-----------------------------------------------------------------------------
(* Facts about numbers, sequences and counts that the proofs below cite.   *)

\* The powers that the queues' capped exponent reaches.
LEMMA PowersOfTwo ==
    ASSUME NEW n \in 0..20
    PROVE  2 ^ n \in Nat
<1>1. /\ 2^0 \in Nat /\ 2^1 \in Nat /\ 2^2 \in Nat /\ 2^3 \in Nat
      /\ 2^4 \in Nat /\ 2^5 \in Nat /\ 2^6 \in Nat /\ 2^7 \in Nat
      /\ 2^8 \in Nat /\ 2^9 \in Nat /\ 2^10 \in Nat /\ 2^11 \in Nat
      /\ 2^12 \in Nat /\ 2^13 \in Nat /\ 2^14 \in Nat /\ 2^15 \in Nat
      /\ 2^16 \in Nat /\ 2^17 \in Nat /\ 2^18 \in Nat /\ 2^19 \in Nat
      /\ 2^20 \in Nat
    BY SMT
<1>2. \/ n = 0 \/ n = 1 \/ n = 2 \/ n = 3 \/ n = 4 \/ n = 5 \/ n = 6 \/ n = 7
      \/ n = 8 \/ n = 9 \/ n = 10 \/ n = 11 \/ n = 12 \/ n = 13 \/ n = 14
      \/ n = 15 \/ n = 16 \/ n = 17 \/ n = 18 \/ n = 19 \/ n = 20
    BY SMT
<1> QED
    BY <1>1, <1>2, Zenon

\* What two sequences are when put together.
LEMMA Concatenated ==
    ASSUME NEW S, NEW s \in Seq(S), NEW t \in Seq(S)
    PROVE  s \o t \in Seq(S) /\ Len(s \o t) = Len(s) + Len(t)
OBVIOUS

\* SetToSeq lists every element of a finite set once.
LEMMA SetToSeqLists ==
    ASSUME NEW S, IsFiniteSet(S)
    PROVE  /\ SetToSeq(S) \in Seq(S)
           /\ Len(SetToSeq(S)) = Cardinality(S)
           /\ Cardinality(S) \in Nat
           /\ DOMAIN SetToSeq(S) = 1..Cardinality(S)
           /\ \A i, j \in DOMAIN SetToSeq(S) : SetToSeq(S)[i] = SetToSeq(S)[j] => i = j
           /\ Range(SetToSeq(S)) = S
<1> DEFINE n == Cardinality(S)
           f == SetToSeq(S)
<1>1. n \in Nat /\ ExistsBijection(1..n, S)
    BY FS_CardinalityType
<1>2. PICK g \in [1..n -> S] : IsInjective(g)
    BY <1>1 DEF ExistsBijection, Bijection, Injection
<1>3. f \in [1..n -> S] /\ IsInjective(f)
    BY <1>2 DEF SetToSeq
<1>4. f \in Seq(S) /\ Len(f) = n /\ DOMAIN f = 1..n
    BY <1>1, <1>3
<1>5. f \in Surjection(1..n, S)
    <2>1. f \in Injection(1..n, S)
        BY <1>3 DEF Injection
    <2>2. Cardinality(1..n) = n
        BY <1>1, FS_Interval
    <2> QED
        BY <2>1, <2>2, FS_Injection
<1>6. Range(f) = S
    BY <1>3, <1>5 DEF Range, Surjection
<1> QED
    BY <1>1, <1>3, <1>4, <1>6 DEF IsInjective

\* A count does not rise when elements leave.
LEMMA FewerCounted ==
    ASSUME NEW S, IsFiniteSet(S), NEW T \in SUBSET S
    PROVE  Cardinality(T) \in Nat /\ Cardinality(S) \in Nat /\ Cardinality(T) <= Cardinality(S)
BY FS_Subset, FS_CardinalityType

\* ... and falls when one leaves and none comes.
LEMMA OneLessCounted ==
    ASSUME NEW S, IsFiniteSet(S), NEW x \in S, NEW T \in SUBSET (S \ {x})
    PROVE  Cardinality(T) \in Nat /\ Cardinality(S) \in Nat /\ Cardinality(T) + 1 <= Cardinality(S)
<1>1. IsFiniteSet(S \ {x}) /\ Cardinality(S \ {x}) = Cardinality(S) - 1
    BY FS_RemoveElement
<1>2. Cardinality(T) <= Cardinality(S \ {x})
    BY <1>1, FS_Subset
<1>3. IsFiniteSet(T)
    BY <1>1, FS_Subset
<1> QED
    BY <1>1, <1>2, <1>3, FS_CardinalityType

\* One more element counts for one at most.
LEMMA OneMoreCounted ==
    ASSUME NEW S, IsFiniteSet(S), NEW x, NEW T \in SUBSET (S \cup {x})
    PROVE  Cardinality(T) \in Nat /\ Cardinality(S) \in Nat /\ Cardinality(T) <= Cardinality(S) + 1
<1>0. Cardinality(S) \in Nat
    BY FS_CardinalityType
<1>1. IsFiniteSet(S \cup {x}) /\ Cardinality(S \cup {x}) <= Cardinality(S) + 1
    <2>1. /\ IsFiniteSet(S \cup {x})
          /\ Cardinality(S \cup {x}) =
                IF x \in S THEN Cardinality(S) ELSE Cardinality(S) + 1
        BY FS_AddElement
    <2> QED
        BY <1>0, <2>1
<1>2. IsFiniteSet(T) /\ Cardinality(T) <= Cardinality(S \cup {x})
    BY <1>1, FS_Subset
<1> QED
    BY <1>0, <1>1, <1>2, FS_CardinalityType

\* An element in another's place leaves the count as it was, or lower.
LEMMA OneReplacedCounted ==
    ASSUME NEW S, IsFiniteSet(S), NEW x \in S, NEW y, NEW T \in SUBSET ((S \ {x}) \cup {y})
    PROVE  Cardinality(T) \in Nat /\ Cardinality(S) \in Nat /\ Cardinality(T) <= Cardinality(S)
<1>1. IsFiniteSet(S \ {x}) /\ Cardinality(S \ {x}) = Cardinality(S) - 1
    BY FS_RemoveElement
<1>2. Cardinality(T) \in Nat /\ Cardinality(T) <= Cardinality(S \ {x}) + 1
    BY <1>1, OneMoreCounted
<1> QED
    BY <1>1, <1>2, FS_CardinalityType

\* A set of naturals has a least element.
LEMMA LeastNatural ==
    ASSUME NEW S \in SUBSET Nat, S # {}
    PROVE  \E n \in S : \A m \in S : n <= m
<1> DEFINE R == {ss \in Nat \X Nat : ss[1] < ss[2]}
<1>1. IsWellFoundedOn(R, Nat)
    BY NatLessThanWellFounded DEF OpToRel
<1>2. \A m, n \in Nat : m < n => <<m, n>> \in R
    OBVIOUS
<1> HIDE DEF R
<1>3. PICK n \in S : \A m \in S : ~(<<m, n>> \in R)
    BY <1>1, WFMin
<1>4. \A m \in S : m \in Nat /\ n \in Nat /\ ~(m < n)
    BY <1>2, <1>3
<1>5. \A m \in S : n <= m
    BY <1>4
<1> QED
    BY <1>3, <1>5

-----------------------------------------------------------------------------
(* The inductive invariant.                                                *)

Holding(r) == r.status \in {"deferred", "suppressed"}

\* The row may still make a message leave through channel c.
MayReach(r, c) ==
    \/ r.status \in Retryable /\ r.key \in {c, Unrouted}
    \/ r.status = "deferred"

Open(table, a, c) == {i \in DOMAIN table : table[i].alert = a /\ MayReach(table[i], c)}

\* An open row has attempts left and is of a channel or owed, a held one is
\* withheld, and neither an owed nor a withheld one has used an attempt.
WellKept(r, received) ==
    /\ r.status \in Retryable => r.attempts < MaxAttempts /\ r.key # Withheld
    /\ Holding(r) => r.key = Withheld
    /\ r.key \in {Unrouted, Withheld} /\ r.status # "dead" => r.attempts = 0
    /\ r.status = "delivered" => \E c \in Channels : received[<<r.alert, c>>] > 0

\* An alert is held in one row.
HeldApart(table) ==
    \A i, j \in DOMAIN table :
        Holding(table[i]) /\ Holding(table[j]) /\ table[i].alert = table[j].alert => i = j

\* What is true of the table, as the session sees it and as committed, when
\* destinations have received and the worker has raised so much.
TableInv(table, received, asked) ==
    /\ \A i \in DOMAIN table : WellKept(table[i], received)
    /\ HeldApart(table)
    /\ \A a \in Alerts, c \in Channels : Cardinality(Open(table, a, c)) <= asked[a]

\* The session adds to the committed table and leaves settled rows alone.
SessionExtends ==
    /\ Len(saved) <= Len(rows)
    /\ \A i \in DOMAIN saved :
          /\ rows[i].alert = saved[i].alert
          /\ saved[i].status \in Terminal => rows[i].status = saved[i].status

AtRest == job.pc = "idle" => rows = saved /\ job.todo = {}

\* What the sweep has yet to treat is as it was fetched.
InHand == \A i \in job.todo : i \in DOMAIN rows /\ rows[i].status \in Retryable

RaisedHasRow ==
    \A a \in Alerts : alert[a].state # "none" => \E i \in DOMAIN saved : saved[i].alert = a

\* What was received and what may still be sent stays within the promise.
PagesBounded ==
    \A a \in Alerts, c \in Channels :
        pages[<<a, c>>] + Cardinality(Open(rows, a, c)) <= raised[a] + crashes * (raised[a] + 1)

QueueInv ==
    /\ TableInv(rows, pages, raised) /\ TableInv(saved, pages, raised)
    /\ SessionExtends /\ AtRest /\ InHand /\ RaisedHasRow /\ PagesBounded

\* A row that does not answer for its alert is a resolved alert's.
AnswersIn(table) ==
    \A i \in DOMAIN table : Accounts(table[i]) \/ alert[table[i].alert].state = "resolved"

AnswersInv == AnswersIn(rows) /\ AnswersIn(saved)

-----------------------------------------------------------------------------
(* Facts about the operators.                                              *)

\* A retry is scheduled at a time, however many attempts were made.
LEMMA DelayType ==
    ASSUME NEW n \in Nat \ {0}
    PROVE  Delay(n) \in Nat
<1> DEFINE exponent == IF n - 1 > 20 THEN 20 ELSE n - 1
           power    == 2 ^ exponent
<1>1. exponent \in 0..20
    BY SMT
<1>2. power \in Nat
    BY <1>1, PowersOfTwo
<1>3. Base \in Nat /\ BackoffCap \in Nat
    BY DeliveryAssumption
<1> HIDE DEF power
<1>4. Base * power \in Nat
    BY <1>2, <1>3
<1>5. Delay(n) = IF Base * power < BackoffCap THEN Base * power ELSE BackoffCap
    BY DEF Delay, power
<1> QED
    BY <1>3, <1>4, <1>5

\* A closed row keeps everything but its status.
LEMMA CloseFacts ==
    ASSUME NEW r \in Row, NEW why \in Reasons
    PROVE  /\ Close(r, why) \in Row
           /\ Close(r, why).alert = r.alert /\ Close(r, why).key = r.key
           /\ Close(r, why).status = "dead" /\ Close(r, why).why = why
BY DEF Close, Row

\* What a send through a channel makes of a row with attempts left.
LEMMA ApplyResultFacts ==
    ASSUME TypeOK, NEW r \in Row, r.attempts < MaxAttempts, NEW c \in Channels, NEW at \in Nat
    PROVE  /\ ApplyResult(r, c, at) \in Row
           /\ ApplyResult(r, c, at).alert = r.alert
           /\ ApplyResult(r, c, at).key = r.key
           /\ ApplyResult(r, c, at).status \in {"delivered", "skipped", "dead", "failed"}
           /\ ApplyResult(r, c, at).status = "delivered" <=> health[c] = "up"
           /\ ApplyResult(r, c, at).status = "failed" =>
                 /\ health[c] = "down" /\ ApplyResult(r, c, at).attempts < MaxAttempts
                 /\ ApplyResult(r, c, at).next >= at
           /\ ApplyResult(r, c, at).status = "dead" => ApplyResult(r, c, at).why = "exhausted"
<1> DEFINE n == r.attempts + 1
           counted == [r EXCEPT !.attempts = n]
           q == ApplyResult(r, c, at)
<1>0. MaxAttempts \in Nat /\ r.attempts \in 0..MaxAttempts
    BY DeliveryAssumption DEF Row
<1>1. n \in Nat \ {0} /\ n \in 0..MaxAttempts
    BY <1>0
<1>2. Delay(n) \in Nat
    BY <1>1, DelayType
<1>3. counted \in Row /\ counted.alert = r.alert /\ counted.key = r.key /\ counted.attempts = n
    BY <1>1 DEF Row
<1>4. CASE health[c] = "up"
    <2>1. q = [counted EXCEPT !.status = "delivered", !.next = 0]
        BY <1>4 DEF ApplyResult
    <2> HIDE DEF q, counted
    <2>2. q \in Row /\ q.alert = counted.alert /\ q.key = counted.key /\ q.status = "delivered"
        BY <1>3, <2>1 DEF Row
    <2> QED
        BY <1>3, <1>4, <2>2 DEF q
<1>5. CASE health[c] = "mute"
    <2>1. q = [counted EXCEPT !.status = "skipped", !.next = 0]
        BY <1>5 DEF ApplyResult
    <2> HIDE DEF q, counted
    <2>2. q \in Row /\ q.alert = counted.alert /\ q.key = counted.key /\ q.status = "skipped"
        BY <1>3, <2>1 DEF Row
    <2> QED
        BY <1>3, <1>5, <2>2 DEF q
<1>6. CASE health[c] = "down" /\ n >= MaxAttempts
    <2>1. q = Close(counted, "exhausted")
        BY <1>6 DEF ApplyResult
    <2> HIDE DEF q, counted
    <2>2. q \in Row /\ q.alert = counted.alert /\ q.key = counted.key
          /\ q.status = "dead" /\ q.why = "exhausted"
        BY <1>3, <2>1, CloseFacts
    <2> QED
        BY <1>3, <1>6, <2>2 DEF q
<1>7. CASE health[c] = "down" /\ n < MaxAttempts
    <2>1. q = [counted EXCEPT !.status = "failed", !.next = at + Delay(n)]
        BY <1>0, <1>7 DEF ApplyResult
    <2>2. at + Delay(n) \in Nat
        BY <1>2
    <2> DEFINE next == at + Delay(n)
    <2> HIDE DEF q, counted, next
    <2>3. q \in Row /\ q.alert = counted.alert /\ q.key = counted.key
          /\ q.status = "failed" /\ q.attempts = counted.attempts /\ q.next = next
        BY <1>3, <2>1, <2>2 DEF next, Row
    <2>4. next >= at
        BY <1>2 DEF next
    <2> QED
        BY <1>3, <1>7, <2>3, <2>4 DEF q
<1>8. health[c] \in Health
    BY DEF TypeOK
<1> QED
    BY <1>0, <1>4, <1>5, <1>6, <1>7, <1>8

LEMMA NewRowType ==
    ASSUME TypeOK, NEW a \in Alerts, NEW key \in Keys, NEW status \in Statuses, NEW next \in Nat
    PROVE  /\ NewRow(a, key, status, next) \in Row
           /\ NewRow(a, key, status, next).attempts < MaxAttempts
<1>1. NewRow(a, key, status, next).attempts = 0
    BY DEF NewRow
<1>2. 0 < MaxAttempts /\ 0 \in 0..MaxAttempts
    BY DeliveryAssumption
<1>3. now \in Nat
    BY DEF TypeOK
<1> QED
    BY <1>1, <1>2, <1>3 DEF NewRow, Row

\* Messages only ever come on top.
LEMMA PagedFacts ==
    ASSUME TypeOK, NEW A \in SUBSET Alerts, NEW chans \in SUBSET Channels
    PROVE  /\ Paged(A, chans) \in [Alerts \X Channels -> Nat]
           /\ \A a \in Alerts, c \in Channels :
                 Paged(A, chans)[<<a, c>>] =
                     IF a \in A /\ c \in chans /\ health[c] = "up"
                     THEN pages[<<a, c>>] + 1 ELSE pages[<<a, c>>]
BY DEF Paged, TypeOK

\* A set of channels can be listed.
LEMMA ChannelsListed ==
    ASSUME NEW C \in SUBSET Channels
    PROVE  /\ SetToSeq(C) \in Seq(C)
           /\ Len(SetToSeq(C)) = Cardinality(C) /\ Cardinality(C) \in Nat
           /\ DOMAIN SetToSeq(C) = 1..Cardinality(C)
           /\ \A i, j \in DOMAIN SetToSeq(C) : SetToSeq(C)[i] = SetToSeq(C)[j] => i = j
           /\ \A i \in DOMAIN SetToSeq(C) : SetToSeq(C)[i] \in C
           /\ Range(SetToSeq(C)) = C
           /\ C # {} => Cardinality(C) > 0
<1>1. IsFiniteSet(C)
    BY DeliveryAssumption, FS_Subset
<1>2. C # {} => Cardinality(C) # 0
    BY <1>1, FS_EmptySet
<1> QED
    BY <1>1, <1>2, SetToSeqLists DEF Range

\* A dispatch writes at least one row, all of them the alert's and open to at
\* most one send per channel, none where the message left.
LEMMA DispatchedFacts ==
    ASSUME TypeOK, NEW a \in Alerts
    PROVE  /\ Dispatched(a) \in Seq(Row)
           /\ Len(Dispatched(a)) > 0 /\ Len(Dispatched(a)) <= Cardinality(enabled) + 1
           /\ Cardinality(enabled) \in Nat
           /\ \A k \in DOMAIN Dispatched(a) :
                 /\ Dispatched(a)[k].alert = a
                 /\ ~Holding(Dispatched(a)[k])
                 /\ Accounts(Dispatched(a)[k])
                 /\ WellKept(Dispatched(a)[k], Paged({a}, enabled))
           /\ \A c \in Channels : \A k \in DOMAIN Dispatched(a) :
                 MayReach(Dispatched(a)[k], c) => ~(c \in enabled /\ health[c] = "up")
           /\ \A c \in Channels : \A k, l \in DOMAIN Dispatched(a) :
                 MayReach(Dispatched(a)[k], c) /\ MayReach(Dispatched(a)[l], c) => k = l
<1> DEFINE D == Dispatched(a)
           chan(k) == SetToSeq(enabled)[k]
           N == Cardinality(enabled)
<1>0. enabled \in SUBSET Channels /\ now \in Nat
    BY DEF TypeOK
<1>1. /\ N \in Nat
      /\ enabled # {} => N > 0
      /\ \A k \in 1..N : chan(k) \in enabled
      /\ \A k, l \in 1..N : chan(k) = chan(l) => k = l
    BY <1>0, ChannelsListed
<1>2. CASE enabled = {}
    <2> DEFINE r == NewRow(a, Unrouted, "pending", 0)
    <2>1. D = <<r>>
        BY <1>2 DEF Dispatched
    <2>2. r \in Row /\ r.attempts < MaxAttempts
        BY NewRowType
    <2>3. r.alert = a /\ r.key = Unrouted /\ r.status = "pending" /\ r.attempts = 0
        BY DEF NewRow
    <2>4. ~Holding(r) /\ Accounts(r) /\ WellKept(r, Paged({a}, enabled))
        BY <2>2, <2>3 DEF Holding, Accounts, WellKept, Unrouted, Withheld
    <2> HIDE DEF r
    <2>5. D \in Seq(Row) /\ Len(D) = 1 /\ DOMAIN D = {1} /\ D[1] = r
        BY <2>1, <2>2
    <2> HIDE DEF D, N
    <2>6. \A k \in DOMAIN D : D[k] = r /\ k = 1
        BY <2>5
    <2>7. D \in Seq(Row) /\ Len(D) > 0 /\ Len(D) <= N + 1
        BY <1>1, <2>5
    <2>8. \A c \in Channels : c \notin enabled
        BY <1>2
    <2> QED
        BY <1>1, <2>3, <2>4, <2>6, <2>7, <2>8 DEF D, N
<1>3. CASE enabled # {}
    <2>1. D = [k \in 1..N |-> ApplyResult(NewRow(a, chan(k), "pending", 0), chan(k), now)]
        BY <1>3 DEF Dispatched
    <2> HIDE DEF D, N
    <2>2. ASSUME NEW k \in 1..N
          PROVE  /\ D[k] \in Row /\ D[k].alert = a /\ D[k].key = chan(k) /\ chan(k) \in enabled
                 /\ D[k].status \in {"delivered", "skipped", "dead", "failed"}
                 /\ D[k].status = "delivered" <=> health[chan(k)] = "up"
                 /\ D[k].status = "failed" => health[chan(k)] = "down" /\ D[k].attempts < MaxAttempts
                 /\ D[k].status = "dead" => D[k].why = "exhausted"
        <3>1. chan(k) \in enabled /\ chan(k) \in Channels /\ chan(k) \in Keys
            BY <1>0, <1>1
        <3> DEFINE r == NewRow(a, chan(k), "pending", 0)
        <3>2. r \in Row /\ r.attempts < MaxAttempts
            BY <3>1, NewRowType
        <3>3. r.alert = a /\ r.key = chan(k)
            BY DEF NewRow
        <3>4. D[k] = ApplyResult(r, chan(k), now)
            BY <2>1
        <3> HIDE DEF r, chan
        <3> QED
            BY <1>0, <3>1, <3>2, <3>3, <3>4, ApplyResultFacts
    <2>3. D \in Seq(Row) /\ Len(D) = N /\ DOMAIN D = 1..N
        BY <1>1, <2>1, <2>2
    <2> HIDE DEF chan
    <2>4. ASSUME NEW k \in 1..N
          PROVE  ~Holding(D[k]) /\ Accounts(D[k]) /\ WellKept(D[k], Paged({a}, enabled))
        <3>1. chan(k) \in Channels /\ chan(k) \notin {Unrouted, Withheld}
            BY <1>0, <2>2, DeliveryAssumption
        <3>2. pages[<<a, chan(k)>>] \in Nat
            BY <3>1 DEF TypeOK
        <3>3. health[chan(k)] = "up" => Paged({a}, enabled)[<<a, chan(k)>>] > 0
            <4>1. Paged({a}, enabled)[<<a, chan(k)>>] =
                    IF a \in {a} /\ chan(k) \in enabled /\ health[chan(k)] = "up"
                    THEN pages[<<a, chan(k)>>] + 1 ELSE pages[<<a, chan(k)>>]
                BY <1>0, <3>1, PagedFacts
            <4> QED
                BY <2>2, <3>2, <4>1
        <3>4. D[k].status = "delivered" => \E c \in Channels : Paged({a}, enabled)[<<D[k].alert, c>>] > 0
            BY <2>2, <3>1, <3>3
        <3> QED
            BY <2>2, <3>1, <3>4 DEF Holding, Accounts, WellKept
    <2>5. ASSUME NEW c \in Channels, NEW k \in 1..N, MayReach(D[k], c)
          PROVE  chan(k) = c /\ health[c] # "up"
        <3>1. D[k].status = "failed" /\ D[k].key \in {c, Unrouted}
            BY <2>2, <2>5 DEF MayReach
        <3>2. chan(k) = c
            BY <1>0, <2>2, <3>1, DeliveryAssumption
        <3> QED
            BY <2>2, <3>1, <3>2
    <2>6. Len(D) > 0 /\ Len(D) <= N + 1
        BY <1>1, <1>3, <2>3
    <2>7. \A c \in Channels : \A k, l \in DOMAIN D : MayReach(D[k], c) /\ MayReach(D[l], c) => k = l
        BY <1>1, <2>3, <2>5
    <2> QED
        BY <1>1, <2>2, <2>3, <2>4, <2>5, <2>6, <2>7 DEF D, N
<1> QED
    BY <1>2, <1>3

-----------------------------------------------------------------------------
(* What a step of the worker keeps of the table.                           *)

\* What was received more is taken from what could still be sent.
LEMMA SpentWithin ==
    ASSUME NEW S, IsFiniteSet(S), NEW T, NEW before \in Nat, NEW after \in Nat,
           \/ T \subseteq S /\ after = before
           \/ \E x \in S : T \subseteq S \ {x} /\ after = before + 1
           \/ \E x \in S, y \in Nat : T \subseteq (S \ {x}) \cup {y} /\ after = before
    PROVE  /\ Cardinality(S) \in Nat /\ Cardinality(T) \in Nat
           /\ Cardinality(T) <= Cardinality(S)
           /\ after + Cardinality(T) <= before + Cardinality(S)
<1>1. CASE T \subseteq S /\ after = before
    BY <1>1, FewerCounted
<1>2. CASE \E x \in S : T \subseteq S \ {x} /\ after = before + 1
    <2>1. PICK x \in S : T \subseteq S \ {x} /\ after = before + 1
        BY <1>2
    <2>2. Cardinality(T) \in Nat /\ Cardinality(S) \in Nat /\ Cardinality(T) + 1 <= Cardinality(S)
        BY <2>1, OneLessCounted
    <2> QED
        BY <2>1, <2>2
<1>3. CASE \E x \in S, y \in Nat : T \subseteq (S \ {x}) \cup {y} /\ after = before
    <2>1. PICK x \in S, y \in Nat : T \subseteq (S \ {x}) \cup {y} /\ after = before
        BY <1>3
    <2>2. Cardinality(T) \in Nat /\ Cardinality(S) \in Nat /\ Cardinality(T) <= Cardinality(S)
        BY <2>1, OneReplacedCounted
    <2> QED
        BY <2>1, <2>2
<1> QED
    BY <1>1, <1>2, <1>3

LEMMA OpenFinite ==
    ASSUME NEW t \in Seq(Row), NEW a, NEW c
    PROVE  IsFiniteSet(Open(t, a, c)) /\ Cardinality(Open(t, a, c)) \in Nat
<1>1. Len(t) \in Nat /\ DOMAIN t = 1..Len(t)
    OBVIOUS
<1>2. IsFiniteSet(1..Len(t))
    BY <1>1, FS_Interval
<1>3. Open(t, a, c) \in SUBSET (1..Len(t))
    BY <1>1 DEF Open
<1> QED
    BY <1>2, <1>3, FewerCounted, FS_Subset

\* Messages that come on top spoil no row.
LEMMA TableStays ==
    ASSUME NEW t \in Seq(Row), NEW p \in [Alerts \X Channels -> Nat],
           NEW q \in [Alerts \X Channels -> Nat], NEW n,
           \A a \in Alerts, c \in Channels : p[<<a, c>>] <= q[<<a, c>>],
           TableInv(t, p, n)
    PROVE  TableInv(t, q, n)
<1>1. ASSUME NEW i \in DOMAIN t
      PROVE  WellKept(t[i], q)
    <2>1. WellKept(t[i], p) /\ t[i] \in Row
        BY DEF TableInv
    <2>2. t[i].alert \in Alerts
        BY <2>1 DEF Row
    <2>3. \A c \in Channels : p[<<t[i].alert, c>>] \in Nat /\ q[<<t[i].alert, c>>] \in Nat
        BY <2>2
    <2>4. \A c \in Channels : p[<<t[i].alert, c>>] > 0 => q[<<t[i].alert, c>>] > 0
        BY <2>2, <2>3
    <2> QED
        BY <2>1, <2>4 DEF WellKept
<1> QED
    BY <1>1 DEF TableInv

\* A step of a sweep or a digest: it settles, retries or adds rows, and each
\* message it sends is one a row could still send.
LEMMA SweepStep ==
    ASSUME TypeOK, QueueInv,
           rows' \in Seq(Row), Len(rows) <= Len(rows'),
           pages' \in [Alerts \X Channels -> Nat],
           \A i \in DOMAIN rows :
               /\ rows'[i].alert = rows[i].alert
               /\ rows[i].status \in Terminal => rows'[i].status = rows[i].status,
           \A i \in DOMAIN rows' : WellKept(rows'[i], pages'),
           \A i \in DOMAIN rows' : Holding(rows'[i]) => i \in DOMAIN rows /\ Holding(rows[i]),
           \A a \in Alerts, c \in Channels :
               \/ /\ Open(rows', a, c) \subseteq Open(rows, a, c)
                  /\ pages'[<<a, c>>] = pages[<<a, c>>]
               \/ \E x \in Open(rows, a, c) :
                     /\ Open(rows', a, c) \subseteq Open(rows, a, c) \ {x}
                     /\ pages'[<<a, c>>] = pages[<<a, c>>] + 1
               \/ \E x \in Open(rows, a, c), y \in Nat :
                     /\ Open(rows', a, c) \subseteq (Open(rows, a, c) \ {x}) \cup {y}
                     /\ pages'[<<a, c>>] = pages[<<a, c>>],
           UNCHANGED <<alert, saved, raised, crashes>>
    PROVE  /\ TableInv(rows, pages, raised)' /\ TableInv(saved, pages, raised)'
           /\ SessionExtends' /\ RaisedHasRow' /\ PagesBounded'
<1>0. /\ rows \in Seq(Row) /\ saved \in Seq(Row)
      /\ pages \in [Alerts \X Channels -> Nat] /\ raised \in [Alerts -> Nat] /\ crashes \in Nat
    BY DEF TypeOK
<1>1. ASSUME NEW a \in Alerts, NEW c \in Channels
      PROVE  /\ Cardinality(Open(rows, a, c)) \in Nat /\ Cardinality(Open(rows', a, c)) \in Nat
             /\ Cardinality(Open(rows', a, c)) <= Cardinality(Open(rows, a, c))
             /\ pages'[<<a, c>>] + Cardinality(Open(rows', a, c))
                    <= pages[<<a, c>>] + Cardinality(Open(rows, a, c))
             /\ pages[<<a, c>>] \in Nat /\ pages'[<<a, c>>] \in Nat
             /\ pages[<<a, c>>] <= pages'[<<a, c>>]
    <2>1. pages[<<a, c>>] \in Nat /\ pages'[<<a, c>>] \in Nat
        BY <1>0
    <2>2. IsFiniteSet(Open(rows, a, c))
        BY <1>0, OpenFinite
    <2> DEFINE S == Open(rows, a, c)
               T == Open(rows', a, c)
               before == pages[<<a, c>>]
               after == pages'[<<a, c>>]
    <2>3. \/ T \subseteq S /\ after = before
          \/ \E x \in S : T \subseteq S \ {x} /\ after = before + 1
          \/ \E x \in S, y \in Nat : T \subseteq (S \ {x}) \cup {y} /\ after = before
        OBVIOUS
    <2> HIDE DEF S, T, before, after
    <2>4. /\ Cardinality(S) \in Nat /\ Cardinality(T) \in Nat
          /\ Cardinality(T) <= Cardinality(S)
          /\ after + Cardinality(T) <= before + Cardinality(S)
        BY <2>1, <2>2, <2>3, SpentWithin DEF S, before, after
    <2>5. before <= after
        BY <2>1, <2>3 DEF before, after
    <2> QED
        BY <2>1, <2>4, <2>5 DEF S, T, before, after
<1>2. HeldApart(rows')
    BY DEF QueueInv, TableInv, HeldApart
<1>3. TableInv(rows', pages', raised')
    <2>1. \A a \in Alerts, c \in Channels : Cardinality(Open(rows', a, c)) <= raised[a]
        <3> TAKE a \in Alerts, c \in Channels
        <3>1. Cardinality(Open(rows, a, c)) <= raised[a] /\ raised[a] \in Nat
            BY <1>0 DEF QueueInv, TableInv
        <3>2. /\ Cardinality(Open(rows, a, c)) \in Nat /\ Cardinality(Open(rows', a, c)) \in Nat
              /\ Cardinality(Open(rows', a, c)) <= Cardinality(Open(rows, a, c))
            BY <1>1
        <3> QED
            BY <3>1, <3>2
    <2> QED
        BY <1>2, <2>1 DEF TableInv
<1>4. TableInv(saved', pages', raised')
    <2>1. \A a \in Alerts, c \in Channels : pages[<<a, c>>] <= pages'[<<a, c>>]
        BY <1>1
    <2>2. TableInv(saved, pages, raised)
        BY DEF QueueInv
    <2> QED
        BY <1>0, <2>1, <2>2, TableStays
<1>5. SessionExtends'
    <2>1. /\ Len(saved) \in Nat /\ Len(rows) \in Nat /\ Len(rows') \in Nat
          /\ DOMAIN saved = 1..Len(saved) /\ DOMAIN rows = 1..Len(rows)
        BY <1>0
    <2>2. SessionExtends
        BY DEF QueueInv
    <2>3. DOMAIN saved \subseteq DOMAIN rows /\ Len(saved) <= Len(rows')
        BY <2>1, <2>2 DEF SessionExtends
    <2> QED
        BY <2>2, <2>3 DEF SessionExtends
<1>6. RaisedHasRow'
    BY DEF QueueInv, RaisedHasRow
<1>7. PagesBounded'
    <2> SUFFICES ASSUME NEW a \in Alerts, NEW c \in Channels
                 PROVE  pages'[<<a, c>>] + Cardinality(Open(rows', a, c))
                            <= raised[a] + crashes * (raised[a] + 1)
        BY DEF PagesBounded
    <2>1. pages[<<a, c>>] + Cardinality(Open(rows, a, c)) <= raised[a] + crashes * (raised[a] + 1)
        BY DEF QueueInv, PagesBounded
    <2> DEFINE bound == raised[a] + crashes * (raised[a] + 1)
    <2>2. bound \in Int
        BY <1>0
    <2> HIDE DEF bound
    <2> QED
        BY <1>1, <2>1, <2>2 DEF bound
<1> QED
    BY <1>3, <1>4, <1>5, <1>6, <1>7

\* Raising a notification for an alert opens at most one row to a channel
\* that did not receive it just now, and none to one that did.
LEMMA RaiseStep ==
    ASSUME TypeOK, QueueInv, NEW a \in Alerts,
           rows' \in Seq(Row), Len(rows) <= Len(rows'),
           pages' \in [Alerts \X Channels -> Nat],
           \A i \in DOMAIN rows : rows'[i].alert = rows[i].alert,
           \A i \in DOMAIN rows' : WellKept(rows'[i], pages'),
           HeldApart(rows'),
           \E i \in DOMAIN rows' : rows'[i].alert = a,
           \A b \in Alerts, c \in Channels :
               \/ Open(rows', b, c) \subseteq Open(rows, b, c) /\ pages'[<<b, c>>] = pages[<<b, c>>]
               \/ /\ b = a
                  /\ \/ /\ Open(rows', b, c) \subseteq Open(rows, b, c)
                        /\ pages'[<<b, c>>] = pages[<<b, c>>] + 1
                     \/ \E y \in Nat : /\ Open(rows', b, c) \subseteq Open(rows, b, c) \cup {y}
                                       /\ pages'[<<b, c>>] = pages[<<b, c>>],
           \A b \in Alerts : alert'[b].state # "none" => alert[b].state # "none" \/ b = a,
           rows = saved, saved' = rows', raised' = [raised EXCEPT ![a] = @ + 1],
           UNCHANGED crashes
    PROVE  /\ TableInv(rows, pages, raised)' /\ TableInv(saved, pages, raised)'
           /\ SessionExtends' /\ RaisedHasRow' /\ PagesBounded'
<1>0. /\ rows \in Seq(Row)
      /\ pages \in [Alerts \X Channels -> Nat] /\ raised \in [Alerts -> Nat] /\ crashes \in Nat
    BY DEF TypeOK
<1>1. ASSUME NEW b \in Alerts, NEW c \in Channels
      PROVE  /\ Cardinality(Open(rows', b, c)) <= raised'[b]
             /\ pages'[<<b, c>>] + Cardinality(Open(rows', b, c))
                    <= raised'[b] + crashes * (raised'[b] + 1)
    <2> DEFINE S == Open(rows, b, c)
               T == Open(rows', b, c)
               before == pages[<<b, c>>]
               after == pages'[<<b, c>>]
    <2>1. before \in Nat /\ after \in Nat /\ raised[b] \in Nat
        BY <1>0
    <2>2. raised'[b] = IF b = a THEN raised[b] + 1 ELSE raised[b]
        BY <1>0
    <2>3. IsFiniteSet(S) /\ Cardinality(S) \in Nat
        BY <1>0, OpenFinite
    <2>4. Cardinality(S) <= raised[b] /\ before + Cardinality(S) <= raised[b] + crashes * (raised[b] + 1)
        BY DEF QueueInv, TableInv, PagesBounded
    <2>5. \/ T \subseteq S /\ after = before
          \/ b = a /\ T \subseteq S /\ after = before + 1
          \/ b = a /\ \E y \in Nat : T \subseteq S \cup {y} /\ after = before
        OBVIOUS
    <2> HIDE DEF S, T, before, after
    <2>6. /\ Cardinality(T) \in Nat
          /\ \/ Cardinality(T) <= Cardinality(S) /\ after = before
             \/ b = a /\ Cardinality(T) <= Cardinality(S) /\ after = before + 1
             \/ b = a /\ Cardinality(T) <= Cardinality(S) + 1 /\ after = before
        <3>1. CASE T \subseteq S
            BY <2>3, <2>5, <3>1, FewerCounted
        <3>2. CASE b = a /\ after = before /\ \E y \in Nat : T \subseteq S \cup {y}
            BY <2>3, <3>2, OneMoreCounted
        <3> QED
            BY <2>5, <3>1, <3>2
    <2> DEFINE n == raised[b]
               m == raised'[b]
    <2>7. CASE b = a
        <3>1. m = n + 1 /\ n \in Nat
            BY <2>1, <2>2, <2>7
        <3> HIDE DEF n, m
        <3>2. crashes * (m + 1) = crashes * (n + 1) + crashes
            BY <1>0, <3>1
        <3>3. crashes * (n + 1) \in Int
            BY <1>0, <3>1
        <3>4. Cardinality(S) <= n /\ before + Cardinality(S) <= n + crashes * (n + 1)
            BY <2>4 DEF n
        <3>5. Cardinality(T) <= m /\ after + Cardinality(T) <= m + crashes * (m + 1)
            BY <1>0, <2>1, <2>3, <2>6, <3>1, <3>2, <3>3, <3>4
        <3> QED
            BY <3>5 DEF m, T, after
    <2>8. CASE b # a
        <3>1. m = n /\ n \in Nat
            BY <2>1, <2>2, <2>8
        <3>2. crashes * (n + 1) \in Int
            BY <1>0, <3>1
        <3> HIDE DEF n, m
        <3> QED
            BY <1>0, <2>1, <2>3, <2>4, <2>6, <2>8, <3>1, <3>2 DEF n, m, S, T, before, after
    <2> QED
        BY <2>7, <2>8
<1>2. TableInv(rows', pages', raised')
    BY <1>1 DEF TableInv
<1>3. SessionExtends'
    <2>1. Len(rows') <= Len(rows')
        OBVIOUS
    <2> QED
        BY <2>1 DEF SessionExtends
<1>4. RaisedHasRow'
    <2>1. DOMAIN rows \subseteq DOMAIN rows'
        BY <1>0
    <2> QED
        BY <2>1 DEF QueueInv, RaisedHasRow
<1>5. PagesBounded'
    BY <1>1 DEF PagesBounded
<1> QED
    BY <1>2, <1>3, <1>4, <1>5

\* What Notify leaves of the types, which rows it leaves unanswering, that it
\* settles none anew and that it changes none but a held one.
Notified(a) ==
    /\ rows' \in Seq(Row) /\ Len(rows') <= MaxRows
    /\ pages' \in [Alerts \X Channels -> Nat]
    /\ raised' \in [Alerts -> Nat]
    /\ TableInv(rows, pages, raised)' /\ TableInv(saved, pages, raised)'
    /\ SessionExtends' /\ RaisedHasRow' /\ PagesBounded'
    /\ \A i \in DOMAIN rows' : Accounts(rows'[i]) \/ (i \in DOMAIN rows /\ rows'[i] = rows[i])
    /\ \A i \in DOMAIN rows :
          /\ i \in DOMAIN rows' /\ rows'[i].alert = rows[i].alert
          /\ rows[i].status \in Terminal => rows'[i].status = rows[i].status
          /\ ~Holding(rows[i]) => rows'[i] = rows[i]

\* The notification is held: the alert's held row is refreshed, or one is added.
LEMMA NotifyHolds ==
    ASSUME TypeOK, QueueInv, job.pc = "idle", NEW a \in Alerts, Notify(a), Silenced,
           \A b \in Alerts : alert'[b].state # "none" => alert[b].state # "none" \/ b = a
    PROVE  Notified(a)
<1> DEFINE status == IF window.kind = "suppress" THEN "suppressed" ELSE "deferred"
           next   == IF window.kind = "suppress" THEN 0 ELSE window.ends
<1>0. /\ rows \in Seq(Row) /\ Len(rows) \in Nat /\ DOMAIN rows = 1..Len(rows) /\ now \in Nat
      /\ pages \in [Alerts \X Channels -> Nat] /\ raised \in [Alerts -> Nat]
      /\ rows = saved
    BY DEF TypeOK, QueueInv, AtRest
<1>1. status \in {"suppressed", "deferred"} /\ next \in Nat
    BY DEF TypeOK
<1>2. /\ RecordWithheld(a) /\ pages' = pages /\ saved' = rows'
      /\ raised' = [raised EXCEPT ![a] = @ + 1] /\ crashes' = crashes
      /\ Len(rows) + Cardinality(enabled) + 1 <= MaxRows
    BY DEF Notify
<1>3. Cardinality(enabled) \in Nat /\ MaxRows \in Nat
    BY ChannelsListed, DeliveryAssumption DEF TypeOK
<1>4. \A i \in DOMAIN rows : WellKept(rows[i], pages) /\ rows[i] \in Row
    BY <1>0 DEF QueueInv, TableInv
<1>5. HeldApart(rows)
    BY DEF QueueInv, TableInv
<1>6. raised' \in [Alerts -> Nat] /\ pages' \in [Alerts \X Channels -> Nat]
    BY <1>0, <1>2
<1>7. CASE Held(a) # {}
    <2>1. PICK i \in DOMAIN rows : Held(a) = {i} /\ Holding(rows[i]) /\ rows[i].alert = a
        BY <1>5, <1>7 DEF Held, HeldApart, Holding
    <2>2. i \in Nat /\ Min({i}) = i
        BY <1>0, <2>1 DEF Min
    <2> DEFINE q == [rows[i] EXCEPT !.status = status, !.next = next]
    <2>3. rows' = [rows EXCEPT ![i] = q]
        BY <1>2, <1>7, <2>1, <2>2 DEF RecordWithheld
    <2> HIDE DEF status, next
    <2>4. q \in Row /\ q.alert = a /\ q.key = rows[i].key /\ q.status = status
          /\ q.attempts = rows[i].attempts
        BY <1>1, <1>4, <2>1 DEF Row
    <2>5. WellKept(q, pages) /\ Holding(q) /\ Accounts(q)
        BY <1>1, <1>4, <2>1, <2>4 DEF WellKept, Holding, Accounts, Withheld, Unrouted
    <2> HIDE DEF q
    <2>6. rows' \in Seq(Row) /\ Len(rows') = Len(rows) /\ DOMAIN rows' = DOMAIN rows
          /\ rows'[i] = q /\ \A j \in DOMAIN rows : j # i => rows'[j] = rows[j]
        BY <1>0, <2>3, <2>4
    <2>7. \A j \in DOMAIN rows' : WellKept(rows'[j], pages')
        BY <1>2, <1>4, <2>5, <2>6
    <2>8. HeldApart(rows')
        BY <1>5, <2>1, <2>4, <2>6 DEF HeldApart
    <2>9. ASSUME NEW b \in Alerts, NEW c \in Channels
          PROVE  \/ Open(rows', b, c) \subseteq Open(rows, b, c)
                 \/ b = a /\ Open(rows', b, c) \subseteq Open(rows, b, c) \cup {i}
        BY <2>1, <2>4, <2>6 DEF Open
    <2>10. \A j \in DOMAIN rows : rows'[j].alert = rows[j].alert
        BY <2>1, <2>4, <2>6
    <2>11. /\ Len(rows) <= Len(rows') /\ Len(rows') <= MaxRows
           /\ \E j \in DOMAIN rows' : rows'[j].alert = a
        BY <1>0, <1>2, <1>3, <2>4, <2>6
    <2>12. /\ TableInv(rows, pages, raised)' /\ TableInv(saved, pages, raised)'
           /\ SessionExtends' /\ RaisedHasRow' /\ PagesBounded'
        <3>1. \A b \in Alerts, c \in Channels : pages'[<<b, c>>] = pages[<<b, c>>]
            BY <1>2
        <3> QED
            BY <1>0, <1>2, <1>6, <2>2, <2>6, <2>7, <2>8, <2>9, <2>10, <2>11, <3>1, RaiseStep
    <2>13. rows[i].status \notin Terminal
        BY <2>1 DEF Holding
    <2>14. \A j \in DOMAIN rows : ~Holding(rows[j]) => rows'[j] = rows[j]
        BY <2>1, <2>6
    <2> QED
        BY <1>6, <2>5, <2>6, <2>10, <2>11, <2>12, <2>13, <2>14 DEF Notified
<1>8. CASE Held(a) = {}
    <2> DEFINE q == NewRow(a, Withheld, status, next)
    <2>1. rows' = Append(rows, q)
        BY <1>2, <1>8 DEF RecordWithheld
    <2> HIDE DEF status, next
    <2>2. q \in Row
        BY <1>1, NewRowType
    <2>3. q.alert = a /\ q.key = Withheld /\ q.status = status /\ q.attempts = 0
        BY DEF NewRow
    <2> HIDE DEF q
    <2>4. WellKept(q, pages) /\ Holding(q) /\ Accounts(q)
        BY <1>1, <2>3 DEF WellKept, Holding, Accounts, Withheld, Unrouted
    <2> DEFINE k == Len(rows) + 1
    <2>5. rows' \in Seq(Row) /\ Len(rows') = k /\ DOMAIN rows' = DOMAIN rows \cup {k}
          /\ k \notin DOMAIN rows /\ k \in Nat
          /\ rows'[k] = q /\ \A j \in DOMAIN rows : rows'[j] = rows[j]
        BY <1>0, <2>1, <2>2
    <2>6. Len(rows) <= Len(rows') /\ Len(rows') <= MaxRows
        BY <1>0, <1>2, <1>3, <2>5
    <2> HIDE DEF k
    <2>7. \A j \in DOMAIN rows' : WellKept(rows'[j], pages')
        BY <1>2, <1>4, <2>4, <2>5
    <2>8. HeldApart(rows')
        <3>1. \A j \in DOMAIN rows : ~(Holding(rows[j]) /\ rows[j].alert = a)
            BY <1>8 DEF Held, Holding
        <3> QED
            BY <1>5, <2>3, <2>5, <3>1 DEF HeldApart
    <2>9. ASSUME NEW b \in Alerts, NEW c \in Channels
          PROVE  \/ Open(rows', b, c) \subseteq Open(rows, b, c)
                 \/ b = a /\ Open(rows', b, c) \subseteq Open(rows, b, c) \cup {k}
        BY <2>3, <2>5 DEF Open
    <2>10. /\ \A j \in DOMAIN rows : rows'[j].alert = rows[j].alert
           /\ \E j \in DOMAIN rows' : rows'[j].alert = a
        BY <2>3, <2>5
    <2>11. /\ TableInv(rows, pages, raised)' /\ TableInv(saved, pages, raised)'
           /\ SessionExtends' /\ RaisedHasRow' /\ PagesBounded'
        <3>1. \A b \in Alerts, c \in Channels : pages'[<<b, c>>] = pages[<<b, c>>]
            BY <1>2
        <3> QED
            BY <1>0, <1>2, <1>6, <2>5, <2>6, <2>7, <2>8, <2>9, <2>10, <3>1, RaiseStep
    <2> QED
        BY <1>6, <2>4, <2>5, <2>6, <2>11 DEF Notified
<1> QED
    BY <1>7, <1>8

\* The notification goes out, to every enabled channel or to the owed row.
LEMMA NotifyDispatches ==
    ASSUME TypeOK, QueueInv, job.pc = "idle", NEW a \in Alerts, Notify(a), ~Silenced,
           \A b \in Alerts : alert'[b].state # "none" => alert[b].state # "none" \/ b = a
    PROVE  Notified(a)
<1> DEFINE D == Dispatched(a)
<1>0. /\ rows \in Seq(Row) /\ Len(rows) \in Nat /\ DOMAIN rows = 1..Len(rows)
      /\ pages \in [Alerts \X Channels -> Nat] /\ raised \in [Alerts -> Nat]
      /\ rows = saved /\ MaxRows \in Nat /\ enabled \in SUBSET Channels
    BY DeliveryAssumption DEF TypeOK, QueueInv, AtRest
<1>1. /\ rows' = rows \o D /\ pages' = Paged({a}, enabled) /\ saved' = rows'
      /\ raised' = [raised EXCEPT ![a] = @ + 1] /\ crashes' = crashes
      /\ Len(rows) + Cardinality(enabled) + 1 <= MaxRows
    BY DEF Notify
<1>2. /\ D \in Seq(Row) /\ Len(D) > 0 /\ Len(D) <= Cardinality(enabled) + 1
      /\ Cardinality(enabled) \in Nat
      /\ \A k \in DOMAIN D : D[k].alert = a /\ ~Holding(D[k]) /\ Accounts(D[k]) /\ WellKept(D[k], pages')
      /\ \A c \in Channels : \A k \in DOMAIN D : MayReach(D[k], c) => ~(c \in enabled /\ health[c] = "up")
      /\ \A c \in Channels : \A k, l \in DOMAIN D : MayReach(D[k], c) /\ MayReach(D[l], c) => k = l
    BY <1>1, DispatchedFacts
<1> HIDE DEF D
<1>3. /\ rows' \in Seq(Row) /\ Len(rows') = Len(rows) + Len(D) /\ Len(D) \in Nat
      /\ \A i \in DOMAIN rows : i \in DOMAIN rows' /\ rows'[i] = rows[i]
      /\ \A i \in DOMAIN rows' \ DOMAIN rows :
            i - Len(rows) \in DOMAIN D /\ rows'[i] = D[i - Len(rows)] /\ i \in Nat
      /\ Len(rows) + 1 \in DOMAIN rows' \ DOMAIN rows
    BY <1>0, <1>1, <1>2
<1>4. Len(rows) <= Len(rows') /\ Len(rows') <= MaxRows
    BY <1>0, <1>1, <1>2, <1>3
<1>5. pages' \in [Alerts \X Channels -> Nat]
      /\ \A b \in Alerts, c \in Channels :
            pages'[<<b, c>>] = IF b \in {a} /\ c \in enabled /\ health[c] = "up"
                               THEN pages[<<b, c>>] + 1 ELSE pages[<<b, c>>]
    <2>1. {a} \in SUBSET Alerts
        OBVIOUS
    <2> QED
        BY <1>0, <1>1, <2>1, PagedFacts
<1>6. raised' \in [Alerts -> Nat]
    BY <1>0, <1>1
<1>7. TableInv(rows, pages', raised)
    <2>1. TableInv(rows, pages, raised)
        BY DEF QueueInv
    <2>2. \A b \in Alerts, c \in Channels : pages[<<b, c>>] \in Nat
        BY <1>0
    <2>3. \A b \in Alerts, c \in Channels : pages[<<b, c>>] <= pages'[<<b, c>>]
        <3> TAKE b \in Alerts, c \in Channels
        <3>1. \/ pages'[<<b, c>>] = pages[<<b, c>>] + 1 \/ pages'[<<b, c>>] = pages[<<b, c>>]
            BY <1>5
        <3>2. pages[<<b, c>>] \in Nat
            BY <2>2
        <3> QED
            BY <3>1, <3>2
    <2> QED
        BY <1>0, <1>5, <2>1, <2>3, TableStays
<1>8. \A i \in DOMAIN rows' : WellKept(rows'[i], pages')
    BY <1>2, <1>3, <1>7 DEF TableInv
<1>9. HeldApart(rows')
    <2>1. \A i \in DOMAIN rows' : Holding(rows'[i]) => i \in DOMAIN rows
        BY <1>2, <1>3
    <2>2. HeldApart(rows)
        BY <1>7 DEF TableInv
    <2>3. \A i \in DOMAIN rows : rows'[i] = rows[i]
        BY <1>3
    <2> QED
        BY <2>1, <2>2, <2>3 DEF HeldApart
<1>10. ASSUME NEW b \in Alerts, NEW c \in Channels
       PROVE  \/ Open(rows', b, c) \subseteq Open(rows, b, c) /\ pages'[<<b, c>>] = pages[<<b, c>>]
              \/ /\ b = a
                 /\ \/ /\ Open(rows', b, c) \subseteq Open(rows, b, c)
                       /\ pages'[<<b, c>>] = pages[<<b, c>>] + 1
                    \/ \E y \in Nat : /\ Open(rows', b, c) \subseteq Open(rows, b, c) \cup {y}
                                      /\ pages'[<<b, c>>] = pages[<<b, c>>]
    <2>1. CASE b # a
        BY <1>2, <1>3, <1>5, <2>1 DEF Open
    <2>2. CASE b = a /\ c \in enabled /\ health[c] = "up"
        <3>1. Open(rows', b, c) \subseteq Open(rows, b, c)
            BY <1>2, <1>3, <2>2 DEF Open
        <3> QED
            BY <1>5, <2>2, <3>1
    <2>3. CASE b = a /\ ~(c \in enabled /\ health[c] = "up")
        <3>1. pages'[<<b, c>>] = pages[<<b, c>>]
            BY <1>5, <2>3
        <3>2. \A i, j \in Open(rows', b, c) \ DOMAIN rows : i = j
            <4> TAKE i, j \in Open(rows', b, c) \ DOMAIN rows
            <4>1. /\ i - Len(rows) \in DOMAIN D /\ j - Len(rows) \in DOMAIN D /\ i \in Nat /\ j \in Nat
                  /\ MayReach(D[i - Len(rows)], c) /\ MayReach(D[j - Len(rows)], c)
                BY <1>3 DEF Open
            <4>2. i - Len(rows) = j - Len(rows)
                BY <1>2, <4>1
            <4> QED
                BY <1>0, <4>1, <4>2
        <3>3. \A i \in Open(rows', b, c) : i \in DOMAIN rows => i \in Open(rows, b, c)
            BY <1>3 DEF Open
        <3>4. CASE Open(rows', b, c) \subseteq DOMAIN rows
            BY <3>1, <3>3, <3>4
        <3>5. CASE ~(Open(rows', b, c) \subseteq DOMAIN rows)
            <4>1. PICK y \in Open(rows', b, c) : y \notin DOMAIN rows
                BY <3>5
            <4>2. y \in Nat
                BY <1>3, <4>1 DEF Open
            <4>3. Open(rows', b, c) \subseteq Open(rows, b, c) \cup {y}
                BY <3>2, <3>3, <4>1
            <4> QED
                BY <2>3, <3>1, <4>2, <4>3
        <3> QED
            BY <3>4, <3>5
    <2> QED
        BY <2>1, <2>2, <2>3
<1>11. /\ \A i \in DOMAIN rows : rows'[i].alert = rows[i].alert
       /\ \E i \in DOMAIN rows' : rows'[i].alert = a
    BY <1>2, <1>3
<1>12. /\ TableInv(rows, pages, raised)' /\ TableInv(saved, pages, raised)'
       /\ SessionExtends' /\ RaisedHasRow' /\ PagesBounded'
    BY <1>0, <1>1, <1>3, <1>4, <1>5, <1>8, <1>9, <1>10, <1>11, RaiseStep
<1> QED
    BY <1>2, <1>3, <1>4, <1>5, <1>6, <1>12 DEF Notified

-----------------------------------------------------------------------------
(* Type correctness and the invariant, step by step.                       *)

\* A row that came to stand in the table answers for its alert, or the alert
\* is resolved.
Answering ==
    \A i \in DOMAIN rows' :
        \/ Accounts(rows'[i]) \/ alert[rows'[i].alert].state = "resolved"
        \/ i \in DOMAIN rows /\ rows'[i] = rows[i]

\* The row that was treated is settled or due no earlier than the sweep, and
\* the others stay as they are.
LeftBehind(i) ==
    /\ \A k \in DOMAIN rows : k \in DOMAIN rows' /\ (k # i => rows'[k] = rows[k])
    /\ \/ rows'[i].status \in Terminal
       \/ rows'[i].status \in Retryable /\ rows'[i].next >= job.at

\* A row of the batch is an open one, and a sweep is on.
LEMMA TurnFacts ==
    ASSUME TypeOK, QueueInv, NEW i, Turn(i)
    PROVE  /\ i \in job.todo /\ i \in DOMAIN rows /\ i \in Nat /\ i <= Len(rows)
           /\ rows[i] \in Row /\ rows[i].alert \in Alerts
           /\ rows[i].status \in Retryable /\ rows[i].attempts < MaxAttempts
           /\ rows[i].key \in Channels \cup {Unrouted}
           /\ ~Holding(rows[i]) /\ WellKept(rows[i], pages)
           /\ job.pc # "idle" /\ job.at \in Nat /\ job.chans \in SUBSET Channels
<1>1. i \in job.todo /\ i \in DOMAIN rows /\ rows[i].status \in Retryable
    BY DEF Turn, QueueInv, InHand
<1>2. rows \in Seq(Row) /\ job \in Jobs
    BY DEF TypeOK
<1>3. rows[i] \in Row /\ i \in Nat /\ i <= Len(rows)
    BY <1>1, <1>2
<1>4. WellKept(rows[i], pages)
    BY <1>1 DEF QueueInv, TableInv
<1>5. job.pc # "idle" /\ job.at \in Nat /\ job.chans \in SUBSET Channels
    BY <1>1, <1>2 DEF QueueInv, AtRest, Jobs
<1>6. rows[i].alert \in Alerts /\ rows[i].key \in Keys
    BY <1>3 DEF Row
<1> QED
    BY <1>1, <1>3, <1>4, <1>5, <1>6 DEF WellKept, Holding

\* One row of the batch is treated: it does not come to reach more channels,
\* and what it sends it can no longer send.
LEMMA OneTreated ==
    ASSUME TypeOK, QueueInv, NEW i, Turn(i), NEW q \in Row, Processed(i),
           rows' = [rows EXCEPT ![i] = q],
           q.alert = rows[i].alert, WellKept(q, pages'), ~Holding(q),
           pages' \in [Alerts \X Channels -> Nat],
           \A a \in Alerts, c \in Channels :
               \/ /\ pages'[<<a, c>>] = pages[<<a, c>>]
                  /\ MayReach(q, c) => MayReach(rows[i], c)
               \/ /\ a = rows[i].alert /\ pages'[<<a, c>>] = pages[<<a, c>>] + 1
                  /\ MayReach(rows[i], c) /\ ~MayReach(q, c),
           UNCHANGED <<worldVars, alert, saved, raised, crashes, passedOver>>
    PROVE  TypeOK' /\ QueueInv'
<1>0. /\ rows \in Seq(Row) /\ Len(rows) \in Nat /\ DOMAIN rows = 1..Len(rows)
      /\ pages \in [Alerts \X Channels -> Nat] /\ job \in Jobs
    BY DEF TypeOK
<1>1. /\ i \in job.todo /\ i \in DOMAIN rows /\ rows[i] \in Row /\ rows[i].status \notin Terminal
      /\ rows[i].alert \in Alerts /\ ~Holding(rows[i]) /\ job.pc # "idle"
    BY TurnFacts
<1>2. /\ rows' \in Seq(Row) /\ Len(rows') = Len(rows) /\ DOMAIN rows' = DOMAIN rows
      /\ rows'[i] = q /\ \A j \in DOMAIN rows : j # i => rows'[j] = rows[j]
    BY <1>0, <1>1
<1>3. job' \in Jobs /\ job'.pc = job.pc /\ job'.todo = job.todo \ {i}
    BY <1>0 DEF Processed, Jobs
<1>4. TypeOK'
    BY <1>2, <1>3 DEF TypeOK, worldVars
<1>5. \A a \in Alerts, c \in Channels : pages[<<a, c>>] <= pages'[<<a, c>>]
    <2> TAKE a \in Alerts, c \in Channels
    <2>1. pages[<<a, c>>] \in Nat
        BY <1>0
    <2>2. pages'[<<a, c>>] = pages[<<a, c>>] \/ pages'[<<a, c>>] = pages[<<a, c>>] + 1
        OBVIOUS
    <2> QED
        BY <2>1, <2>2
<1>6. \A j \in DOMAIN rows' : WellKept(rows'[j], pages')
    <2>1. TableInv(rows, pages', raised)
        BY <1>0, <1>5, TableStays DEF QueueInv
    <2> QED
        BY <1>2, <2>1 DEF TableInv
<1>7. \A j \in DOMAIN rows :
          /\ rows'[j].alert = rows[j].alert
          /\ rows[j].status \in Terminal => rows'[j].status = rows[j].status
    BY <1>1, <1>2
<1>8. \A j \in DOMAIN rows' : Holding(rows'[j]) => j \in DOMAIN rows /\ Holding(rows[j])
    BY <1>2
<1>9. ASSUME NEW a \in Alerts, NEW c \in Channels
      PROVE  \/ /\ Open(rows', a, c) \subseteq Open(rows, a, c)
                /\ pages'[<<a, c>>] = pages[<<a, c>>]
             \/ \E x \in Open(rows, a, c) :
                   /\ Open(rows', a, c) \subseteq Open(rows, a, c) \ {x}
                   /\ pages'[<<a, c>>] = pages[<<a, c>>] + 1
    <2>1. CASE pages'[<<a, c>>] = pages[<<a, c>>] /\ (MayReach(q, c) => MayReach(rows[i], c))
        BY <1>2, <2>1 DEF Open
    <2>2. CASE /\ a = rows[i].alert /\ pages'[<<a, c>>] = pages[<<a, c>>] + 1
               /\ MayReach(rows[i], c) /\ ~MayReach(q, c)
        <3>1. i \in Open(rows, a, c)
            BY <1>1, <2>2 DEF Open
        <3>2. Open(rows', a, c) \subseteq Open(rows, a, c) \ {i}
            BY <1>2, <2>2 DEF Open
        <3> QED
            BY <2>2, <3>1, <3>2
    <2> QED
        BY <2>1, <2>2
<1>10. /\ TableInv(rows, pages, raised)' /\ TableInv(saved, pages, raised)'
       /\ SessionExtends' /\ RaisedHasRow' /\ PagesBounded'
    <2>1. Len(rows) <= Len(rows')
        BY <1>0, <1>2
    <2> QED
        BY <1>2, <1>6, <1>7, <1>8, <1>9, <2>1, SweepStep
<1>11. AtRest'
    BY <1>1, <1>3 DEF AtRest
<1>12. InHand'
    BY <1>2, <1>3 DEF QueueInv, InHand
<1> QED
    BY <1>4, <1>10, <1>11, <1>12 DEF QueueInv

LEMMA CloseResolvedStep ==
    ASSUME TypeOK, QueueInv, NEW i, CloseResolved(i)
    PROVE  TypeOK' /\ QueueInv' /\ Answering /\ LeftBehind(i)
<1> DEFINE q == Close(rows[i], "resolved")
<1>1. /\ Turn(i) /\ Resolved(rows[i]) /\ Processed(i)
      /\ UNCHANGED <<worldVars, alert, saved, raised, crashes, passedOver>> /\ pages' = pages
    BY DEF CloseResolved, historyVars
<1>2. rows[i] \in Row /\ i \in DOMAIN rows /\ rows \in Seq(Row)
    BY <1>1, TurnFacts DEF TypeOK
<1>3. rows' = [rows EXCEPT ![i] = q]
    BY <1>2 DEF CloseResolved
<1>4. q \in Row /\ q.alert = rows[i].alert /\ q.status = "dead"
    BY <1>2, CloseFacts
<1> HIDE DEF q
<1>5. WellKept(q, pages') /\ ~Holding(q) /\ \A c \in Channels : ~MayReach(q, c)
    BY <1>4 DEF WellKept, Holding, MayReach
<1>6. pages' \in [Alerts \X Channels -> Nat]
    BY <1>1 DEF TypeOK
<1>7. TypeOK' /\ QueueInv'
    BY <1>1, <1>3, <1>4, <1>5, <1>6, OneTreated
<1>8. Answering
    BY <1>1, <1>2, <1>3, <1>4 DEF Answering, Resolved
<1>9. LeftBehind(i)
    BY <1>2, <1>3, <1>4 DEF LeftBehind
<1> QED
    BY <1>7, <1>8, <1>9

LEMMA ResendStep ==
    ASSUME TypeOK, QueueInv, NEW i, Resend(i)
    PROVE  TypeOK' /\ QueueInv' /\ Answering /\ LeftBehind(i)
<1> DEFINE r == rows[i]
           q == ApplyResult(r, r.key, job.at)
<1>1. /\ Turn(i) /\ r.key # Unrouted /\ Processed(i)
      /\ pages' = Paged({r.alert}, {r.key})
      /\ UNCHANGED <<worldVars, alert, saved, raised, crashes, passedOver>>
    BY DEF Resend
<1>2. /\ r \in Row /\ i \in DOMAIN rows /\ rows \in Seq(Row) /\ r.alert \in Alerts
      /\ r.key \in Channels /\ r.attempts < MaxAttempts /\ r.status \in Retryable /\ job.at \in Nat
      /\ pages \in [Alerts \X Channels -> Nat]
    BY <1>1, TurnFacts DEF TypeOK
<1>3. rows' = [rows EXCEPT ![i] = q]
    BY <1>2 DEF Resend
<1>4. /\ q \in Row /\ q.alert = r.alert /\ q.key = r.key
      /\ q.status \in {"delivered", "skipped", "dead", "failed"}
      /\ q.status = "delivered" <=> health[r.key] = "up"
      /\ q.status = "failed" => q.attempts < MaxAttempts /\ q.next >= job.at
      /\ q.status = "dead" => q.why = "exhausted"
    BY <1>2, ApplyResultFacts
<1>5. /\ pages' \in [Alerts \X Channels -> Nat]
      /\ \A a \in Alerts, c \in Channels :
            pages'[<<a, c>>] = IF a \in {r.alert} /\ c \in {r.key} /\ health[c] = "up"
                               THEN pages[<<a, c>>] + 1 ELSE pages[<<a, c>>]
    <2>1. {r.alert} \in SUBSET Alerts /\ {r.key} \in SUBSET Channels
        BY <1>2
    <2> QED
        BY <1>1, <2>1, PagedFacts
<1> HIDE DEF q
<1>6. r.key \notin {Unrouted, Withheld}
    BY <1>2, DeliveryAssumption
<1>7. ~Holding(q) /\ Accounts(q)
    BY <1>4 DEF Holding, Accounts
<1>8. WellKept(q, pages')
    <2>1. q.status = "delivered" => pages'[<<q.alert, r.key>>] > 0
        <3>1. pages[<<r.alert, r.key>>] \in Nat
            BY <1>2
        <3> QED
            BY <1>2, <1>4, <1>5, <3>1
    <2> QED
        BY <1>2, <1>4, <1>6, <2>1 DEF WellKept, Holding
<1>9. ASSUME NEW a \in Alerts, NEW c \in Channels
      PROVE  \/ /\ pages'[<<a, c>>] = pages[<<a, c>>]
                /\ MayReach(q, c) => MayReach(rows[i], c)
             \/ /\ a = rows[i].alert /\ pages'[<<a, c>>] = pages[<<a, c>>] + 1
                /\ MayReach(rows[i], c) /\ ~MayReach(q, c)
    <2>1. MayReach(q, c) => MayReach(r, c)
        BY <1>2, <1>4, <1>6 DEF MayReach
    <2>2. c = r.key => MayReach(r, c)
        BY <1>2 DEF MayReach
    <2>3. c = r.key /\ health[c] = "up" => ~MayReach(q, c)
        BY <1>4 DEF MayReach
    <2> QED
        BY <1>5, <2>1, <2>2, <2>3
<1>10. TypeOK' /\ QueueInv'
    BY <1>1, <1>3, <1>4, <1>5, <1>7, <1>8, <1>9, OneTreated
<1>11. Answering
    BY <1>2, <1>3, <1>7 DEF Answering
<1>12. LeftBehind(i)
    BY <1>2, <1>3, <1>4 DEF LeftBehind
<1> QED
    BY <1>10, <1>11, <1>12

LEMMA KeepOwedStep ==
    ASSUME TypeOK, QueueInv, NEW i, KeepOwed(i)
    PROVE  TypeOK' /\ QueueInv' /\ Answering /\ LeftBehind(i)
<1> DEFINE r == rows[i]
           q == IF job.at - r.created < GiveUp THEN [r EXCEPT !.next = job.at]
                ELSE Close(r, "gave up")
<1>1. /\ Turn(i) /\ r.key = Unrouted /\ Processed(i) /\ pages' = pages
      /\ UNCHANGED <<worldVars, alert, saved, raised, crashes, passedOver>>
    BY DEF KeepOwed, historyVars
<1>2. /\ r \in Row /\ i \in DOMAIN rows /\ rows \in Seq(Row) /\ r.status \in Retryable
      /\ job.at \in Nat /\ WellKept(r, pages)
    BY <1>1, TurnFacts DEF TypeOK
<1>3. rows' = [rows EXCEPT ![i] = q]
    BY <1>2 DEF KeepOwed
<1>4. /\ q \in Row /\ q.alert = r.alert /\ q.key = r.key
      /\ \/ q.status = r.status /\ q.attempts = r.attempts /\ q.next >= job.at
         \/ q.status = "dead" /\ q.why = "gave up"
    <2>1. CASE job.at - r.created < GiveUp
        <3>1. /\ q \in Row /\ q.alert = r.alert /\ q.key = r.key /\ q.status = r.status
              /\ q.attempts = r.attempts /\ q.next = job.at
            BY <1>2, <2>1 DEF Row
        <3> HIDE DEF q
        <3>2. q.next >= job.at
            BY <1>2, <3>1
        <3> QED
            BY <3>1, <3>2
    <2>2. CASE ~(job.at - r.created < GiveUp)
        BY <1>2, <2>2, CloseFacts
    <2> QED
        BY <2>1, <2>2
<1> HIDE DEF q
<1>5. ~Holding(q) /\ Accounts(q) /\ WellKept(q, pages')
    BY <1>1, <1>2, <1>4 DEF Holding, Accounts, WellKept
<1>6. \A c \in Channels : MayReach(q, c) => MayReach(r, c)
    BY <1>2, <1>4 DEF MayReach
<1>7. pages' \in [Alerts \X Channels -> Nat]
    BY <1>1 DEF TypeOK
<1>8. TypeOK' /\ QueueInv'
    BY <1>1, <1>3, <1>4, <1>5, <1>6, <1>7, OneTreated
<1>9. Answering
    BY <1>2, <1>3, <1>5 DEF Answering
<1>10. LeftBehind(i)
    BY <1>2, <1>3, <1>4 DEF LeftBehind
<1> QED
    BY <1>8, <1>9, <1>10

\* The owed row is closed because every target has heard since.
LEMMA FanOutSuperseded ==
    ASSUME TypeOK, QueueInv, NEW i, Turn(i), rows[i].key = Unrouted, Processed(i),
           rows' = [rows EXCEPT ![i] = Close(@, "superseded")],
           UNCHANGED <<worldVars, alert, saved, historyVars>>
    PROVE  TypeOK' /\ QueueInv' /\ Answering /\ LeftBehind(i)
<1> DEFINE q == Close(rows[i], "superseded")
<1>1. rows[i] \in Row /\ i \in DOMAIN rows /\ rows \in Seq(Row)
    BY TurnFacts DEF TypeOK
<1>2. rows' = [rows EXCEPT ![i] = q]
    BY <1>1
<1>3. q \in Row /\ q.alert = rows[i].alert /\ q.status = "dead" /\ q.why = "superseded"
    BY <1>1, CloseFacts
<1> HIDE DEF q
<1>4. WellKept(q, pages') /\ ~Holding(q) /\ Accounts(q) /\ \A c \in Channels : ~MayReach(q, c)
    BY <1>3 DEF WellKept, Holding, MayReach, Accounts
<1>5. pages' = pages /\ pages' \in [Alerts \X Channels -> Nat]
    BY DEF TypeOK, historyVars
<1>6. UNCHANGED <<worldVars, alert, saved, raised, crashes, passedOver>>
    BY DEF historyVars
<1>7. TypeOK' /\ QueueInv'
    BY <1>2, <1>3, <1>4, <1>5, <1>6, OneTreated
<1>8. Answering
    BY <1>1, <1>2, <1>4 DEF Answering
<1>9. LeftBehind(i)
    BY <1>1, <1>2, <1>3 DEF LeftBehind
<1> QED
    BY <1>7, <1>8, <1>9

\* Every target is mute: the row stays owed.
LEMMA FanOutStaysOwed ==
    ASSUME TypeOK, QueueInv, NEW i, Turn(i), rows[i].key = Unrouted, Processed(i),
           rows' = [rows EXCEPT ![i] = Owed(@)],
           UNCHANGED <<worldVars, alert, saved, historyVars>>
    PROVE  TypeOK' /\ QueueInv' /\ Answering /\ LeftBehind(i)
<1> DEFINE q == Owed(rows[i])
<1>1. /\ rows[i] \in Row /\ i \in DOMAIN rows /\ rows \in Seq(Row) /\ job.at \in Nat
      /\ rows[i].status \in Retryable
    BY TurnFacts DEF TypeOK
<1>2. rows' = [rows EXCEPT ![i] = q]
    BY <1>1
<1>3. 0 < MaxAttempts /\ 0 \in 0..MaxAttempts
    BY DeliveryAssumption
<1>4. q \in Row /\ q.alert = rows[i].alert /\ q.status = "pending" /\ q.key = Unrouted /\ q.attempts = 0
      /\ q.next >= job.at
    <2>1. /\ q \in Row /\ q.alert = rows[i].alert /\ q.status = "pending" /\ q.key = Unrouted
          /\ q.attempts = 0 /\ q.next = job.at
        BY <1>1, <1>3 DEF Owed, Row
    <2> HIDE DEF q
    <2> QED
        BY <1>1, <2>1
<1> HIDE DEF q
<1>5. WellKept(q, pages') /\ ~Holding(q) /\ Accounts(q)
    BY <1>3, <1>4 DEF WellKept, Holding, Accounts, Unrouted, Withheld
<1>6. \A c \in Channels : MayReach(rows[i], c)
    BY <1>1 DEF MayReach
<1>7. pages' = pages /\ pages' \in [Alerts \X Channels -> Nat]
    BY DEF TypeOK, historyVars
<1>8. UNCHANGED <<worldVars, alert, saved, raised, crashes, passedOver>>
    BY DEF historyVars
<1>9. TypeOK' /\ QueueInv'
    BY <1>2, <1>4, <1>5, <1>6, <1>7, <1>8, OneTreated
<1>10. Answering
    BY <1>1, <1>2, <1>5 DEF Answering
<1>11. LeftBehind(i)
    BY <1>1, <1>2, <1>4 DEF LeftBehind
<1> QED
    BY <1>9, <1>10, <1>11

\* The owed row becomes the first target's and siblings the others': the
\* channels it could reach are shared out among them, each to one row.
SentRows(i, C) ==
    [k \in 1..Cardinality(C) |->
        ApplyResult(IF k = 1 THEN [rows[i] EXCEPT !.key = SetToSeq(C)[1]]
                    ELSE NewRow(rows[i].alert, SetToSeq(C)[k], "pending", 0),
                    SetToSeq(C)[k], job.at)]

Siblings(i, C) == [k \in 1..Cardinality(C) - 1 |-> SentRows(i, C)[k + 1]]

LEMMA FanOutSends ==
    ASSUME TypeOK, QueueInv, NEW i, Turn(i), rows[i].key = Unrouted,
           NEW STATE C, C \in SUBSET Channels, C # {},
           Len(rows) + Len(Siblings(i, C)) <= MaxRows,
           rows' = [rows EXCEPT ![i] = SentRows(i, C)[1]] \o Siblings(i, C),
           pages' = Paged({rows[i].alert}, C),
           job' = [job EXCEPT !.todo = @ \ {i}, !.stamp = @ \cup {rows[i].alert}],
           UNCHANGED <<worldVars, alert, saved, raised, crashes, passedOver>>
    PROVE  TypeOK' /\ QueueInv' /\ Answering /\ LeftBehind(i)
<1> DEFINE r == rows[i]
           chan(k) == SetToSeq(C)[k]
           M == Cardinality(C)
           sent == SentRows(i, C)
           siblings == Siblings(i, C)
           idx(k) == IF k = 1 THEN i ELSE Len(rows) + k - 1
<1>0. /\ rows \in Seq(Row) /\ Len(rows) \in Nat /\ DOMAIN rows = 1..Len(rows)
      /\ pages \in [Alerts \X Channels -> Nat] /\ job \in Jobs
    BY DEF TypeOK
<1>1. /\ i \in job.todo /\ i \in DOMAIN rows /\ i \in Nat /\ i <= Len(rows) /\ r \in Row
      /\ r.alert \in Alerts /\ r.status \in Retryable /\ r.attempts < MaxAttempts
      /\ ~Holding(r) /\ job.pc # "idle" /\ job.at \in Nat
    BY TurnFacts
<1>2. /\ M \in Nat /\ M > 0
      /\ \A k \in 1..M : chan(k) \in C /\ chan(k) \in Channels /\ chan(k) \notin {Unrouted, Withheld}
      /\ \A k, l \in 1..M : chan(k) = chan(l) => k = l
      /\ \A c \in C : \E k \in 1..M : chan(k) = c
    <2>1. /\ Range(SetToSeq(C)) = C /\ DOMAIN SetToSeq(C) = 1..M /\ M \in Nat /\ M > 0
          /\ \A k \in 1..M : chan(k) \in C
          /\ \A k, l \in 1..M : chan(k) = chan(l) => k = l
        BY ChannelsListed
    <2>2. \A c \in C : \E k \in 1..M : chan(k) = c
        BY <2>1 DEF Range
    <2>3. \A c \in C : c \in Channels /\ c \notin {Unrouted, Withheld}
        BY DeliveryAssumption
    <2> HIDE DEF M, chan
    <2> QED
        BY <2>1, <2>2, <2>3
<1> HIDE DEF M, chan
<1>3. ASSUME NEW k \in 1..M
      PROVE  /\ sent[k] \in Row /\ sent[k].alert = r.alert /\ sent[k].key = chan(k)
             /\ sent[k].status \in {"delivered", "skipped", "dead", "failed"}
             /\ sent[k].status = "delivered" <=> health[chan(k)] = "up"
             /\ sent[k].status = "failed" =>
                   health[chan(k)] = "down" /\ sent[k].attempts < MaxAttempts /\ sent[k].next >= job.at
             /\ sent[k].status = "dead" => sent[k].why = "exhausted"
    <2> DEFINE q == IF k = 1 THEN [r EXCEPT !.key = chan(1)] ELSE NewRow(r.alert, chan(k), "pending", 0)
    <2>1. sent[k] = ApplyResult(q, chan(k), job.at)
        BY DEF M, chan, SentRows
    <2>2. chan(k) \in Channels /\ chan(k) \in Keys
        BY <1>2
    <2>3. q \in Row /\ q.attempts < MaxAttempts /\ q.alert = r.alert /\ q.key = chan(k)
        <3>1. CASE k = 1
            BY <1>1, <2>2, <3>1 DEF Row
        <3>2. CASE k # 1
            <4> DEFINE u == NewRow(r.alert, chan(k), "pending", 0)
            <4>1. u \in Row /\ u.attempts < MaxAttempts
                BY <1>1, <2>2, NewRowType
            <4>2. u.alert = r.alert /\ u.key = chan(k)
                BY DEF NewRow
            <4>3. q = u
                BY <3>2
            <4> QED
                BY <4>1, <4>2, <4>3
        <3> QED
            BY <3>1, <3>2
    <2> HIDE DEF q, r
    <2> QED
        BY <1>1, <2>1, <2>2, <2>3, ApplyResultFacts
<1>4. siblings \in Seq(Row) /\ Len(siblings) = M - 1
      /\ \A k \in DOMAIN siblings : k + 1 \in 2..M /\ siblings[k] = sent[k + 1]
    <2>1. siblings = [k \in 1..M - 1 |-> sent[k + 1]]
        BY DEF Siblings, M
    <2>2. \A k \in 1..M - 1 : k + 1 \in 2..M /\ k + 1 \in 1..M
        BY <1>2
    <2> HIDE DEF sent, siblings
    <2>3. \A k \in 1..M - 1 : sent[k + 1] \in Row
        BY <1>3, <2>2
    <2> DEFINE N == M - 1
    <2>4. N \in Nat /\ siblings = [k \in 1..N |-> sent[k + 1]] /\ \A k \in 1..N : sent[k + 1] \in Row
        BY <1>2, <2>1, <2>3
    <2> HIDE DEF N
    <2>5. siblings \in Seq(Row) /\ Len(siblings) = N /\ DOMAIN siblings = 1..N
        BY <2>4
    <2> QED
        BY <2>1, <2>2, <2>5 DEF N
<1> HIDE DEF sent, siblings
<1> DEFINE base == [rows EXCEPT ![i] = sent[1]]
<1>5. /\ base \in Seq(Row) /\ Len(base) = Len(rows) /\ base[i] = sent[1]
      /\ \A j \in DOMAIN rows : j # i => base[j] = rows[j]
    <2>1. 1 \in 1..M
        BY <1>2
    <2>2. sent[1] \in Row
        BY <1>3, <2>1
    <2> QED
        BY <1>0, <1>1, <2>2
<1>6. /\ rows' \in Seq(Row) /\ Len(rows') = Len(rows) + (M - 1)
      /\ \A j \in DOMAIN rows : j \in DOMAIN rows' /\ rows'[j] = base[j]
      /\ \A j \in DOMAIN rows' \ DOMAIN rows :
            j - Len(rows) \in DOMAIN siblings /\ rows'[j] = siblings[j - Len(rows)] /\ j \in Nat
    <2>1. rows' = base \o siblings
        BY DEF sent, siblings
    <2> HIDE DEF base
    <2>2. rows' \in Seq(Row) /\ Len(rows') = Len(rows) + (M - 1) /\ M - 1 \in Nat
        <3>0. base \in Seq(Row) /\ siblings \in Seq(Row)
            BY <1>4, <1>5
        <3>1. rows' \in Seq(Row) /\ Len(rows') = Len(base) + Len(siblings)
            BY <2>1, <3>0, Concatenated, Zenon
        <3>2. M - 1 \in Nat
            BY <1>2
        <3> QED
            BY <1>4, <1>5, <3>1, <3>2
    <2>3. \A j \in DOMAIN rows : j \in DOMAIN rows' /\ rows'[j] = base[j]
        BY <1>0, <1>4, <1>5, <2>1, <2>2
    <2>4. ASSUME NEW j \in DOMAIN rows', j \notin DOMAIN rows
          PROVE  j - Len(rows) \in DOMAIN siblings /\ rows'[j] = siblings[j - Len(rows)] /\ j \in Nat
        <3>1. j \in Nat /\ j > Len(rows) /\ j <= Len(rows) + Len(siblings)
            BY <1>0, <1>4, <2>2, <2>4
        <3> QED
            BY <1>0, <1>4, <1>5, <2>1, <3>1
    <2> QED
        BY <2>2, <2>3, <2>4
<1>7. Len(rows) <= Len(rows') /\ Len(rows') <= MaxRows
    BY <1>0, <1>2, <1>4, <1>6
<1>8. \A j \in DOMAIN rows' :
          \/ j \in DOMAIN rows /\ j # i /\ rows'[j] = rows[j]
          \/ \E k \in 1..M : j = idx(k) /\ rows'[j] = sent[k]
    <2> TAKE j \in DOMAIN rows'
    <2>1. CASE j \in DOMAIN rows /\ j # i
        BY <1>5, <1>6, <2>1
    <2>2. CASE j = i
        BY <1>1, <1>2, <1>5, <1>6, <2>2
    <2>3. CASE j \notin DOMAIN rows
        <3> DEFINE k == j - Len(rows) + 1
        <3>1. k \in 2..M /\ rows'[j] = sent[k] /\ j \in Nat
            BY <1>0, <1>4, <1>6, <2>3
        <3>2. k \in 1..M /\ j = idx(k)
            BY <1>0, <1>2, <3>1
        <3> HIDE DEF k, idx
        <3> QED
            BY <3>1, <3>2
    <2> QED
        BY <2>1, <2>2, <2>3
<1>9. rows'[i] = sent[1] /\ \A j \in DOMAIN rows : j # i => rows'[j] = rows[j]
    BY <1>1, <1>5, <1>6
<1>10. /\ pages' \in [Alerts \X Channels -> Nat]
       /\ \A a \in Alerts, c \in Channels :
             pages'[<<a, c>>] = IF a \in {r.alert} /\ c \in C /\ health[c] = "up"
                                THEN pages[<<a, c>>] + 1 ELSE pages[<<a, c>>]
    <2>1. {r.alert} \in SUBSET Alerts
        BY <1>1
    <2> QED
        BY <2>1, PagedFacts
<1>11. job' \in Jobs /\ job'.pc = job.pc /\ job'.todo = job.todo \ {i}
    BY <1>0, <1>1 DEF Jobs
<1>12. TypeOK'
    BY <1>6, <1>7, <1>10, <1>11 DEF TypeOK, worldVars
<1>13. \A a \in Alerts, c \in Channels : pages[<<a, c>>] <= pages'[<<a, c>>]
    <2> TAKE a \in Alerts, c \in Channels
    <2>1. pages[<<a, c>>] \in Nat
        BY <1>0
    <2>2. pages'[<<a, c>>] = pages[<<a, c>>] \/ pages'[<<a, c>>] = pages[<<a, c>>] + 1
        BY <1>10
    <2> QED
        BY <2>1, <2>2
<1>14. \A k \in 1..M : WellKept(sent[k], pages') /\ ~Holding(sent[k]) /\ Accounts(sent[k])
    <2> TAKE k \in 1..M
    <2>1. sent[k].status = "delivered" => pages'[<<sent[k].alert, chan(k)>>] > 0
        <3>1. pages[<<r.alert, chan(k)>>] \in Nat
            BY <1>0, <1>1, <1>2
        <3>2. health[chan(k)] = "up" => pages'[<<r.alert, chan(k)>>] = pages[<<r.alert, chan(k)>>] + 1
            BY <1>1, <1>2, <1>10
        <3>3. sent[k].alert = r.alert /\ (sent[k].status = "delivered" => health[chan(k)] = "up")
            BY <1>3
        <3> QED
            BY <3>1, <3>2, <3>3
    <2> QED
        BY <1>2, <1>3, <2>1 DEF WellKept, Holding, Accounts
<1>15. \A j \in DOMAIN rows' : WellKept(rows'[j], pages')
    <2>1. TableInv(rows, pages', raised)
        BY <1>0, <1>10, <1>13, TableStays DEF QueueInv
    <2> QED
        BY <1>8, <1>14, <2>1 DEF TableInv
<1>16. \A j \in DOMAIN rows :
          /\ rows'[j].alert = rows[j].alert
          /\ rows[j].status \in Terminal => rows'[j].status = rows[j].status
    BY <1>1, <1>2, <1>3, <1>9
<1>17. \A j \in DOMAIN rows' : Holding(rows'[j]) => j \in DOMAIN rows /\ Holding(rows[j])
    BY <1>8, <1>14
<1>18. ASSUME NEW c \in Channels, NEW k \in 1..M, MayReach(sent[k], c)
       PROVE  chan(k) = c /\ health[c] = "down"
    BY <1>2, <1>3, <1>18 DEF MayReach
<1>19. \A c \in Channels : i \in Open(rows, r.alert, c)
    BY <1>1 DEF Open, MayReach
<1>20. \A a \in Alerts, c \in Channels : \A j \in Open(rows', a, c) :
           \/ j \in Open(rows, a, c) \ {i}
           \/ \E k \in 1..M : j = idx(k) /\ a = r.alert /\ chan(k) = c /\ health[c] = "down"
    <2> HIDE DEF r, idx
    <2> QED
        BY <1>3, <1>8, <1>18 DEF Open
<1>21. ASSUME NEW a \in Alerts, NEW c \in Channels
       PROVE  \/ /\ Open(rows', a, c) \subseteq Open(rows, a, c)
                 /\ pages'[<<a, c>>] = pages[<<a, c>>]
              \/ \E x \in Open(rows, a, c) :
                    /\ Open(rows', a, c) \subseteq Open(rows, a, c) \ {x}
                    /\ pages'[<<a, c>>] = pages[<<a, c>>] + 1
              \/ \E x \in Open(rows, a, c), y \in Nat :
                    /\ Open(rows', a, c) \subseteq (Open(rows, a, c) \ {x}) \cup {y}
                    /\ pages'[<<a, c>>] = pages[<<a, c>>]
    <2> HIDE DEF r, idx
    <2>1. CASE a # r.alert \/ c \notin C
        <3>1. \A k \in 1..M : ~(a = r.alert /\ chan(k) = c)
            BY <1>2, <2>1
        <3>2. \A j \in Open(rows', a, c) : j \in Open(rows, a, c)
            BY <1>20, <3>1
        <3> QED
            BY <1>10, <2>1, <3>2
    <2>2. CASE a = r.alert /\ c \in C /\ health[c] = "up"
        <3>1. Open(rows', a, c) \subseteq Open(rows, a, c) \ {i}
            BY <1>20, <2>2
        <3> QED
            BY <1>10, <1>19, <2>2, <3>1
    <2>3. CASE a = r.alert /\ c \in C /\ health[c] # "up"
        <3>1. PICK k \in 1..M : chan(k) = c
            BY <1>2, <2>3
        <3>2. idx(k) \in Nat
            BY <1>0, <1>1, <1>2 DEF idx
        <3>3. \A l \in 1..M : chan(l) = c => l = k
            BY <1>2, <3>1
        <3>4. \A j \in Open(rows', a, c) : j \in Open(rows, a, c) \ {i} \/ j = idx(k)
            BY <1>20, <3>3
        <3>5. Open(rows', a, c) \subseteq (Open(rows, a, c) \ {i}) \cup {idx(k)}
            BY <3>4
        <3> QED
            BY <1>10, <1>19, <2>3, <3>2, <3>5
    <2> QED
        BY <2>1, <2>2, <2>3
<1>22. /\ TableInv(rows, pages, raised)' /\ TableInv(saved, pages, raised)'
       /\ SessionExtends' /\ RaisedHasRow' /\ PagesBounded'
    BY <1>6, <1>7, <1>10, <1>15, <1>16, <1>17, <1>21, SweepStep
<1>23. AtRest'
    BY <1>1, <1>11 DEF AtRest
<1>24. InHand'
    BY <1>6, <1>9, <1>11 DEF QueueInv, InHand
<1>25. Answering
    BY <1>8, <1>14 DEF Answering
<1>26. LeftBehind(i)
    <2>1. 1 \in 1..M
        BY <1>2
    <2>2. \/ sent[1].status \in Terminal
          \/ sent[1].status \in Retryable /\ sent[1].next >= job.at
        BY <1>3, <2>1
    <2> QED
        BY <1>6, <1>9, <2>2 DEF LeftBehind
<1> QED
    BY <1>12, <1>22, <1>23, <1>24, <1>25, <1>26 DEF QueueInv

LEMMA FanOutStep ==
    ASSUME TypeOK, QueueInv, NEW i, FanOut(i)
    PROVE  TypeOK' /\ QueueInv' /\ Answering /\ LeftBehind(i)
<1> DEFINE r == rows[i]
           C == job.chans \ DeliveredAfter(i)
           targets == SetToSeq(C)
           reached == Range(targets)
           row(k) == ApplyResult(IF k = 1 THEN [r EXCEPT !.key = targets[1]]
                                 ELSE NewRow(r.alert, targets[k], "pending", 0),
                                 targets[k], job.at)
           sent == [k \in 1..Cardinality(C) |-> row(k)]
           siblings == [k \in 1..Len(targets) - 1 |-> row(k + 1)]
<1>1. /\ Turn(i) /\ r.key = Unrouted
      /\ UNCHANGED <<worldVars, alert, saved, raised, crashes, passedOver>>
    BY DEF FanOut
<1>2. C \in SUBSET Channels
    BY <1>1, TurnFacts
<1>3. /\ Len(targets) = Cardinality(C) /\ Cardinality(C) \in Nat /\ reached = C
      /\ C # {} => Cardinality(C) > 0
    BY <1>2, ChannelsListed
<1>4. CASE targets = <<>>
    <2>1. rows' = [rows EXCEPT ![i] = Close(@, "superseded")] /\ Processed(i) /\ UNCHANGED pages
        BY <1>4 DEF FanOut
    <2>2. UNCHANGED <<worldVars, alert, saved, historyVars>>
        BY <1>1, <2>1 DEF historyVars
    <2> QED
        BY <1>1, <2>1, <2>2, FanOutSuperseded
<1>5. CASE targets # <<>> /\ \A c \in reached : health[c] = "mute"
    <2>1. rows' = [rows EXCEPT ![i] = Owed(@)] /\ Processed(i) /\ UNCHANGED pages
        BY <1>5 DEF FanOut
    <2>2. UNCHANGED <<worldVars, alert, saved, historyVars>>
        BY <1>1, <2>1 DEF historyVars
    <2> QED
        BY <1>1, <2>1, <2>2, FanOutStaysOwed
<1>6. CASE targets # <<>> /\ ~\A c \in reached : health[c] = "mute"
    <2>1. /\ Len(rows) + Len(siblings) <= MaxRows
          /\ rows' = [rows EXCEPT ![i] = row(1)] \o siblings
          /\ pages' = Paged({r.alert}, reached)
          /\ job' = [job EXCEPT !.todo = @ \ {i}, !.stamp = @ \cup {r.alert}]
        BY <1>6 DEF FanOut
    <2>2. C # {}
        BY <1>3, <1>6
    <2> DEFINE n == Cardinality(C)
    <2>3. 1 \in 1..n /\ \A k \in 1..n - 1 : k + 1 \in 1..n
        <3>1. n \in Nat /\ n > 0
            BY <1>3, <2>2
        <3> HIDE DEF n
        <3> QED
            BY <3>1
    <2>4. \A k \in 1..n : SentRows(i, C)[k] = row(k)
        BY DEF SentRows
    <2> HIDE DEF row
    <2>5. SentRows(i, C)[1] = row(1) /\ Siblings(i, C) = siblings
        BY <1>3, <2>3, <2>4 DEF Siblings
    <2> HIDE DEF C
    <2>6. /\ rows' = [rows EXCEPT ![i] = SentRows(i, C)[1]] \o Siblings(i, C)
          /\ pages' = Paged({r.alert}, C)
          /\ Len(rows) + Len(Siblings(i, C)) <= MaxRows
        BY <1>3, <2>1, <2>5
    <2> QED
        BY <1>1, <1>2, <2>1, <2>2, <2>6, FanOutSends
<1> QED
    BY <1>4, <1>5, <1>6

LEMMA StartRetryStep ==
    ASSUME TypeOK, QueueInv, StartRetry
    PROVE  TypeOK' /\ QueueInv' /\ Answering
<1> DEFINE stale == Batch({i \in DOMAIN rows : Due(rows[i], now) /\ Resolved(rows[i])})
           sendable == {i \in DOMAIN rows \ stale :
                           Due(rows[i], now) /\ rows[i].key \in enabled \cup {Unrouted}}
<1>0. /\ rows \in Seq(Row) /\ Len(rows) \in Nat /\ DOMAIN rows = 1..Len(rows) /\ Len(rows) <= MaxRows
      /\ pages \in [Alerts \X Channels -> Nat] /\ now \in Nat /\ enabled \in SUBSET Channels
      /\ MaxRows \in Nat
    BY DeliveryAssumption DEF TypeOK
<1>1. /\ rows' = [i \in DOMAIN rows |-> IF i \in stale THEN Close(rows[i], "resolved") ELSE rows[i]]
      /\ job' = [pc |-> "sweep", at |-> now, chans |-> enabled,
                 todo |-> Batch(sendable), left |-> sendable \ Batch(sendable), stamp |-> {}]
      /\ UNCHANGED <<worldVars, alert, saved, historyVars>>
    BY DEF StartRetry
<1>2. \A i \in stale : i \in DOMAIN rows /\ rows[i].status \in Retryable /\ Resolved(rows[i])
    BY DEF Batch, Due
<1>3. /\ Batch(sendable) \subseteq sendable
      /\ \A i \in sendable : i \in DOMAIN rows /\ i \notin stale /\ rows[i].status \in Retryable
    BY DEF Batch, Due
<1> HIDE DEF stale, sendable
<1>4. \A i \in DOMAIN rows : rows[i] \in Row /\ rows[i].alert \in Alerts
    <2>1. \A i \in DOMAIN rows : rows[i] \in Row
        BY <1>0
    <2> QED
        BY <2>1 DEF Row
<1>5. /\ DOMAIN rows' = DOMAIN rows
      /\ \A i \in DOMAIN rows : i \notin stale => rows'[i] = rows[i]
      /\ \A i \in stale : /\ rows'[i] \in Row /\ rows'[i].alert = rows[i].alert
                          /\ rows'[i].status = "dead"
    <2>1. \A i \in stale : rows'[i] = Close(rows[i], "resolved")
        BY <1>1, <1>2
    <2> QED
        BY <1>1, <1>2, <1>4, <2>1, CloseFacts
<1>6. rows' \in Seq(Row) /\ Len(rows') = Len(rows)
    <2>1. \A i \in DOMAIN rows : rows'[i] \in Row
        BY <1>4, <1>5
    <2>2. rows' = [i \in 1..Len(rows) |-> rows'[i]]
        BY <1>0, <1>1
    <2> QED
        BY <1>0, <1>5, <2>1, <2>2
<1>7. job' \in Jobs /\ job'.pc = "sweep" /\ job'.todo = Batch(sendable)
    <2>1. sendable \in SUBSET (1..MaxRows)
        BY <1>0, <1>3
    <2> QED
        BY <1>0, <1>1, <1>3, <2>1 DEF Jobs
<1>8. TypeOK'
    BY <1>0, <1>1, <1>6, <1>7 DEF TypeOK, worldVars, historyVars
<1>9. pages' = pages /\ UNCHANGED <<alert, saved, raised, crashes>>
    BY <1>1 DEF historyVars
<1>10. \A i \in DOMAIN rows : WellKept(rows[i], pages)
    BY DEF QueueInv, TableInv
<1>11. \A i \in DOMAIN rows' : WellKept(rows'[i], pages')
    <2>1. \A i \in stale : WellKept(rows'[i], pages)
        BY <1>5 DEF WellKept, Holding
    <2> QED
        BY <1>5, <1>9, <1>10, <2>1
<1>12. \A i \in DOMAIN rows :
           /\ rows'[i].alert = rows[i].alert
           /\ rows[i].status \in Terminal => rows'[i].status = rows[i].status
    BY <1>2, <1>5
<1>13. \A i \in DOMAIN rows' : Holding(rows'[i]) => i \in DOMAIN rows /\ Holding(rows[i])
    BY <1>5 DEF Holding
<1>14. \A a \in Alerts, c \in Channels : Open(rows', a, c) \subseteq Open(rows, a, c)
    BY <1>2, <1>5 DEF Open, MayReach
<1>15. /\ TableInv(rows, pages, raised)' /\ TableInv(saved, pages, raised)'
       /\ SessionExtends' /\ RaisedHasRow' /\ PagesBounded'
    <2>1. Len(rows) <= Len(rows') /\ pages' \in [Alerts \X Channels -> Nat]
        BY <1>0, <1>6, <1>9
    <2>2. \A a \in Alerts, c \in Channels :
              Open(rows', a, c) \subseteq Open(rows, a, c) /\ pages'[<<a, c>>] = pages[<<a, c>>]
        BY <1>9, <1>14
    <2> QED
        BY <1>6, <1>9, <1>11, <1>12, <1>13, <2>1, <2>2, SweepStep
<1>16. AtRest'
    BY <1>7 DEF AtRest
<1>17. InHand'
    BY <1>3, <1>5, <1>7 DEF InHand
<1>18. Answering
    BY <1>2, <1>5 DEF Answering, Resolved
<1> QED
    BY <1>8, <1>15, <1>16, <1>17, <1>18 DEF QueueInv

\* The digest is received once per alert it tells of, whose held row it settles.
LEMMA FlushDeferredStep ==
    ASSUME TypeOK, QueueInv, FlushDeferred
    PROVE  TypeOK' /\ QueueInv' /\ Answering
<1> DEFINE due  == {i \in DOMAIN rows : rows[i].status = "deferred" /\ rows[i].next <= now}
           live == {i \in due : ~Resolved(rows[i])}
           told == {rows[i].alert : i \in live}
           owed(r) == [r EXCEPT !.key = Unrouted, !.status = "pending", !.next = 0]
<1>0. /\ rows \in Seq(Row) /\ Len(rows) \in Nat /\ DOMAIN rows = 1..Len(rows) /\ Len(rows) <= MaxRows
      /\ pages \in [Alerts \X Channels -> Nat] /\ now \in Nat /\ enabled \in SUBSET Channels
      /\ MaxRows \in Nat
    BY DeliveryAssumption DEF TypeOK
<1>1. /\ job.pc = "idle"
      /\ rows' = [i \in DOMAIN rows |->
                      IF i \in due \ live THEN Close(rows[i], "resolved")
                      ELSE IF i \notin live THEN rows[i]
                      ELSE IF enabled = {} THEN owed(rows[i]) ELSE Digested(rows[i])]
      /\ pages' = Paged(told, enabled)
      /\ job' = [Idle EXCEPT !.pc = "commit", !.at = now,
                    !.stamp = IF \E c \in enabled : health[c] = "up" THEN told ELSE {}]
      /\ UNCHANGED <<worldVars, alert, saved, raised, crashes, passedOver>>
    BY DEF FlushDeferred
<1>2. /\ \A i \in due : i \in DOMAIN rows /\ rows[i].status = "deferred"
      /\ \A i \in due \ live : Resolved(rows[i])
      /\ \A i \in live : i \in due
      /\ told = {rows[i].alert : i \in live}
    OBVIOUS
<1> HIDE DEF due, live, told
<1>3. \A i \in DOMAIN rows : rows[i] \in Row /\ rows[i].alert \in Alerts /\ WellKept(rows[i], pages)
    <2>1. \A i \in DOMAIN rows : rows[i] \in Row
        BY <1>0
    <2>2. \A i \in DOMAIN rows : WellKept(rows[i], pages)
        BY DEF QueueInv, TableInv
    <2> QED
        BY <2>1, <2>2 DEF Row
<1>4. told \in SUBSET Alerts
    BY <1>2, <1>3
<1>5. job' \in Jobs /\ job'.pc = "commit" /\ job'.todo = {}
    BY <1>0, <1>1, <1>4 DEF Jobs, Idle
<1>6. /\ pages' \in [Alerts \X Channels -> Nat]
      /\ \A a \in Alerts, c \in Channels :
            pages'[<<a, c>>] = IF a \in told /\ c \in enabled /\ health[c] = "up"
                               THEN pages[<<a, c>>] + 1 ELSE pages[<<a, c>>]
    BY <1>0, <1>1, <1>4, PagedFacts
<1>7. 0 < MaxAttempts /\ 0 \in 0..MaxAttempts /\ 1 \in 0..MaxAttempts
    BY DeliveryAssumption
<1>8. ASSUME NEW i \in due
      PROVE  rows[i] \in Row /\ rows[i].attempts = 0 /\ rows[i].alert \in Alerts
             /\ rows[i].key = Withheld
    BY <1>2, <1>3 DEF WellKept, Holding
<1>9. /\ DOMAIN rows' = DOMAIN rows
      /\ \A i \in DOMAIN rows : i \notin due => rows'[i] = rows[i]
    BY <1>1, <1>2
<1>10. ASSUME NEW i \in due \ live
       PROVE  rows'[i] \in Row /\ rows'[i].alert = rows[i].alert /\ rows'[i].status = "dead"
    <2>1. rows'[i] = Close(rows[i], "resolved")
        BY <1>1, <1>2
    <2>2. rows[i] \in Row
        BY <1>8
    <2>3. /\ Close(rows[i], "resolved") \in Row /\ Close(rows[i], "resolved").alert = rows[i].alert
          /\ Close(rows[i], "resolved").status = "dead"
        BY <2>2, CloseFacts
    <2> QED
        BY <2>1, <2>3
<1>11. ASSUME NEW i \in live, enabled = {}
       PROVE  /\ rows'[i] \in Row /\ rows'[i].alert = rows[i].alert /\ rows'[i].status = "pending"
              /\ rows'[i].key = Unrouted /\ rows'[i].attempts = 0
    <2>1. rows'[i] = owed(rows[i])
        BY <1>1, <1>2, <1>11
    <2> DEFINE r == rows[i]
    <2>2. r \in Row /\ r.attempts = 0 /\ 0 \in Nat
        BY <1>2, <1>8
    <2> HIDE DEF r
    <2>3. owed(r) \in Row /\ owed(r).alert = r.alert /\ owed(r).status = "pending"
          /\ owed(r).key = Unrouted /\ owed(r).attempts = 0
        BY <2>2 DEF Row
    <2> QED
        BY <2>1, <2>3 DEF r
<1>12. ASSUME NEW i \in live, enabled # {}
       PROVE  /\ rows'[i] \in Row /\ rows'[i].alert = rows[i].alert
              /\ rows'[i].key \in Channels
              /\ rows'[i].status \in {"delivered", "skipped"}
              /\ rows'[i].status = "delivered" => \E c \in enabled : health[c] = "up"
    <2>1. rows'[i] = Digested(rows[i])
        BY <1>1, <1>2, <1>12
    <2> DEFINE r == rows[i]
    <2>2. r \in Row /\ r.attempts = 0
        BY <1>2, <1>8
    <2> DEFINE first == SetToSeq(enabled)[1]
               status == IF \E c \in enabled : health[c] = "up" THEN "delivered" ELSE "skipped"
    <2>3. first \in Channels
        <3>1. /\ Cardinality(enabled) \in Nat /\ Cardinality(enabled) > 0
              /\ \A k \in 1..Cardinality(enabled) : SetToSeq(enabled)[k] \in enabled
            BY <1>0, <1>12, ChannelsListed
        <3>2. 1 \in 1..Cardinality(enabled)
            BY <3>1
        <3> QED
            BY <1>0, <3>1, <3>2
    <2>4. status \in {"delivered", "skipped"}
          /\ (status = "delivered" => \E c \in enabled : health[c] = "up")
        OBVIOUS
    <2>5. rows'[i] = [r EXCEPT !.attempts = @ + 1, !.key = first, !.next = 0, !.status = status]
        BY <2>1 DEF Digested
    <2> DEFINE q == [r EXCEPT !.attempts = 1, !.key = first, !.next = 0, !.status = status]
    <2> HIDE DEF first, status, r
    <2>6. rows'[i] = q
        BY <2>2, <2>5
    <2>7. q \in Row /\ q.alert = r.alert /\ q.key = first /\ q.status = status
        BY <1>7, <2>2, <2>3, <2>4 DEF Row
    <2> HIDE DEF q
    <2> QED
        BY <2>3, <2>4, <2>6, <2>7 DEF r
<1>13. \A i \in DOMAIN rows : rows'[i] \in Row /\ rows'[i].alert = rows[i].alert
    BY <1>3, <1>9, <1>10, <1>11, <1>12
<1>14. rows' \in Seq(Row) /\ Len(rows') = Len(rows)
    <2>1. rows' = [i \in 1..Len(rows) |-> rows'[i]]
        BY <1>0, <1>1
    <2> QED
        BY <1>0, <1>9, <1>13, <2>1
<1>15. TypeOK'
    BY <1>0, <1>1, <1>5, <1>6, <1>14 DEF TypeOK, worldVars
<1>16. \A a \in Alerts, c \in Channels : pages[<<a, c>>] <= pages'[<<a, c>>]
    <2> TAKE a \in Alerts, c \in Channels
    <2>1. pages[<<a, c>>] \in Nat
        BY <1>0
    <2>2. pages'[<<a, c>>] = pages[<<a, c>>] \/ pages'[<<a, c>>] = pages[<<a, c>>] + 1
        BY <1>6
    <2> QED
        BY <2>1, <2>2
<1>17. \A i \in due : ~Holding(rows'[i]) /\ \A c \in Channels : MayReach(rows'[i], c) => i \in live /\ enabled = {}
    BY <1>2, <1>10, <1>11, <1>12 DEF Holding, MayReach
<1>18. \A i \in DOMAIN rows' : WellKept(rows'[i], pages')
    <2> TAKE i \in DOMAIN rows'
    <2>1. CASE i \notin due
        <3>1. TableInv(rows, pages', raised)
            BY <1>0, <1>6, <1>16, TableStays DEF QueueInv
        <3> QED
            BY <1>9, <2>1, <3>1 DEF TableInv
    <2>2. CASE i \in due \ live
        BY <1>10, <2>2 DEF WellKept, Holding
    <2>3. CASE i \in live /\ enabled = {}
        BY <1>7, <1>11, <2>3 DEF WellKept, Holding, Unrouted, Withheld
    <2>4. CASE i \in live /\ enabled # {}
        <3>1. rows'[i].key \notin {Unrouted, Withheld}
            BY <1>12, <2>4, DeliveryAssumption
        <3>2. ASSUME rows'[i].status = "delivered"
              PROVE  \E c \in Channels : pages'[<<rows'[i].alert, c>>] > 0
            <4>1. PICK c \in enabled : health[c] = "up"
                BY <1>12, <2>4, <3>2
            <4>2. c \in Channels /\ rows[i].alert \in told /\ rows[i].alert \in Alerts
                BY <1>0, <1>2, <1>8, <2>4
            <4>3. pages[<<rows[i].alert, c>>] \in Nat
                BY <1>0, <4>2
            <4>4. pages'[<<rows[i].alert, c>>] = pages[<<rows[i].alert, c>>] + 1
                BY <1>6, <4>1, <4>2
            <4> QED
                BY <1>12, <2>4, <4>2, <4>3, <4>4
        <3> QED
            BY <1>12, <2>4, <3>1, <3>2 DEF WellKept, Holding
    <2> QED
        BY <2>1, <2>2, <2>3, <2>4
<1>19. \A i \in DOMAIN rows :
           /\ rows'[i].alert = rows[i].alert
           /\ rows[i].status \in Terminal => rows'[i].status = rows[i].status
    BY <1>2, <1>9, <1>13
<1>20. \A i \in DOMAIN rows' : Holding(rows'[i]) => i \in DOMAIN rows /\ Holding(rows[i])
    BY <1>9, <1>17
<1>21. \A i \in due : \A c \in Channels : MayReach(rows[i], c)
    BY <1>2 DEF MayReach
<1>22. ASSUME NEW a \in Alerts, NEW c \in Channels
       PROVE  \/ /\ Open(rows', a, c) \subseteq Open(rows, a, c)
                 /\ pages'[<<a, c>>] = pages[<<a, c>>]
              \/ \E x \in Open(rows, a, c) :
                    /\ Open(rows', a, c) \subseteq Open(rows, a, c) \ {x}
                    /\ pages'[<<a, c>>] = pages[<<a, c>>] + 1
    <2>1. Open(rows', a, c) \subseteq Open(rows, a, c)
        BY <1>9, <1>13, <1>21 DEF Open
    <2>2. CASE ~(a \in told /\ c \in enabled /\ health[c] = "up")
        BY <1>6, <2>1, <2>2
    <2>3. CASE a \in told /\ c \in enabled /\ health[c] = "up"
        <3>1. PICK i \in live : rows[i].alert = a
            BY <1>2, <2>3
        <3>2. i \in Open(rows, a, c)
            BY <1>2, <1>21, <3>1 DEF Open
        <3>3. i \notin Open(rows', a, c)
            BY <1>2, <1>17, <2>3, <3>1 DEF Open
        <3> QED
            BY <1>6, <2>1, <2>3, <3>2, <3>3
    <2> QED
        BY <2>2, <2>3
<1>23. UNCHANGED <<alert, saved, raised, crashes>>
    BY <1>1
<1>24. /\ TableInv(rows, pages, raised)' /\ TableInv(saved, pages, raised)'
       /\ SessionExtends' /\ RaisedHasRow' /\ PagesBounded'
    <2>1. Len(rows) <= Len(rows')
        BY <1>0, <1>14
    <2> QED
        BY <1>6, <1>14, <1>18, <1>19, <1>20, <1>22, <1>23, <2>1, SweepStep
<1>25. AtRest' /\ InHand'
    BY <1>5 DEF AtRest, InHand
<1>26. Answering
    <2> SUFFICES ASSUME NEW i \in DOMAIN rows'
                 PROVE  \/ Accounts(rows'[i]) \/ alert[rows'[i].alert].state = "resolved"
                        \/ i \in DOMAIN rows /\ rows'[i] = rows[i]
        BY DEF Answering
    <2>1. CASE i \notin due
        BY <1>9, <2>1
    <2>2. CASE i \in due \ live
        BY <1>2, <1>10, <2>2 DEF Resolved
    <2>3. CASE i \in live
        BY <1>11, <1>12, <2>3 DEF Accounts
    <2> QED
        BY <2>1, <2>2, <2>3
<1> QED
    BY <1>15, <1>24, <1>25, <1>26 DEF QueueInv

LEMMA CommitStep ==
    ASSUME TypeOK, QueueInv, Commit
    PROVE  /\ TypeOK' /\ QueueInv' /\ saved' = rows /\ rows' = rows
           /\ \A a \in Alerts : alert'[a].state = alert[a].state
<1>1. /\ rows' = rows /\ saved' = rows /\ pages' = pages /\ raised' = raised /\ crashes' = crashes
      /\ job' = [Idle EXCEPT !.at = job.at] /\ UNCHANGED worldVars
    BY DEF Commit
<1>2. job' \in Jobs /\ job'.todo = {} /\ job'.pc = "idle" /\ job.at \in Nat
    BY <1>1 DEF TypeOK, Jobs, Idle
<1>3. /\ alert' \in [Alerts -> [state : {"none", "live", "resolved"}, since : Nat, resolvedAt : Nat]]
      /\ \A a \in Alerts : alert'[a].state = alert[a].state
    <2>1. alert' = [a \in Alerts |-> IF a \in job.stamp
                                     THEN [alert[a] EXCEPT !.since = job.at] ELSE alert[a]]
        BY DEF Commit
    <2>2. \A a \in Alerts : alert[a] \in [state : {"none", "live", "resolved"}, since : Nat, resolvedAt : Nat]
        BY DEF TypeOK
    <2> QED
        BY <1>2, <2>1, <2>2
<1>4. passedOver' \in [1..MaxRows -> Nat]
    BY DEF Commit, TypeOK
<1>5. TypeOK'
    BY <1>1, <1>2, <1>3, <1>4 DEF TypeOK, worldVars
<1>6. TableInv(rows, pages, raised)' /\ TableInv(saved, pages, raised)'
    BY <1>1 DEF QueueInv
<1>7. SessionExtends'
    <2>1. Len(rows) \in Nat
        BY DEF TypeOK
    <2> QED
        BY <1>1, <2>1 DEF SessionExtends
<1>8. AtRest' /\ InHand'
    BY <1>1, <1>2 DEF AtRest, InHand
<1>9. RaisedHasRow'
    <2>1. \A i \in DOMAIN saved : i \in DOMAIN rows /\ rows[i].alert = saved[i].alert
        <3>1. /\ Len(saved) \in Nat /\ Len(rows) \in Nat
              /\ DOMAIN saved = 1..Len(saved) /\ DOMAIN rows = 1..Len(rows)
            BY DEF TypeOK
        <3> QED
            BY <3>1 DEF QueueInv, SessionExtends
    <2> QED
        BY <1>1, <1>3, <2>1 DEF QueueInv, RaisedHasRow
<1>10. PagesBounded'
    BY <1>1 DEF QueueInv, PagesBounded
<1> QED
    BY <1>1, <1>3, <1>5, <1>6, <1>7, <1>8, <1>9, <1>10 DEF QueueInv

\* A roll-back brings back the committed rows: what they may send again is no
\* more than what was raised for the alert.
LEMMA RollBackStep ==
    ASSUME TypeOK, QueueInv, RollBack
    PROVE  TypeOK' /\ QueueInv' /\ rows' = saved /\ saved' = saved /\ alert' = alert
<1>1. /\ rows' = saved /\ saved' = saved /\ pages' = pages /\ raised' = raised
      /\ crashes' = crashes + 1 /\ alert' = alert
      /\ job' = [Idle EXCEPT !.at = job.at] /\ UNCHANGED worldVars
      /\ passedOver' \in [1..MaxRows -> Nat]
    BY DEF RollBack, TypeOK
<1>2. job' \in Jobs /\ job'.todo = {} /\ job'.pc = "idle"
    BY <1>1 DEF TypeOK, Jobs, Idle
<1>3. /\ rows \in Seq(Row) /\ saved \in Seq(Row) /\ Len(saved) \in Nat /\ Len(rows) \in Nat
      /\ pages \in [Alerts \X Channels -> Nat] /\ raised \in [Alerts -> Nat] /\ crashes \in Nat
      /\ Len(rows) <= MaxRows /\ MaxRows \in Nat
    BY DeliveryAssumption DEF TypeOK
<1>4. Len(saved) <= MaxRows
    BY <1>3 DEF QueueInv, SessionExtends
<1>5. TypeOK'
    BY <1>1, <1>2, <1>3, <1>4 DEF TypeOK, worldVars
<1>6. TableInv(rows, pages, raised)' /\ TableInv(saved, pages, raised)'
    BY <1>1 DEF QueueInv
<1>7. SessionExtends'
    BY <1>1, <1>3 DEF SessionExtends
<1>8. AtRest' /\ InHand'
    BY <1>1, <1>2 DEF AtRest, InHand
<1>9. RaisedHasRow'
    BY <1>1 DEF QueueInv, RaisedHasRow
<1>10. PagesBounded'
    <2> SUFFICES ASSUME NEW a \in Alerts, NEW c \in Channels
                 PROVE  pages[<<a, c>>] + Cardinality(Open(saved, a, c))
                            <= raised[a] + (crashes + 1) * (raised[a] + 1)
        BY <1>1 DEF PagesBounded
    <2> DEFINE n == raised[a]
               m == Cardinality(Open(rows, a, c))
               k == Cardinality(Open(saved, a, c))
               p == pages[<<a, c>>]
    <2>1. n \in Nat /\ p \in Nat
        BY <1>3
    <2>2. m \in Nat /\ k \in Nat
        BY <1>3, OpenFinite
    <2>3. p + m <= n + crashes * (n + 1) /\ k <= n
        BY DEF QueueInv, PagesBounded, TableInv
    <2> HIDE DEF n, m, k, p
    <2>4. (crashes + 1) * (n + 1) = crashes * (n + 1) + n + 1 /\ crashes * (n + 1) \in Int
        BY <1>3, <2>1
    <2>5. p + k <= n + (crashes + 1) * (n + 1)
        BY <1>3, <2>1, <2>2, <2>3, <2>4
    <2> QED
        BY <2>5 DEF n, k, p
<1> QED
    BY <1>1, <1>5, <1>6, <1>7, <1>8, <1>9, <1>10 DEF QueueInv

LEMMA DispatchCrashesStep ==
    ASSUME TypeOK, QueueInv, NEW a \in Alerts, DispatchCrashes(a)
    PROVE  TypeOK' /\ QueueInv' /\ UNCHANGED <<rows, saved, alert>>
<1>1. /\ pages' = Paged({a}, enabled) /\ crashes' = crashes + 1
      /\ UNCHANGED <<worldVars, alert, rows, saved, job, raised, passedOver>>
    BY DEF DispatchCrashes
<1>2. /\ rows \in Seq(Row) /\ saved \in Seq(Row) /\ enabled \in SUBSET Channels
      /\ pages \in [Alerts \X Channels -> Nat] /\ raised \in [Alerts -> Nat] /\ crashes \in Nat
    BY DEF TypeOK
<1>3. /\ pages' \in [Alerts \X Channels -> Nat]
      /\ \A b \in Alerts, c \in Channels :
            pages'[<<b, c>>] = IF b \in {a} /\ c \in enabled /\ health[c] = "up"
                               THEN pages[<<b, c>>] + 1 ELSE pages[<<b, c>>]
    <2>1. {a} \in SUBSET Alerts
        OBVIOUS
    <2> QED
        BY <1>1, <1>2, <2>1, PagedFacts
<1>4. \A b \in Alerts, c \in Channels :
          /\ pages[<<b, c>>] <= pages'[<<b, c>>] /\ pages'[<<b, c>>] <= pages[<<b, c>>] + 1
          /\ pages[<<b, c>>] \in Nat /\ pages'[<<b, c>>] \in Nat
    <2> TAKE b \in Alerts, c \in Channels
    <2>1. pages[<<b, c>>] \in Nat
        BY <1>2
    <2>2. pages'[<<b, c>>] = pages[<<b, c>>] \/ pages'[<<b, c>>] = pages[<<b, c>>] + 1
        BY <1>3
    <2> QED
        BY <2>1, <2>2
<1>5. TypeOK'
    <2>1. crashes' \in Nat
        BY <1>1, <1>2
    <2>2. pages' \in [Alerts \X Channels -> Nat]
        BY <1>3
    <2> QED
        BY <1>1, <2>1, <2>2 DEF TypeOK, worldVars
<1>6. TableInv(rows, pages, raised)' /\ TableInv(saved, pages, raised)'
    <2>1. TableInv(rows, pages, raised) /\ TableInv(saved, pages, raised)
        BY DEF QueueInv
    <2>2. TableInv(rows, pages', raised) /\ TableInv(saved, pages', raised)
        BY <1>2, <1>3, <1>4, <2>1, TableStays
    <2> QED
        BY <1>1, <2>2
<1>7. SessionExtends' /\ AtRest' /\ InHand' /\ RaisedHasRow'
    BY <1>1 DEF QueueInv, SessionExtends, AtRest, InHand, RaisedHasRow
<1>8. PagesBounded'
    <2> SUFFICES ASSUME NEW b \in Alerts, NEW c \in Channels
                 PROVE  pages'[<<b, c>>] + Cardinality(Open(rows, b, c))
                            <= raised[b] + (crashes + 1) * (raised[b] + 1)
        BY <1>1 DEF PagesBounded
    <2> DEFINE n == raised[b]
               m == Cardinality(Open(rows, b, c))
               p == pages[<<b, c>>]
               q == pages'[<<b, c>>]
    <2>1. n \in Nat /\ p \in Nat /\ q \in Nat /\ q <= p + 1 /\ m \in Nat
        BY <1>2, <1>4, OpenFinite
    <2>2. p + m <= n + crashes * (n + 1)
        BY DEF QueueInv, PagesBounded
    <2> HIDE DEF n, m, p, q
    <2>3. (crashes + 1) * (n + 1) = crashes * (n + 1) + n + 1 /\ crashes * (n + 1) \in Int
        BY <1>2, <2>1
    <2>4. q + m <= n + (crashes + 1) * (n + 1)
        BY <1>2, <2>1, <2>2, <2>3
    <2> QED
        BY <2>4 DEF n, m, q
<1> QED
    BY <1>1, <1>5, <1>6, <1>7, <1>8 DEF QueueInv

\* Opening and escalating an alert raise a notification for it.
LEMMA RaisedStep ==
    ASSUME TypeOK, QueueInv, NEW a \in Alerts, OpenAlert(a) \/ Escalate(a)
    PROVE  /\ TypeOK' /\ QueueInv' /\ Notified(a) /\ saved' = rows'
           /\ \A b \in Alerts : alert[b].state = "resolved" => alert'[b].state = "resolved"
<1> DEFINE Alert == [state : {"none", "live", "resolved"}, since : Nat, resolvedAt : Nat]
<1>1. /\ job.pc = "idle" /\ Notify(a) /\ UNCHANGED worldVars /\ alert[a].state # "resolved"
    BY DEF OpenAlert, Escalate
<1>2. /\ alert' \in [Alerts -> Alert]
      /\ \A b \in Alerts : b # a => alert'[b] = alert[b]
    <2>1. alert \in [Alerts -> Alert] /\ now \in Nat
        BY DEF TypeOK
    <2>2. CASE OpenAlert(a)
        BY <2>1, <2>2 DEF OpenAlert
    <2>3. CASE Escalate(a)
        BY <2>1, <2>3 DEF Escalate
    <2> QED
        BY <2>2, <2>3
<1>3. /\ \A b \in Alerts : alert'[b].state # "none" => alert[b].state # "none" \/ b = a
      /\ \A b \in Alerts : alert[b].state = "resolved" => alert'[b].state = "resolved"
    BY <1>1, <1>2
<1>4. Notified(a)
    BY <1>1, <1>3, NotifyHolds, NotifyDispatches
<1>5. saved' = rows' /\ UNCHANGED <<job, crashes, passedOver>>
    BY <1>1 DEF Notify
<1>6. TypeOK'
    BY <1>1, <1>2, <1>4, <1>5 DEF TypeOK, Notified, worldVars
<1>7. AtRest' /\ InHand'
    BY <1>1, <1>5 DEF QueueInv, AtRest, InHand
<1> QED
    BY <1>3, <1>4, <1>5, <1>6, <1>7 DEF QueueInv, Notified

\* Steps that leave the table and what was received alone.
LEMMA ElsewhereStep ==
    ASSUME TypeOK, QueueInv, Tick \/ WorldNext \/ (\E a \in Alerts : ResolveAlert(a) \/ ReviveAlert(a))
    PROVE  /\ TypeOK' /\ QueueInv' /\ UNCHANGED <<rows, saved>>
           /\ \/ \E a \in Alerts : ReviveAlert(a)
              \/ \A a \in Alerts : alert[a].state = "resolved" => alert'[a].state = "resolved"
<1> DEFINE Alert == [state : {"none", "live", "resolved"}, since : Nat, resolvedAt : Nat]
           Windows == [kind : {"none", "defer", "suppress"}, ends : Nat]
           Raised == \A a \in Alerts : alert'[a].state = "none" <=> alert[a].state = "none"
           Stays == \A a \in Alerts : alert[a].state = "resolved" => alert'[a].state = "resolved"
           World == /\ now' \in Nat \ {0} /\ enabled' \in SUBSET Channels
                    /\ health' \in [Channels -> Health] /\ window' \in Windows
<1>1. UNCHANGED <<rows, saved, job, historyVars>>
    BY DEF Tick, WorldNext, ToggleChannel, ChangeHealth, OpenWindow, CloseWindow, ResolveAlert, ReviveAlert
<1>2. /\ alert \in [Alerts -> Alert] /\ now \in Nat \ {0} /\ enabled \in SUBSET Channels
      /\ health \in [Channels -> Health] /\ window \in Windows
    BY DEF TypeOK
<1>3. ASSUME NEW a \in Alerts, ResolveAlert(a)
      PROVE  alert' \in [Alerts -> Alert] /\ Raised /\ Stays /\ World
    BY <1>2, <1>3 DEF ResolveAlert, worldVars
<1>4. ASSUME NEW a \in Alerts, ReviveAlert(a)
      PROVE  alert' \in [Alerts -> Alert] /\ Raised /\ World
    BY <1>2, <1>4 DEF ReviveAlert, worldVars
<1>5. ASSUME Tick
      PROVE  alert' = alert /\ World
    BY <1>2, <1>5 DEF Tick
<1>6. ASSUME WorldNext
      PROVE  alert' = alert /\ World
    <2>1. ASSUME NEW c \in Channels, ToggleChannel(c)
          PROVE  alert' = alert /\ World
        BY <1>2, <2>1 DEF ToggleChannel
    <2>2. ASSUME NEW c \in Channels, ChangeHealth(c)
          PROVE  alert' = alert /\ World
        BY <1>2, <2>2 DEF ChangeHealth
    <2>3. ASSUME NEW kind \in {"defer", "suppress"}, NEW ends \in 1..MaxTime, OpenWindow(kind, ends)
          PROVE  alert' = alert /\ World
        <3>1. ends \in Nat
            BY DeliveryAssumption
        <3> QED
            BY <1>2, <2>3, <3>1 DEF OpenWindow
    <2>4. CASE CloseWindow
        BY <1>2, <2>4 DEF CloseWindow, NoWindow
    <2> HIDE DEF World
    <2> QED
        BY <1>6, <2>1, <2>2, <2>3, <2>4 DEF WorldNext
<1> HIDE DEF Alert, Raised, Stays, World
<1>7. /\ alert' \in [Alerts -> Alert] /\ Raised /\ World
      /\ Stays \/ \E a \in Alerts : ReviveAlert(a)
    <2>1. CASE Tick \/ WorldNext
        <3>1. alert' = alert /\ World
            BY <1>5, <1>6, <2>1
        <3> QED
            BY <1>2, <3>1 DEF Raised, Stays
    <2>2. CASE \E a \in Alerts : ResolveAlert(a)
        BY <1>3, <2>2
    <2>3. CASE \E a \in Alerts : ReviveAlert(a)
        BY <1>4, <2>3
    <2> QED
        BY <2>1, <2>2, <2>3
<1>8. TypeOK'
    BY <1>1, <1>7 DEF TypeOK, historyVars, Alert, World
<1>9. QueueInv'
    BY <1>1, <1>7 DEF QueueInv, SessionExtends, AtRest, InHand, RaisedHasRow, PagesBounded, historyVars, Raised
<1> QED
    BY <1>1, <1>7, <1>8, <1>9 DEF Stays

-----------------------------------------------------------------------------
(* Turns.                                                                  *)

\* Rows that no batch takes before row i, while i can be worked on: settled
\* ones, and those that are due later.
Behind(t, i) ==
    {j \in DOMAIN t : \/ t[j].status \in Terminal
                      \/ /\ t[j].status \in Retryable
                         /\ t[j].next > t[i].next \/ (t[j].next = t[i].next /\ j > i)}

\* Row i is one a sweep could work on.
WaitsIn(t, i) == i \in DOMAIN t /\ t[i].status \in Retryable /\ t[i].next <= job.at

\* The sweeps that passed row i over, without those that a rolled-back sweep
\* may stand for.
Skips(i) == passedOver[i] - crashes

\* Of what was committed: a row left out n times has n - 1 batches behind it.
\* The first sweep may have left rows level with it, and no later one.
TurnsSaved ==
    \A i \in 1..MaxRows : passedOver[i] > 0 =>
        /\ WaitsIn(saved, i)
        /\ (Skips(i) - 1) * BatchLimit <= Cardinality(Behind(saved, i))

\* A digest brings no row forward.
TurnsDigest ==
    job.pc = "commit" =>
        /\ job.todo = {}
        /\ \A i \in 1..MaxRows : passedOver[i] > 0 =>
              /\ i \in DOMAIN rows /\ rows[i] = saved[i]
              /\ Behind(saved, i) \subseteq Behind(rows, i)

\* What the sweep has in hand goes behind what it leaves out.
TurnsSweep ==
    job.pc = "sweep" =>
        \A i \in job.left :
            /\ i \notin job.todo /\ WaitsIn(rows, i)
            /\ passedOver[i] > 0 =>
                  /\ rows[i].next < job.at
                  /\ Skips(i) * BatchLimit <= Cardinality(job.todo \cup Behind(rows, i))

\* What a sweep that is rolled back passes over is still to be worked on.
TurnsAsked ==
    job.pc = "sweep" => \A i \in job.todo \cup job.left : WaitsIn(saved, i)

TurnsInv == job.at <= now /\ TurnsSaved /\ TurnsDigest /\ TurnsSweep /\ TurnsAsked

\* More sweeps take more batches.
LEMMA MoreBatches ==
    ASSUME NEW a \in Int, NEW b \in Int, NEW n \in Nat, a <= b
    PROVE  a * n <= b * n /\ a * n \in Int /\ b * n \in Int
<1>1. PICK d \in Nat : b = a + d
    <2>1. b - a \in Nat /\ b = a + (b - a)
        OBVIOUS
    <2> QED
        BY <2>1
<1>2. d * n \in Nat /\ (a + d) * n = a * n + d * n /\ a * n \in Int
    OBVIOUS
<1> QED
    BY <1>1, <1>2

\* A row is due at a time.
LEMMA RowNext ==
    \A r \in Row : r.next \in Nat
BY DEF Row

\* The rows behind one can be counted.
LEMMA BehindFinite ==
    ASSUME NEW t \in Seq(Row), NEW i
    PROVE  /\ IsFiniteSet(Behind(t, i)) /\ Cardinality(Behind(t, i)) \in Nat
           /\ Len(t) \in Nat /\ DOMAIN t = 1..Len(t)
<1>1. Len(t) \in Nat /\ DOMAIN t = 1..Len(t)
    OBVIOUS
<1>2. IsFiniteSet(1..Len(t))
    BY <1>1, FS_Interval
<1>3. Behind(t, i) \in SUBSET (1..Len(t))
    BY <1>1 DEF Behind
<1> QED
    BY <1>1, <1>2, <1>3, FewerCounted, FS_Subset

\* A row that can be worked on is not behind itself.
LEMMA BehindOthers ==
    ASSUME NEW t \in Seq(Row), NEW i \in DOMAIN t, t[i].status \in Retryable
    PROVE  Cardinality(Behind(t, i)) + 1 <= Len(t)
<1> DEFINE n == Len(t)
<1>1. n \in Nat /\ DOMAIN t = 1..n /\ t[i] \in Row /\ i \in 1..n
    OBVIOUS
<1>2. t[i].next \in Nat
    BY <1>1, RowNext
<1>3. i \notin Behind(t, i)
    BY <1>1, <1>2 DEF Behind, Retryable, Terminal
<1>4. Behind(t, i) \in SUBSET ((1..n) \ {i})
    BY <1>1, <1>3 DEF Behind
<1> HIDE DEF n
<1>5. IsFiniteSet(1..n) /\ Cardinality(1..n) = n
    BY <1>1, FS_Interval
<1>6. Cardinality(Behind(t, i)) + 1 <= Cardinality(1..n)
    BY <1>1, <1>4, <1>5, OneLessCounted
<1> QED
    BY <1>5, <1>6 DEF n

\* A row that is left out is behind a full batch (retry_due's LIMIT).
LEMMA BatchFull ==
    ASSUME rows \in Seq(Row), NEW S \in SUBSET DOMAIN rows, NEW i \in S \ Batch(S)
    PROVE  /\ BatchLimit <= Cardinality(Batch(S)) /\ IsFiniteSet(Batch(S))
           /\ Cardinality(Batch(S)) \in Nat
           /\ \A j \in Batch(S) : Before(j, i)
<1> DEFINE E(j) == {k \in S : Before(k, j)}
           n(j) == Cardinality(E(j))
<1>1. /\ DOMAIN rows = 1..Len(rows) /\ Len(rows) \in Nat
      /\ \A j \in DOMAIN rows : rows[j] \in Row /\ j \in Nat
    OBVIOUS
<1>2. \A j \in DOMAIN rows : rows[j].next \in Nat /\ j \in Nat
    BY <1>1, RowNext
<1>3. IsFiniteSet(S)
    <2>1. IsFiniteSet(1..Len(rows))
        BY <1>1, FS_Interval
    <2> QED
        BY <1>1, <2>1, FS_Subset
<1>4. \A j : IsFiniteSet(E(j)) /\ n(j) \in Nat
    <2>1. \A j : E(j) \in SUBSET S
        OBVIOUS
    <2> HIDE DEF E
    <2> QED
        BY <1>3, <2>1, FewerCounted, FS_Subset
<1>5. /\ \A j, k \in S : Before(j, k) \/ Before(k, j) \/ j = k
      /\ \A j, k \in S : ~(Before(j, k) /\ Before(k, j))
      /\ \A j, k, l \in S : Before(j, k) /\ Before(k, l) => Before(j, l)
      /\ \A j \in S : ~Before(j, j)
    BY <1>2 DEF Before
<1>6. \A j \in S : j \in Batch(S) <=> n(j) < BatchLimit
    BY DEF Batch
<1>7. \A j \in Batch(S) : j \in S
    BY DEF Batch
<1>8. BatchLimit \in Nat
    BY DeliveryAssumption
<1>9. ASSUME NEW j \in Batch(S) PROVE Before(j, i)
    <2>1. j \in S /\ i \in S /\ j # i
        BY <1>7
    <2>2. ASSUME Before(i, j) PROVE FALSE
        <3>1. E(i) \in SUBSET E(j)
            BY <1>5, <2>1, <2>2
        <3>2. n(i) <= n(j)
            <4> HIDE DEF E
            <4> QED
                BY <1>4, <3>1, FewerCounted
        <3>3. n(j) < BatchLimit /\ ~(n(i) < BatchLimit)
            BY <1>6, <2>1
        <3>4. n(i) \in Nat /\ n(j) \in Nat
            BY <1>4
        <3> HIDE DEF n
        <3> QED
            BY <1>8, <3>2, <3>3, <3>4
    <2> QED
        BY <1>5, <2>1, <2>2
<1>10. \E m \in S \ Batch(S) : E(m) \in SUBSET Batch(S)
    <2> DEFINE N == {n(j) : j \in S \ Batch(S)}
    <2> HIDE DEF n
    <2>1. N \in SUBSET Nat /\ N # {}
        BY <1>4
    <2>2. PICK low \in N : \A x \in N : low <= x
        BY <2>1, LeastNatural
    <2>3. PICK m \in S \ Batch(S) : low = n(m)
        BY <2>2
    <2>4. ASSUME NEW k \in E(m), k \notin Batch(S) PROVE FALSE
        <3>1. k \in S /\ Before(k, m)
            OBVIOUS
        <3>2. k \in E(m) /\ E(k) \in SUBSET (E(m) \ {k})
            BY <1>5, <2>3, <3>1
        <3>3. n(k) + 1 <= n(m)
            <4> HIDE DEF E
            <4> QED
                BY <1>4, <3>2, OneLessCounted DEF n
        <3>4. n(m) <= n(k)
            BY <2>2, <2>3, <2>4, <3>1
        <3>5. n(m) \in Nat /\ n(k) \in Nat
            BY <1>4
        <3> QED
            BY <3>3, <3>4, <3>5
    <2> QED
        BY <2>3, <2>4
<1>11. PICK m \in S \ Batch(S) : E(m) \in SUBSET Batch(S)
    BY <1>10
<1>12. IsFiniteSet(Batch(S))
    BY <1>3, <1>7, FS_Subset
<1>13. Cardinality(E(m)) <= Cardinality(Batch(S)) /\ Cardinality(Batch(S)) \in Nat
    <2> HIDE DEF E
    <2> QED
        BY <1>11, <1>12, FewerCounted
<1>14. ~(n(m) < BatchLimit)
    BY <1>6, <1>11
<1>15. BatchLimit <= Cardinality(Batch(S))
    <2>1. n(m) <= Cardinality(Batch(S)) /\ n(m) \in Nat
        BY <1>4, <1>13
    <2> HIDE DEF n
    <2> QED
        BY <1>8, <1>13, <1>14, <2>1
<1> QED
    BY <1>9, <1>12, <1>13, <1>15

\* Rows that are open or settled stay behind while they stay as they are.
LEMMA StaysBehind ==
    ASSUME NEW t, NEW u, NEW i \in DOMAIN t, u[i] = t[i],
           \A j \in DOMAIN t : /\ j \in DOMAIN u
                               /\ t[j].status \in Retryable \cup Terminal => u[j] = t[j]
    PROVE  Behind(t, i) \subseteq Behind(u, i)
BY DEF Behind

\* ... and so the turns that the committed rows were promised stay theirs.
LEMMA TurnsStay ==
    ASSUME TypeOK, TypeOK', TurnsSaved, passedOver' = passedOver, crashes <= crashes',
           job.at <= job'.at,
           \A j \in DOMAIN saved : /\ j \in DOMAIN saved'
                                   /\ saved[j].status \in Retryable \cup Terminal => saved'[j] = saved[j]
    PROVE  TurnsSaved'
<1> SUFFICES ASSUME NEW i \in 1..MaxRows, passedOver[i] > 0
             PROVE  /\ WaitsIn(saved, i)'
                    /\ (Skips(i)' - 1) * BatchLimit <= Cardinality(Behind(saved', i))
    BY DEF TurnsSaved
<1>1. /\ i \in DOMAIN saved /\ saved[i].status \in Retryable /\ saved[i].next <= job.at
      /\ (Skips(i) - 1) * BatchLimit <= Cardinality(Behind(saved, i))
    BY DEF TurnsSaved, WaitsIn
<1>2. i \in DOMAIN saved' /\ saved'[i] = saved[i]
    BY <1>1
<1>3. saved \in Seq(Row) /\ saved' \in Seq(Row) /\ job.at \in Nat /\ job'.at \in Nat
    BY DEF TypeOK, Jobs
<1>4. saved[i].next \in Nat
    <2>1. saved[i] \in Row
        BY <1>1, <1>3
    <2> QED
        BY <2>1, RowNext
<1>5. WaitsIn(saved, i)'
    BY <1>1, <1>2, <1>3, <1>4 DEF WaitsIn
<1>6. Behind(saved, i) \in SUBSET Behind(saved', i)
    BY <1>1, <1>2, StaysBehind
<1>7. IsFiniteSet(Behind(saved', i))
    BY <1>3, BehindFinite
<1>8. /\ Cardinality(Behind(saved, i)) <= Cardinality(Behind(saved', i))
      /\ Cardinality(Behind(saved, i)) \in Nat /\ Cardinality(Behind(saved', i)) \in Nat
    BY <1>6, <1>7, FewerCounted
<1>9. /\ (Skips(i)' - 1) * BatchLimit <= (Skips(i) - 1) * BatchLimit
      /\ (Skips(i)' - 1) * BatchLimit \in Int /\ (Skips(i) - 1) * BatchLimit \in Int
    <2>1. /\ passedOver[i] \in Nat /\ passedOver'[i] = passedOver[i]
          /\ BatchLimit \in Nat /\ crashes \in Nat /\ crashes' \in Nat
        BY DeliveryAssumption DEF TypeOK
    <2>2. Skips(i)' - 1 \in Int /\ Skips(i) - 1 \in Int /\ Skips(i)' - 1 <= Skips(i) - 1
        BY <2>1 DEF Skips
    <2> QED
        BY <2>1, <2>2, MoreBatches
<1> HIDE DEF Skips
<1> QED
    BY <1>1, <1>5, <1>8, <1>9

LEMMA TurnsInit ==
    Init => TurnsInv
<1> SUFFICES ASSUME Init PROVE TurnsInv
    OBVIOUS
<1>1. job.pc = "idle" /\ job.at = 0 /\ now = 1
    BY DEF Init, Idle
<1>2. \A i \in 1..MaxRows : passedOver[i] = 0
    BY DEF Init
<1> QED
    BY <1>1, <1>2 DEF TurnsInv, TurnsSaved, TurnsDigest, TurnsSweep, TurnsAsked

\* What the sweep leaves out has a full batch before it, none of it behind.
LEMMA StartRetryTurns ==
    ASSUME TypeOK, QueueInv, TurnsInv, TypeOK', StartRetry
    PROVE  TurnsInv'
<1> DEFINE stale == Batch({i \in DOMAIN rows : Due(rows[i], now) /\ Resolved(rows[i])})
           sendable == {i \in DOMAIN rows \ stale :
                           Due(rows[i], now) /\ rows[i].key \in enabled \cup {Unrouted}}
           taken == Batch(sendable)
<1>1. /\ rows' = [i \in DOMAIN rows |-> IF i \in stale THEN Close(rows[i], "resolved") ELSE rows[i]]
      /\ job' = [pc |-> "sweep", at |-> now, chans |-> enabled,
                 todo |-> taken, left |-> sendable \ taken, stamp |-> {}]
      /\ job.pc = "idle" /\ job.at < now
      /\ now' = now /\ saved' = saved /\ passedOver' = passedOver /\ crashes' = crashes
    BY DEF StartRetry, worldVars, historyVars
<1>2. /\ rows = saved /\ rows \in Seq(Row) /\ rows' \in Seq(Row) /\ now \in Nat /\ job.at \in Nat
      /\ passedOver \in [1..MaxRows -> Nat] /\ crashes \in Nat /\ job' \in Jobs
    BY <1>1 DEF TypeOK, QueueInv, AtRest, Jobs
<1>3. /\ \A i \in sendable : /\ i \in DOMAIN rows /\ i \notin stale
                             /\ rows[i].status \in Retryable /\ rows[i].next <= now
      /\ \A i \in stale : rows[i].status \in Retryable /\ i \in DOMAIN rows
      /\ sendable \in SUBSET DOMAIN rows /\ taken \in SUBSET sendable
    BY DEF Batch, Due
<1>4. \A i \in DOMAIN rows : /\ i \in DOMAIN rows'
                             /\ i \notin stale => rows'[i] = rows[i]
                             /\ i \in stale => rows'[i].status = "dead"
    <2>1. \A i \in DOMAIN rows : rows[i] \in Row
        BY <1>2
    <2>2. \A i \in DOMAIN rows : Close(rows[i], "resolved").status = "dead"
        BY <2>1, CloseFacts
    <2> HIDE DEF stale
    <2> QED
        BY <1>1, <2>2
<1>5. \A i \in sendable \ taken :
          /\ BatchLimit <= Cardinality(taken) /\ IsFiniteSet(taken) /\ Cardinality(taken) \in Nat
          /\ \A j \in taken : Before(j, i)
    BY <1>2, <1>3, BatchFull
<1> HIDE DEF stale, sendable, taken
<1>6. TurnsSaved'
    <2>1. job.at <= job'.at /\ crashes <= crashes'
        BY <1>1, <1>2
    <2> QED
        BY <1>1, <2>1, TurnsStay DEF TurnsInv
<1>7. TurnsSweep'
    <2> SUFFICES ASSUME NEW i \in job'.left
                 PROVE  /\ i \notin job'.todo /\ WaitsIn(rows, i)'
                        /\ passedOver[i] > 0 =>
                              /\ rows'[i].next < now
                              /\ Skips(i) * BatchLimit <= Cardinality(job'.todo \cup Behind(rows', i))
        BY <1>1 DEF TurnsSweep, Skips
    <2>1. i \in sendable \ taken /\ job'.todo = taken /\ job'.at = now
        BY <1>1
    <2>2. /\ i \in DOMAIN rows /\ i \notin stale /\ rows[i].status \in Retryable /\ rows[i].next <= now
          /\ i \in DOMAIN rows' /\ rows'[i] = rows[i]
        BY <1>3, <1>4, <2>1
    <2>3. WaitsIn(rows, i)'
        BY <2>1, <2>2 DEF WaitsIn
    <2>4. ASSUME passedOver[i] > 0
          PROVE  /\ rows'[i].next < now
                 /\ Skips(i) * BatchLimit <= Cardinality(taken \cup Behind(rows', i))
        <3> DEFINE B == Behind(rows, i)
                   C == Behind(rows', i)
                   n == Skips(i)
        <3>0. i \in 1..MaxRows
            BY <1>2, <2>1, <1>1 DEF Jobs
        <3>1. rows[i].next <= job.at /\ (n - 1) * BatchLimit <= Cardinality(B)
            BY <1>2, <2>4, <3>0 DEF TurnsInv, TurnsSaved, WaitsIn
        <3>2. rows[i].next \in Nat /\ \A j \in DOMAIN rows : rows[j].next \in Nat /\ j \in Nat
            <4>1. \A j \in DOMAIN rows : rows[j] \in Row /\ j \in Nat
                BY <1>2
            <4> QED
                BY <2>2, <4>1, RowNext
        <3>3. rows'[i].next < now
            BY <1>1, <1>2, <2>2, <3>1, <3>2
        <3>4. taken \cap B = {}
            <4>1. \A j \in taken : j \in DOMAIN rows /\ rows[j].status \in Retryable /\ Before(j, i)
                BY <1>3, <1>5, <2>1
            <4> QED
                BY <2>2, <3>2, <4>1 DEF Behind, Before, Retryable, Terminal
        <3>5. B \subseteq C
            <4>1. \A j \in B : j \in DOMAIN rows' /\ (rows'[j] = rows[j] \/ rows'[j].status \in Terminal)
                BY <1>4 DEF Behind, Terminal
            <4> QED
                BY <2>2, <4>1 DEF Behind
        <3>6. /\ IsFiniteSet(B) /\ IsFiniteSet(C) /\ Cardinality(B) \in Nat
              /\ IsFiniteSet(taken) /\ Cardinality(taken) \in Nat /\ BatchLimit <= Cardinality(taken)
            BY <1>2, <1>5, <2>1, BehindFinite
        <3>7. n \in Int /\ BatchLimit \in Nat
            BY <1>2, <3>0, DeliveryAssumption DEF Skips
        <3> HIDE DEF B, C, n
        <3>8. Cardinality(taken \cup B) = Cardinality(taken) + Cardinality(B)
            <4>1. Cardinality(taken \cup B)
                      = Cardinality(taken) + Cardinality(B) - Cardinality(taken \cap B)
                BY <3>6, FS_Union
            <4>2. Cardinality(taken \cap B) = 0
                BY <3>4, FS_EmptySet
            <4> QED
                BY <3>6, <4>1, <4>2
        <3>9. Cardinality(taken \cup B) <= Cardinality(taken \cup C) /\ Cardinality(taken \cup C) \in Nat
            <4>1. IsFiniteSet(taken \cup C)
                BY <3>6, FS_Union
            <4>2. taken \cup B \in SUBSET (taken \cup C)
                BY <3>5
            <4> QED
                BY <4>1, <4>2, FewerCounted
        <3>10. n * BatchLimit = (n - 1) * BatchLimit + BatchLimit /\ (n - 1) * BatchLimit \in Int
            BY <3>7
        <3>11. n * BatchLimit <= Cardinality(taken \cup C)
            BY <3>1, <3>6, <3>7, <3>8, <3>9, <3>10
        <3> QED
            BY <3>3, <3>11 DEF C, n
    <2> QED
        BY <2>1, <2>3, <2>4
<1>8. TurnsDigest'
    BY <1>1 DEF TurnsDigest
<1>9. (job.at <= now)'
    BY <1>1, <1>2
<1>10. TurnsAsked'
    BY <1>1, <1>2, <1>3 DEF TurnsAsked, WaitsIn
<1> QED
    BY <1>6, <1>7, <1>8, <1>9, <1>10 DEF TurnsInv

\* A row of the batch goes behind what was left out of it.
LEMMA TreatedTurns ==
    ASSUME TypeOK, QueueInv, TurnsInv, TypeOK', NEW i, Turn(i), LeftBehind(i),
           job'.todo = job.todo \ {i}, job'.pc = job.pc, job'.at = job.at, job'.left = job.left,
           UNCHANGED <<now, saved, passedOver, crashes>>
    PROVE  TurnsInv'
<1>1. /\ rows \in Seq(Row) /\ rows' \in Seq(Row) /\ job.at \in Nat /\ job \in Jobs /\ job' \in Jobs
      /\ passedOver \in [1..MaxRows -> Nat] /\ BatchLimit \in Nat /\ crashes \in Nat
    BY DeliveryAssumption DEF TypeOK, Jobs
<1>2. i \in job.todo /\ i \in DOMAIN rows /\ job.pc # "idle"
    BY TurnFacts
<1>3. \A k \in DOMAIN rows : k \in DOMAIN rows' /\ (k # i => rows'[k] = rows[k])
    BY DEF LeftBehind
<1>4. CASE job.pc = "sweep"
    <2>1. TurnsSweep'
        <3> SUFFICES ASSUME NEW k \in job.left
                     PROVE  /\ k \notin job'.todo /\ WaitsIn(rows, k)'
                            /\ passedOver[k] > 0 =>
                                  /\ rows'[k].next < job.at
                                  /\ Skips(k) * BatchLimit
                                         <= Cardinality(job'.todo \cup Behind(rows', k))
            BY DEF TurnsSweep, Skips
        <3>1. /\ k \notin job.todo /\ k \in DOMAIN rows /\ rows[k].status \in Retryable
              /\ rows[k].next <= job.at
              /\ passedOver[k] > 0 =>
                    /\ rows[k].next < job.at
                    /\ Skips(k) * BatchLimit <= Cardinality(job.todo \cup Behind(rows, k))
            BY <1>4 DEF TurnsInv, TurnsSweep, WaitsIn
        <3>2. k # i /\ k \in DOMAIN rows' /\ rows'[k] = rows[k]
            BY <1>2, <1>3, <3>1
        <3>3. ASSUME passedOver[k] > 0
              PROVE  Skips(k) * BatchLimit <= Cardinality(job'.todo \cup Behind(rows', k))
            <4> DEFINE B == job.todo \cup Behind(rows, k)
                       C == job'.todo \cup Behind(rows', k)
                       n == Skips(k)
            <4>1. rows[k].next < job.at /\ n * BatchLimit <= Cardinality(B)
                BY <3>1, <3>3
            <4>2. rows[k].next \in Nat /\ rows'[i].next \in Nat
                <5>1. rows[k] \in Row /\ rows'[i] \in Row
                    BY <1>1, <1>2, <1>3, <3>1
                <5> QED
                    BY <5>1, RowNext
            <4>3. i \in Behind(rows', k)
                <5>1. CASE rows'[i].status \in Terminal
                    BY <1>2, <1>3, <5>1 DEF Behind
                <5>2. CASE rows'[i].status \in Retryable /\ rows'[i].next >= job.at
                    <6>1. rows'[i].next > rows'[k].next
                        BY <1>1, <3>2, <4>1, <4>2, <5>2
                    <6> QED
                        BY <1>2, <1>3, <5>2, <6>1 DEF Behind
                <5> QED
                    BY <5>1, <5>2 DEF LeftBehind
            <4>4. \A j \in Behind(rows, k) : j # i => j \in Behind(rows', k)
                <5> TAKE j \in Behind(rows, k)
                <5> HAVE j # i
                <5>1. j \in DOMAIN rows /\ j \in DOMAIN rows' /\ rows'[j] = rows[j]
                    BY <1>3 DEF Behind
                <5> QED
                    BY <3>2, <5>1 DEF Behind
            <4>5. B \in SUBSET C
                BY <4>3, <4>4
            <4>6. IsFiniteSet(C)
                <5>1. job'.todo \in SUBSET (1..MaxRows)
                    BY <1>1 DEF Jobs
                <5>2. IsFiniteSet(1..MaxRows)
                    BY DeliveryAssumption, FS_Interval
                <5>3. IsFiniteSet(job'.todo) /\ IsFiniteSet(Behind(rows', k))
                    BY <1>1, <5>1, <5>2, FS_Subset, BehindFinite
                <5> QED
                    BY <5>3, FS_Union
            <4>7. n \in Int
                <5>1. k \in 1..MaxRows
                    BY <1>1 DEF Jobs
                <5> QED
                    BY <1>1, <5>1 DEF Skips
            <4> HIDE DEF B, C, n
            <4>8. Cardinality(B) <= Cardinality(C) /\ Cardinality(B) \in Nat /\ Cardinality(C) \in Nat
                BY <4>5, <4>6, FewerCounted
            <4>9. n * BatchLimit \in Int
                BY <1>1, <4>7
            <4>10. n * BatchLimit <= Cardinality(C)
                BY <4>1, <4>8, <4>9
            <4> QED
                BY <4>10 DEF C, n
        <3> QED
            BY <3>1, <3>2, <3>3 DEF WaitsIn
    <2>2. TurnsSaved' /\ TurnsDigest' /\ TurnsAsked' /\ (job.at <= now)'
        BY <1>4 DEF TurnsInv, TurnsSaved, TurnsDigest, TurnsAsked, WaitsIn, Skips
    <2> QED
        BY <2>1, <2>2 DEF TurnsInv
<1>5. CASE job.pc = "commit"
    BY <1>2, <1>5 DEF TurnsInv, TurnsDigest
<1> QED
    BY <1>1, <1>2, <1>4, <1>5 DEF Jobs

\* The commit of a sweep counts a turn for what it left out, with one batch more
\* behind it than before.
LEMMA CommitTurns ==
    ASSUME TypeOK, QueueInv, TurnsInv, TypeOK', Commit
    PROVE  TurnsInv'
<1>1. /\ rows' = rows /\ saved' = rows /\ now' = now /\ crashes' = crashes /\ job.todo = {} /\ job.pc \in {"sweep", "commit"}
      /\ job' = [Idle EXCEPT !.at = job.at]
      /\ passedOver' = [i \in DOMAIN passedOver |->
                            IF job.pc = "commit" THEN passedOver[i]
                            ELSE IF i \in job.left THEN passedOver[i] + 1 ELSE 0]
    BY DEF Commit, worldVars
<1>2. job'.pc = "idle" /\ job'.at = job.at
    BY <1>1 DEF Idle
<1>3. /\ rows \in Seq(Row) /\ saved \in Seq(Row)
      /\ DOMAIN passedOver = 1..MaxRows /\ \A i \in 1..MaxRows : passedOver[i] \in Nat
      /\ BatchLimit \in Nat /\ crashes \in Nat
    BY DeliveryAssumption DEF TypeOK
<1>4. \A i \in 1..MaxRows : passedOver'[i] = IF job.pc = "commit" THEN passedOver[i]
                                             ELSE IF i \in job.left THEN passedOver[i] + 1 ELSE 0
    BY <1>1, <1>3
<1>5. TurnsSaved'
    <2> SUFFICES ASSUME NEW i \in 1..MaxRows, passedOver'[i] > 0
                 PROVE  /\ WaitsIn(rows, i)
                        /\ (passedOver'[i] - crashes - 1) * BatchLimit <= Cardinality(Behind(rows, i))
        BY <1>1, <1>2 DEF TurnsSaved, WaitsIn, Skips
    <2>0. Cardinality(Behind(rows, i)) \in Nat /\ IsFiniteSet(Behind(rows, i))
        BY <1>3, BehindFinite
    <2>1. CASE job.pc = "sweep"
        <3>1. i \in job.left /\ passedOver'[i] = passedOver[i] + 1
            BY <1>4, <2>1
        <3>2. /\ WaitsIn(rows, i)
              /\ passedOver[i] > 0 =>
                    Skips(i) * BatchLimit <= Cardinality(job.todo \cup Behind(rows, i))
            BY <2>1, <3>1 DEF TurnsInv, TurnsSweep
        <3>3. job.todo \cup Behind(rows, i) = Behind(rows, i)
            BY <1>1
        <3>4. passedOver[i] \in Nat /\ passedOver'[i] - crashes - 1 = Skips(i) /\ Skips(i) \in Int
            BY <1>3, <3>1 DEF Skips
        <3>5. Skips(i) * BatchLimit <= Cardinality(Behind(rows, i))
            <4>1. CASE passedOver[i] = 0
                <5>1. Skips(i) <= 0
                    BY <1>3, <4>1 DEF Skips
                <5>2. Skips(i) * BatchLimit <= 0 * BatchLimit /\ 0 * BatchLimit = 0
                      /\ Skips(i) * BatchLimit \in Int
                    BY <1>3, <3>4, <5>1, MoreBatches
                <5> QED
                    BY <2>0, <5>2
            <4>2. CASE passedOver[i] > 0
                BY <3>2, <3>3, <4>2
            <4> QED
                BY <3>4, <4>1, <4>2
        <3> QED
            BY <3>2, <3>4, <3>5
    <2>2. CASE job.pc = "commit"
        <3>1. passedOver'[i] = passedOver[i] /\ passedOver[i] > 0
            BY <1>4, <2>2
        <3>2. /\ i \in DOMAIN rows /\ rows[i] = saved[i]
              /\ Behind(saved, i) \in SUBSET Behind(rows, i)
            BY <2>2, <3>1 DEF TurnsInv, TurnsDigest
        <3>3. /\ WaitsIn(saved, i)
              /\ (passedOver[i] - crashes - 1) * BatchLimit <= Cardinality(Behind(saved, i))
            BY <3>1 DEF TurnsInv, TurnsSaved, Skips
        <3>4. /\ Cardinality(Behind(saved, i)) <= Cardinality(Behind(rows, i))
              /\ Cardinality(Behind(saved, i)) \in Nat
            BY <2>0, <3>2, FewerCounted
        <3>5. (passedOver[i] - crashes - 1) * BatchLimit \in Int
            <4>1. passedOver[i] - crashes - 1 \in Int
                BY <1>3
            <4> QED
                BY <1>3, <4>1
        <3>6. (passedOver[i] - crashes - 1) * BatchLimit <= Cardinality(Behind(rows, i))
            BY <2>0, <3>3, <3>4, <3>5
        <3> QED
            BY <3>1, <3>2, <3>3, <3>6 DEF WaitsIn
    <2> QED
        BY <1>1, <2>1, <2>2
<1> QED
    BY <1>1, <1>2, <1>5 DEF TurnsInv, TurnsDigest, TurnsSweep, TurnsAsked

\* The digest touches held rows only, and none of them is behind another.
LEMMA FlushDeferredTurns ==
    ASSUME TypeOK, QueueInv, TurnsInv, TypeOK', FlushDeferred
    PROVE  TurnsInv'
<1> DEFINE due  == {i \in DOMAIN rows : rows[i].status = "deferred" /\ rows[i].next <= now}
           live == {i \in due : ~Resolved(rows[i])}
<1>1. /\ job.pc = "idle" /\ now' = now /\ saved' = saved /\ passedOver' = passedOver
      /\ crashes' = crashes
      /\ job'.pc = "commit" /\ job'.at = now /\ job'.todo = {}
    BY DEF FlushDeferred, worldVars, Idle
<1>2. rows = saved /\ now \in Nat /\ job.at \in Nat
    BY <1>1 DEF TypeOK, QueueInv, AtRest, Jobs
<1>3. \A j \in DOMAIN rows : /\ j \in DOMAIN rows'
                             /\ rows[j].status # "deferred" => rows'[j] = rows[j]
    <2>1. rows' = [i \in DOMAIN rows |->
                      IF i \in due \ live THEN Close(rows[i], "resolved")
                      ELSE IF i \notin live THEN rows[i]
                      ELSE IF enabled = {}
                           THEN [rows[i] EXCEPT !.key = Unrouted, !.status = "pending",
                                                !.next = 0]
                           ELSE Digested(rows[i])]
        BY DEF FlushDeferred
    <2>2. \A j \in due \cup live : rows[j].status = "deferred"
        OBVIOUS
    <2> HIDE DEF due, live
    <2> QED
        BY <2>1, <2>2
<1>4. TurnsSaved'
    <2>1. job.at <= job'.at /\ crashes <= crashes'
        BY <1>1 DEF TurnsInv, TypeOK
    <2> QED
        BY <1>1, <2>1, TurnsStay DEF TurnsInv
<1>5. TurnsDigest'
    <2> SUFFICES ASSUME NEW i \in 1..MaxRows, passedOver[i] > 0
                 PROVE  /\ i \in DOMAIN rows' /\ rows'[i] = saved[i]
                        /\ Behind(saved, i) \subseteq Behind(rows', i)
        BY <1>1 DEF TurnsDigest
    <2>1. i \in DOMAIN saved /\ saved[i].status \in Retryable
        BY DEF TurnsInv, TurnsSaved, WaitsIn
    <2>2. i \in DOMAIN rows' /\ rows'[i] = saved[i]
        BY <1>2, <1>3, <2>1
    <2>3. \A j \in DOMAIN saved : /\ j \in DOMAIN rows'
                                  /\ saved[j].status \in Retryable \cup Terminal => rows'[j] = saved[j]
        BY <1>2, <1>3
    <2> QED
        BY <2>1, <2>2, <2>3, StaysBehind
<1>6. (job.at <= now)'
    BY <1>1, <1>2
<1> QED
    BY <1>1, <1>4, <1>5, <1>6 DEF TurnsInv, TurnsSweep, TurnsAsked

\* Between sweeps the turns stay as they were promised.
LEMMA RestTurns ==
    ASSUME TypeOK, QueueInv, TurnsInv, TypeOK', job'.pc = "idle", job'.at = job.at,
           UNCHANGED <<now, passedOver>>, crashes <= crashes',
           \A j \in DOMAIN saved : /\ j \in DOMAIN saved'
                                   /\ saved[j].status \in Retryable \cup Terminal => saved'[j] = saved[j]
    PROVE  TurnsInv'
<1>1. job.at <= job'.at
    BY DEF TypeOK, Jobs
<1>2. TurnsSaved'
    BY <1>1, TurnsStay DEF TurnsInv
<1> QED
    BY <1>2 DEF TurnsInv, TurnsDigest, TurnsSweep, TurnsAsked

\* A sweep that is rolled back passes over what it had not reached, and counts
\* itself.
LEMMA RollBackTurns ==
    ASSUME TypeOK, QueueInv, TurnsInv, TypeOK', RollBack
    PROVE  TurnsInv'
<1>1. /\ saved' = saved /\ now' = now /\ crashes' = crashes + 1
      /\ job'.pc = "idle" /\ job'.at = job.at
    BY DEF RollBack, Idle, worldVars
<1>2. /\ saved \in Seq(Row) /\ crashes \in Nat /\ BatchLimit \in Nat
      /\ DOMAIN passedOver = 1..MaxRows /\ \A i \in 1..MaxRows : passedOver[i] \in Nat
    BY DeliveryAssumption DEF TypeOK
<1>3. TurnsSaved'
    <2> SUFFICES ASSUME NEW i \in 1..MaxRows, passedOver'[i] > 0
                 PROVE  /\ WaitsIn(saved, i)
                        /\ (Skips(i)' - 1) * BatchLimit <= Cardinality(Behind(saved, i))
        BY <1>1 DEF TurnsSaved, WaitsIn
    <2>1. Cardinality(Behind(saved, i)) \in Nat
        BY <1>2, BehindFinite
    <2>2. passedOver'[i] = IF job.pc = "sweep" /\ i \in job.todo \cup job.left
                           THEN passedOver[i] + 1 ELSE passedOver[i]
        BY <1>2 DEF RollBack
    <2>3. WaitsIn(saved, i)
        BY <2>2 DEF TurnsInv, TurnsSaved, TurnsAsked
    <2>4. Skips(i) - 1 \in Int /\ Skips(i)' - 1 \in Int /\ Skips(i)' - 1 <= Skips(i) - 1
        BY <1>1, <1>2, <2>2 DEF Skips
    <2>5. (Skips(i) - 1) * BatchLimit <= Cardinality(Behind(saved, i))
        <3>1. CASE passedOver[i] > 0
            BY <3>1 DEF TurnsInv, TurnsSaved
        <3>2. CASE passedOver[i] = 0
            <4>1. Skips(i) - 1 <= 0
                BY <1>2, <3>2 DEF Skips
            <4>2. (Skips(i) - 1) * BatchLimit <= 0 * BatchLimit /\ 0 * BatchLimit = 0
                  /\ (Skips(i) - 1) * BatchLimit \in Int
                BY <1>2, <2>4, <4>1, MoreBatches
            <4> QED
                BY <2>1, <4>2
        <3> QED
            BY <1>2, <3>1, <3>2
    <2>6. /\ (Skips(i)' - 1) * BatchLimit <= (Skips(i) - 1) * BatchLimit
          /\ (Skips(i)' - 1) * BatchLimit \in Int /\ (Skips(i) - 1) * BatchLimit \in Int
        BY <1>2, <2>4, MoreBatches
    <2> HIDE DEF Skips
    <2>7. (Skips(i)' - 1) * BatchLimit <= Cardinality(Behind(saved, i))
        BY <2>1, <2>5, <2>6
    <2> QED
        BY <2>3, <2>7
<1>4. (job.at <= now)'
    BY <1>1 DEF TurnsInv
<1> QED
    BY <1>1, <1>3, <1>4 DEF TurnsInv, TurnsDigest, TurnsSweep, TurnsAsked

-----------------------------------------------------------------------------
(* The theorems.                                                           *)

LEMMA QueueInit ==
    Init => TypeOK /\ QueueInv
<1> SUFFICES ASSUME Init PROVE TypeOK /\ QueueInv
    OBVIOUS
<1>1. /\ rows = <<>> /\ saved = <<>> /\ Len(rows) = 0 /\ DOMAIN rows = {} /\ DOMAIN saved = {}
      /\ rows \in Seq(Row) /\ job = Idle
    BY DEF Init
<1>2. TypeOK
    <2>1. now \in Nat \ {0} /\ enabled \subseteq Channels /\ health \in [Channels -> Health]
          /\ window \in [kind : {"none", "defer", "suppress"}, ends : Nat]
        BY DEF Init, NoWindow
    <2>2. job \in Jobs
        BY <1>1 DEF Jobs, Idle
    <2>3. alert \in [Alerts -> [state : {"none", "live", "resolved"}, since : Nat, resolvedAt : Nat]]
        BY DEF Init
    <2>4. Len(rows) <= MaxRows
        BY <1>1, DeliveryAssumption
    <2> QED
        BY <1>1, <2>1, <2>2, <2>3, <2>4 DEF Init, TypeOK
<1>3. \A a, c : Open(rows, a, c) = {} /\ Open(saved, a, c) = {}
    BY <1>1 DEF Open
<1>4. \A a, c : Cardinality(Open(rows, a, c)) = 0 /\ Cardinality(Open(saved, a, c)) = 0
    BY <1>3, FS_EmptySet
<1>5. \A a \in Alerts : raised[a] = 0 /\ \A c \in Channels : pages[<<a, c>>] = 0
    BY DEF Init
<1>6. TableInv(rows, pages, raised) /\ TableInv(saved, pages, raised)
    BY <1>1, <1>4, <1>5 DEF TableInv, HeldApart
<1>7. PagesBounded
    <2>1. crashes = 0
        BY DEF Init
    <2> SUFFICES ASSUME NEW a \in Alerts, NEW c \in Channels
                 PROVE  pages[<<a, c>>] + Cardinality(Open(rows, a, c))
                            <= raised[a] + crashes * (raised[a] + 1)
        BY DEF PagesBounded
    <2> QED
        BY <1>4, <1>5, <2>1
<1>8. SessionExtends /\ AtRest /\ InHand
    BY <1>1 DEF SessionExtends, AtRest, InHand, Idle
<1>9. RaisedHasRow
    BY DEF Init, RaisedHasRow
<1> QED
    BY <1>2, <1>6, <1>7, <1>8, <1>9 DEF QueueInv

\* What every step of the worker's sweeps and digests keeps.
LEMMA SweepKeeps ==
    ASSUME TypeOK, QueueInv,
           \/ StartRetry \/ FlushDeferred
           \/ \E i \in job.todo : CloseResolved(i) \/ Resend(i) \/ KeepOwed(i) \/ FanOut(i)
    PROVE  TypeOK' /\ QueueInv' /\ Answering /\ UNCHANGED <<alert, saved>>
<1>1. UNCHANGED <<alert, saved>>
    BY DEF StartRetry, FlushDeferred, CloseResolved, Resend, KeepOwed, FanOut
<1> QED
    BY <1>1, StartRetryStep, FlushDeferredStep, CloseResolvedStep, ResendStep, KeepOwedStep, FanOutStep

LEMMA QueueStep ==
    TypeOK /\ QueueInv /\ [Next]_vars => TypeOK' /\ QueueInv'
<1> SUFFICES ASSUME TypeOK, QueueInv, [Next]_vars
             PROVE  TypeOK' /\ QueueInv'
    OBVIOUS
<1>1. CASE Tick \/ WorldNext \/ \E a \in Alerts : ResolveAlert(a) \/ ReviveAlert(a)
    BY <1>1, ElsewhereStep
<1>2. CASE \E a \in Alerts : OpenAlert(a) \/ Escalate(a)
    BY <1>2, RaisedStep
<1>3. CASE \/ StartRetry \/ FlushDeferred
           \/ \E i \in job.todo : CloseResolved(i) \/ Resend(i) \/ KeepOwed(i) \/ FanOut(i)
    BY <1>3, SweepKeeps
<1>4. CASE Commit
    BY <1>4, CommitStep
<1>5. CASE Crash \/ \E i \in job.todo : FanOutRaises(i)
    BY <1>5, RollBackStep DEF Crash, FanOutRaises
<1>6. CASE \E a \in Alerts : DispatchCrashes(a)
    BY <1>6, DispatchCrashesStep
<1>7. CASE UNCHANGED vars
    BY <1>7 DEF vars, worldVars, historyVars, TypeOK, QueueInv, SessionExtends, AtRest, InHand,
               RaisedHasRow, PagesBounded
<1> QED
    BY <1>1, <1>2, <1>3, <1>4, <1>5, <1>6, <1>7
    DEF Next, DeliveryNext, ReviveNext, AlertNext, SweepNext, CrashNext

\* The invariant that the theorems below rest on.
THEOREM QueueInvariant == Spec => [](TypeOK /\ QueueInv)
<1> QED
    BY QueueInit, QueueStep, PTL DEF Spec

\* Every variable keeps its type, whatever operators do and whenever the
\* worker dies: rows are well-formed deliveries with no more attempts than
\* notifications.max_attempts (models.NotificationDelivery).
THEOREM TypeCorrect == Spec => []TypeOK
<1> QED
    BY QueueInvariant, PTL

\* A destination receives an alert once per notification raised, and again
\* only because a worker died, or a sweep raised, with sends uncommitted (_send,
\* _flush, retry_due).
THEOREM PagesExplained == Spec => []NoDoublePage
<1>1. TypeOK /\ QueueInv => NoDoublePage
    <2> SUFFICES ASSUME TypeOK, QueueInv, NEW a \in Alerts, NEW c \in Channels
                 PROVE  pages[<<a, c>>] <= raised[a] + crashes * (raised[a] + 1)
        BY DEF NoDoublePage
    <2> DEFINE n == raised[a]
               m == Cardinality(Open(rows, a, c))
               p == pages[<<a, c>>]
    <2>1. n \in Nat /\ p \in Nat /\ crashes \in Nat
        BY DEF TypeOK
    <2>2. m \in Nat
        BY OpenFinite DEF TypeOK
    <2>3. p + m <= n + crashes * (n + 1)
        BY DEF QueueInv, PagesBounded
    <2> HIDE DEF n, m, p
    <2>4. crashes * (n + 1) \in Int
        BY <2>1
    <2>5. p <= n + crashes * (n + 1)
        BY <2>1, <2>2, <2>3, <2>4
    <2> QED
        BY <2>5 DEF n, p
<1> QED
    BY <1>1, QueueInvariant, PTL

\* A held alert waits in one row however often it escalates (_record_withheld),
\* and an owed or held row has no attempts behind it (_fan_out_owed,
\* flush_deferred).
THEOREM HeldInOneRow == Spec => []HeldOnce
<1>1. TypeOK /\ QueueInv => HeldOnce
    <2> SUFFICES ASSUME TypeOK, QueueInv PROVE HeldOnce
        OBVIOUS
    <2>1. HeldApart(rows) /\ \A i \in DOMAIN rows : WellKept(rows[i], pages)
        BY DEF QueueInv, TableInv
    <2>2. ASSUME NEW a \in Alerts
          PROVE  Cardinality(Held(a)) <= 1
        <3>1. \A i, j \in Held(a) : i = j
            BY <2>1 DEF HeldApart, Held, Holding
        <3>2. CASE Held(a) = {}
            BY <3>2, FS_EmptySet
        <3>3. CASE Held(a) # {}
            <4>1. PICK i : Held(a) = {i}
                BY <3>1, <3>3
            <4>2. Cardinality({i}) = 1
                BY FS_Singleton
            <4> QED
                BY <4>1, <4>2
        <3> QED
            BY <3>2, <3>3
    <2>3. \A r \in Range(rows) : r.key \in {Unrouted, Withheld} /\ r.status # "dead" => r.attempts = 0
        BY <2>1 DEF Range, WellKept
    <2> QED
        BY <2>2, <2>3 DEF HeldOnce
<1> QED
    BY <1>1, QueueInvariant, PTL

LEMMA TurnsStep ==
    TypeOK /\ QueueInv /\ TurnsInv /\ [Next]_vars => TurnsInv'
<1> SUFFICES ASSUME TypeOK, QueueInv, TurnsInv, [Next]_vars
             PROVE  TurnsInv'
    OBVIOUS
<1>0. TypeOK'
    BY QueueStep
<1>1. CASE UNCHANGED vars \/ Tick \/ WorldNext \/ \E a \in Alerts : ResolveAlert(a) \/ ReviveAlert(a)
    <2>1. UNCHANGED <<rows, saved, job, passedOver, crashes>>
        BY <1>1 DEF vars, historyVars, Tick, WorldNext, ToggleChannel, ChangeHealth, OpenWindow,
                    CloseWindow, ResolveAlert, ReviveAlert
    <2>2. now' = now \/ now' = now + 1
        BY <1>1 DEF vars, worldVars, Tick, WorldNext, ToggleChannel, ChangeHealth, OpenWindow,
                    CloseWindow, ResolveAlert, ReviveAlert
    <2>3. (job.at <= now)'
        <3>1. job.at \in Nat /\ now \in Nat /\ job.at <= now
            BY DEF TypeOK, Jobs, TurnsInv
        <3> QED
            BY <2>1, <2>2, <3>1
    <2> QED
        BY <2>1, <2>3 DEF TurnsInv, TurnsSaved, TurnsDigest, TurnsSweep, TurnsAsked, WaitsIn, Skips
<1>2. CASE \E a \in Alerts : OpenAlert(a) \/ Escalate(a)
    <2>1. PICK a \in Alerts : OpenAlert(a) \/ Escalate(a)
        BY <1>2
    <2>2. Notified(a) /\ saved' = rows'
        BY <2>1, RaisedStep
    <2>3. /\ job.pc = "idle" /\ UNCHANGED <<job, passedOver, now>> /\ crashes <= crashes'
        BY <2>1 DEF OpenAlert, Escalate, Notify, worldVars, TypeOK
    <2>4. rows = saved
        BY <2>3 DEF QueueInv, AtRest
    <2>5. \A j \in DOMAIN saved : /\ j \in DOMAIN saved'
                                  /\ saved[j].status \in Retryable \cup Terminal => saved'[j] = saved[j]
        BY <2>2, <2>4 DEF Notified, Holding
    <2> QED
        BY <1>0, <2>3, <2>5, RestTurns
<1>3. CASE StartRetry
    BY <1>0, <1>3, StartRetryTurns
<1>4. CASE FlushDeferred
    BY <1>0, <1>4, FlushDeferredTurns
<1>5. CASE Commit
    BY <1>0, <1>5, CommitTurns
<1>6. CASE Crash \/ \E i \in job.todo : FanOutRaises(i)
    <2>1. RollBack
        BY <1>6 DEF Crash, FanOutRaises
    <2> QED
        BY <1>0, <2>1, RollBackTurns
<1>8. CASE \E a \in Alerts : DispatchCrashes(a)
    <2>1. job.pc = "idle" /\ job' = job /\ UNCHANGED <<now, passedOver, saved>> /\ crashes <= crashes'
        BY <1>8 DEF DispatchCrashes, worldVars, TypeOK
    <2> QED
        BY <1>0, <2>1, RestTurns
<1>7. CASE \E i \in job.todo : CloseResolved(i) \/ Resend(i) \/ KeepOwed(i) \/ FanOut(i)
    <2>1. PICK i \in job.todo : CloseResolved(i) \/ Resend(i) \/ KeepOwed(i) \/ FanOut(i)
        BY <1>7
    <2>2. Turn(i) /\ LeftBehind(i)
        BY <2>1, CloseResolvedStep, ResendStep, KeepOwedStep, FanOutStep
        DEF CloseResolved, Resend, KeepOwed, FanOut
    <2>3. UNCHANGED <<now, saved, passedOver, crashes>>
        BY <2>1 DEF CloseResolved, Resend, KeepOwed, FanOut, worldVars, historyVars
    <2>4. /\ job'.todo = job.todo \ {i} /\ job'.pc = job.pc
          /\ job'.at = job.at /\ job'.left = job.left
        <3>1. \/ Processed(i)
              \/ job' = [job EXCEPT !.todo = @ \ {i}, !.stamp = @ \cup {rows[i].alert}]
            BY <2>1 DEF CloseResolved, Resend, KeepOwed, FanOut
        <3>2. job \in Jobs
            BY DEF TypeOK
        <3> QED
            BY <3>1, <3>2 DEF Processed, Jobs
    <2> QED
        BY <1>0, <2>2, <2>3, <2>4, TreatedTurns
<1> QED
    BY <1>1, <1>2, <1>3, <1>4, <1>5, <1>6, <1>7, <1>8
    DEF Next, DeliveryNext, ReviveNext, AlertNext, SweepNext, CrashNext

\* Whatever is resolved, re-sent, fanned out or added meanwhile, and whenever a
\* sweep is rolled back, a row that was left out of n sweeps in succession, the
\* rolled-back ones not counted, has n - 1 full batches of rows behind it
\* (retry_due, _due_order).
THEOREM TurnsInvariant == Spec => []TurnsInv
<1> QED
    BY QueueInvariant, TurnsInit, TurnsStep, PTL DEF Spec

\* No due row that could be worked on waits out more successive sweeps than the
\* other rows take, plus one, plus one for each sweep that was rolled back
\* (retry_due: "every row a pass touches is left sorting ... behind every row it
\* did not touch"), and what is held waits in one row (_record_withheld).  How
\* many sweeps are rolled back is bounded by nothing: the fan-out of an owed row
\* to several mute targets raises again in every sweep that reaches it.
THEOREM TurnsTaken == Spec => []TurnsCome
<1>1. TypeOK /\ QueueInv /\ TurnsInv => NoStarvation
    <2> SUFFICES ASSUME TypeOK, QueueInv, TurnsInv, NEW i \in DOMAIN saved
                 PROVE  passedOver[i] * BatchLimit < Len(saved) + (crashes + 1) * BatchLimit
        BY DEF NoStarvation
    <2> DEFINE n == passedOver[i]
               m == Len(saved)
               b == Cardinality(Behind(saved, i))
    <2>1. saved \in Seq(Row) /\ m \in Nat /\ i \in 1..m
        BY DEF TypeOK
    <2>2. i \in 1..MaxRows
        <3>1. m <= Len(rows) /\ Len(rows) <= MaxRows /\ Len(rows) \in Nat /\ MaxRows \in Nat
            BY DeliveryAssumption DEF TypeOK, QueueInv, SessionExtends
        <3> HIDE DEF m
        <3> QED
            BY <2>1, <3>1
    <2>3. n \in Nat /\ crashes \in Nat /\ BatchLimit \in Nat \ {0}
        BY <2>2, DeliveryAssumption DEF TypeOK
    <2>4. CASE n = 0
        <3>1. 0 * BatchLimit = 0 /\ 1 * BatchLimit = BatchLimit
            BY <2>3
        <3>2. 1 * BatchLimit <= (crashes + 1) * BatchLimit /\ (crashes + 1) * BatchLimit \in Int
            BY <2>3, MoreBatches
        <3> HIDE DEF m, n
        <3>3. n * BatchLimit < m + (crashes + 1) * BatchLimit
            BY <2>1, <2>3, <2>4, <3>1, <3>2
        <3> QED
            BY <3>3 DEF m, n
    <2>5. CASE n > 0
        <3>1. WaitsIn(saved, i) /\ (n - crashes - 1) * BatchLimit <= b
            BY <2>2, <2>5 DEF TurnsInv, TurnsSaved, Skips
        <3>2. b + 1 <= m /\ b \in Nat
            BY <2>1, <3>1, BehindOthers, BehindFinite DEF WaitsIn
        <3> HIDE DEF m, n, b
        <3> DEFINE k == n - crashes - 1
                   l == crashes + 1
        <3>3. k \in Int /\ l \in Int /\ n = k + l
            BY <2>3
        <3>4. (k + l) * BatchLimit = k * BatchLimit + l * BatchLimit
              /\ k * BatchLimit \in Int /\ l * BatchLimit \in Int
            <4> HIDE DEF k, l
            <4> QED
                BY <2>3, <3>3
        <3>5. k * BatchLimit <= b
            BY <3>1
        <3> HIDE DEF k, l
        <3>6. n * BatchLimit < m + l * BatchLimit
            BY <2>1, <2>3, <3>2, <3>3, <3>4, <3>5
        <3> QED
            BY <3>6 DEF m, n, l
    <2> QED
        BY <2>3, <2>4, <2>5
<1> QED
    BY <1>1, HeldInOneRow, TurnsInvariant, QueueInvariant, PTL DEF TurnsCome

\* While what fires again after it was resolved is another alert, a row that
\* does not answer for its alert is a resolved alert's, and stays one.
LEMMA AnswersStep ==
    TypeOK /\ QueueInv /\ AnswersInv /\ [DeliveryNext]_vars => AnswersInv'
<1> SUFFICES ASSUME TypeOK, QueueInv, AnswersInv, [DeliveryNext]_vars
             PROVE  AnswersInv'
    OBVIOUS
<1>0. /\ \A i \in DOMAIN rows : rows[i].alert \in Alerts
      /\ \A i \in DOMAIN saved : saved[i].alert \in Alerts
    <2>1. /\ \A i \in DOMAIN rows : rows[i] \in Row
          /\ \A i \in DOMAIN saved : saved[i] \in Row
        BY DEF TypeOK
    <2> QED
        BY <2>1 DEF Row
<1>1. CASE \E a \in Alerts : OpenAlert(a) \/ Escalate(a)
    <2>1. PICK a \in Alerts : OpenAlert(a) \/ Escalate(a)
        BY <1>1
    <2>2. /\ Notified(a) /\ saved' = rows'
          /\ \A b \in Alerts : alert[b].state = "resolved" => alert'[b].state = "resolved"
        BY <2>1, RaisedStep
    <2> QED
        BY <1>0, <2>2 DEF Notified, AnswersInv, AnswersIn
<1>2. CASE \/ StartRetry \/ FlushDeferred
           \/ \E i \in job.todo : CloseResolved(i) \/ Resend(i) \/ KeepOwed(i) \/ FanOut(i)
    <2>1. Answering /\ alert' = alert /\ saved' = saved
        BY <1>2, SweepKeeps
    <2> QED
        BY <2>1 DEF Answering, AnswersInv, AnswersIn
<1>3. CASE Commit
    <2>1. saved' = rows /\ rows' = rows /\ \A a \in Alerts : alert'[a].state = alert[a].state
        BY <1>3, CommitStep
    <2> QED
        BY <1>0, <2>1 DEF AnswersInv, AnswersIn
<1>4. CASE Crash \/ \E i \in job.todo : FanOutRaises(i)
    BY <1>4, RollBackStep DEF Crash, FanOutRaises, AnswersInv, AnswersIn
<1>5. CASE \E a \in Alerts : DispatchCrashes(a)
    BY <1>5, DispatchCrashesStep DEF AnswersInv, AnswersIn
<1>6. CASE Tick \/ WorldNext \/ \E a \in Alerts : ResolveAlert(a)
    <2>1. UNCHANGED <<rows, saved>>
        BY <1>6, ElsewhereStep
    <2>2. \A a \in Alerts : alert[a].state = "resolved" => alert'[a].state = "resolved"
        <3>1. CASE Tick \/ WorldNext
            BY <3>1 DEF Tick, WorldNext, ToggleChannel, ChangeHealth, OpenWindow, CloseWindow
        <3>2. ASSUME NEW b \in Alerts, ResolveAlert(b)
              PROVE  \A a \in Alerts : alert[a].state = "resolved" => alert'[a].state = "resolved"
            <4>1. alert' = [alert EXCEPT ![b].state = "resolved", ![b].resolvedAt = now]
                BY <3>2 DEF ResolveAlert
            <4>2. alert \in [Alerts -> [state : {"none", "live", "resolved"}, since : Nat, resolvedAt : Nat]]
                BY DEF TypeOK
            <4> QED
                BY <4>1, <4>2
        <3> QED
            BY <1>6, <3>1, <3>2
    <2> QED
        BY <1>0, <2>1, <2>2 DEF AnswersInv, AnswersIn
<1>7. CASE UNCHANGED vars
    BY <1>7 DEF vars, AnswersInv, AnswersIn
<1> QED
    BY <1>1, <1>2, <1>3, <1>4, <1>5, <1>6, <1>7
    DEF DeliveryNext, AlertNext, SweepNext, CrashNext

\* No live alert is without a committed row that answers for it, whatever
\* crashed, was held, owed or disabled (record_dispatch, retry_due, _close).
THEOREM NothingForgotten == DeliverySpec => []NothingLost
<1>1. Init => AnswersInv
    BY DEF Init, AnswersInv, AnswersIn
<1>2. [DeliveryNext]_vars => [Next]_vars
    BY DEF Next
<1>3. TypeOK /\ QueueInv /\ AnswersInv => NothingLost
    <2> SUFFICES ASSUME QueueInv, AnswersInv, NEW a \in Alerts, alert[a].state = "live"
                 PROVE  \E r \in Range(saved) : r.alert = a /\ Accounts(r)
        BY DEF NothingLost
    <2>1. PICK i \in DOMAIN saved : saved[i].alert = a
        BY DEF QueueInv, RaisedHasRow
    <2>2. Accounts(saved[i])
        BY <2>1 DEF AnswersInv, AnswersIn
    <2>3. saved[i] \in Range(saved)
        BY <2>1 DEF Range
    <2> QED
        BY <2>1, <2>2, <2>3
<1> QED
    BY <1>1, <1>2, <1>3, QueueInit, QueueStep, AnswersStep, PTL DEF DeliverySpec

\* The committed table only grows, settled rows stay as they are, and what was
\* received stays received.
LEMMA SavedKept ==
    ASSUME TypeOK, QueueInv, [Next]_vars
    PROVE  /\ \A i \in DOMAIN saved :
                 /\ i \in DOMAIN saved' /\ saved'[i].alert = saved[i].alert
                 /\ saved[i].status \in Terminal => saved'[i].status = saved[i].status
           /\ \A a \in Alerts, c \in Channels : pages[<<a, c>>] <= pages'[<<a, c>>]
<1>0. /\ Len(saved) \in Nat /\ Len(rows) \in Nat /\ DOMAIN saved = 1..Len(saved)
      /\ DOMAIN rows = 1..Len(rows) /\ pages \in [Alerts \X Channels -> Nat]
    BY DEF TypeOK
<1>1. ASSUME NEW A, NEW chans, NEW a \in Alerts, NEW c \in Channels
      PROVE  pages[<<a, c>>] <= Paged(A, chans)[<<a, c>>] /\ pages[<<a, c>>] <= pages[<<a, c>>]
    <2>1. pages[<<a, c>>] \in Nat /\ <<a, c>> \in DOMAIN pages
        BY <1>0
    <2>2. \/ Paged(A, chans)[<<a, c>>] = pages[<<a, c>>]
          \/ Paged(A, chans)[<<a, c>>] = pages[<<a, c>>] + 1
        BY <2>1 DEF Paged
    <2> QED
        BY <2>1, <2>2
<1>2. CASE \E a \in Alerts : OpenAlert(a) \/ Escalate(a)
    <2>1. PICK a \in Alerts : OpenAlert(a) \/ Escalate(a)
        BY <1>2
    <2>2. Notified(a) /\ saved' = rows' /\ rows = saved
        BY <2>1, RaisedStep DEF OpenAlert, Escalate, QueueInv, AtRest
    <2>3. pages' = pages \/ pages' = Paged({a}, enabled)
        BY <2>1 DEF OpenAlert, Escalate, Notify
    <2> QED
        BY <1>1, <2>2, <2>3 DEF Notified
<1>3. CASE Commit
    <2>1. saved' = rows /\ pages' = pages
        BY <1>3 DEF Commit
    <2>2. \A i \in DOMAIN saved : i \in DOMAIN rows
        BY <1>0 DEF QueueInv, SessionExtends
    <2> QED
        BY <1>1, <2>1, <2>2 DEF QueueInv, SessionExtends
<1>4. CASE ~Commit /\ ~(\E a \in Alerts : OpenAlert(a) \/ Escalate(a))
    <2>1. saved' = saved
        BY <1>4 DEF Next, DeliveryNext, ReviveNext, AlertNext, SweepNext, CrashNext, WorldNext, Tick,
            ResolveAlert, ReviveAlert, StartRetry, FlushDeferred, CloseResolved, Resend, KeepOwed, FanOut,
            FanOutRaises, RollBack, Crash, DispatchCrashes, ToggleChannel, ChangeHealth, OpenWindow, CloseWindow, vars
    <2>2. pages' = pages \/ \E A, chans : pages' = Paged(A, chans)
        <3>1. ASSUME NEW i \in job.todo, FanOut(i)
              PROVE  pages' = pages \/ \E A, chans : pages' = Paged(A, chans)
            <4> DEFINE targets == SetToSeq(job.chans \ DeliveredAfter(i))
            <4>1. CASE targets = <<>> \/ \A c \in Range(targets) : health[c] = "mute"
                BY <3>1, <4>1 DEF FanOut
            <4>2. CASE ~(targets = <<>> \/ \A c \in Range(targets) : health[c] = "mute")
                BY <3>1, <4>2 DEF FanOut
            <4> QED
                BY <4>1, <4>2
        <3> QED
            BY <1>4, <3>1 DEF Next, DeliveryNext, ReviveNext, AlertNext, SweepNext, CrashNext, WorldNext, Tick,
                ResolveAlert, ReviveAlert, StartRetry, FlushDeferred, CloseResolved, Resend, KeepOwed,
                FanOutRaises, RollBack, Crash, DispatchCrashes, ToggleChannel, ChangeHealth, OpenWindow, CloseWindow, vars,
                historyVars
    <2> QED
        BY <1>1, <2>1, <2>2
<1> QED
    BY <1>2, <1>3, <1>4

Log == [i \in 1..MaxRows |-> IF i \in DOMAIN saved THEN Stage(saved[i]) ELSE "absent"]

HeardOf == {i \in DOMAIN saved : Heard(saved[i])}

LEMMA OutboxStep ==
    TypeOK /\ QueueInv /\ TypeOK' /\ QueueInv' /\ [Next]_vars
    => [Outbox!Next]_<<Log, HeardOf>>
<1> SUFFICES ASSUME TypeOK, QueueInv, TypeOK', QueueInv', [Next]_vars
             PROVE  Outbox!Commit
    BY DEF Outbox!Next, Log, HeardOf
<1>1. /\ \A i \in DOMAIN saved :
            /\ i \in DOMAIN saved' /\ saved'[i].alert = saved[i].alert
            /\ saved[i].status \in Terminal => saved'[i].status = saved[i].status
      /\ \A a \in Alerts, c \in Channels : pages[<<a, c>>] <= pages'[<<a, c>>]
    BY SavedKept
<1>2. \A r : Stage(r) \in {"sent", "closed", "open"}
    BY DEF Stage
<1>3. \A r \in Row : /\ Stage(r) \in {"sent", "closed"} <=> r.status \in Terminal
                     /\ Stage(r) = "sent" <=> r.status = "delivered"
    BY DEF Stage, Row
<1>4. /\ \A i \in DOMAIN saved : saved[i] \in Row /\ saved[i].alert \in Alerts
      /\ \A i \in DOMAIN saved' : saved'[i] \in Row /\ saved'[i].alert \in Alerts
    <2>1. /\ \A i \in DOMAIN saved : saved[i] \in Row
          /\ \A i \in DOMAIN saved' : saved'[i] \in Row
        BY DEF TypeOK
    <2> QED
        BY <2>1 DEF Row
<1>5. \A i \in DOMAIN saved : Stage(saved[i]) \in {"sent", "closed"} => Stage(saved'[i]) = Stage(saved[i])
    BY <1>1, <1>3, <1>4 DEF Stage
<1>6. \A i \in HeardOf : i \in HeardOf'
    <2> TAKE i \in HeardOf
    <2>1. i \in DOMAIN saved /\ \E c \in Channels : pages[<<saved[i].alert, c>>] > 0
        BY DEF HeardOf, Heard
    <2>2. PICK c \in Channels : pages[<<saved[i].alert, c>>] > 0
        BY <2>1
    <2>3. pages[<<saved[i].alert, c>>] \in Nat /\ pages'[<<saved[i].alert, c>>] \in Nat
        BY <1>4, <2>1 DEF TypeOK
    <2>4. pages'[<<saved[i].alert, c>>] > 0
        BY <1>1, <1>4, <2>1, <2>2, <2>3
    <2> QED
        BY <1>1, <2>1, <2>4 DEF HeardOf, Heard
<1>7. \A i \in DOMAIN saved' : Stage(saved'[i]) = "sent" => i \in HeardOf'
    <2> TAKE i \in DOMAIN saved'
    <2> HAVE Stage(saved'[i]) = "sent"
    <2>1. saved'[i].status = "delivered" /\ WellKept(saved'[i], pages')
        BY <1>3, <1>4 DEF QueueInv, TableInv
    <2> QED
        BY <2>1 DEF WellKept, HeardOf, Heard
<1>8. Log' \in [1..MaxRows -> Outbox!Stages]
    BY <1>2 DEF Log, Outbox!Stages, Outbox!Final
<1>9. \A r \in 1..MaxRows :
          /\ Log[r] \in {"sent", "closed"} => Log'[r] \in {Log[r], "gone"}
          /\ Log[r] = "gone" => Log'[r] = "gone"
          /\ Log'[r] = "sent" => r \in HeardOf'
    BY <1>1, <1>2, <1>5, <1>7 DEF Log
<1> QED
    BY <1>6, <1>8, <1>9 DEF Log, HeardOf, Outbox!Commit, Outbox!Stages, Outbox!Final

\* The committed rows are a durable outbox: final rows stay final across
\* retries, fan-outs, digests and crashes, and only what was transmitted is
\* recorded as sent (module docstring of channels/delivery.py).
THEOREM Refinement == Spec => ImplementsOutbox
<1>1. Init => Outbox!Init
    <2> SUFFICES ASSUME Init PROVE Outbox!Init
        OBVIOUS
    <2>1. DOMAIN saved = {}
        BY DEF Init
    <2> QED
        BY <2>1 DEF Outbox!Init
<1>2. TypeOK /\ QueueInv /\ TypeOK' /\ QueueInv' /\ [Next]_vars
      => [Outbox!Next]_<<[i \in 1..MaxRows |-> IF i \in DOMAIN saved THEN Stage(saved[i]) ELSE "absent"],
                         {i \in DOMAIN saved : Heard(saved[i])}>>
    BY OutboxStep DEF Log, HeardOf
<1> QED
    BY <1>1, <1>2, QueueInvariant, PTL DEF Spec, ImplementsOutbox, Outbox!Spec
=============================================================================
