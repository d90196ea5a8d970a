------------------------ MODULE AlertLifecycleProofs ------------------------
(***************************************************************************)
(* The alerts of one printer, for any error codes, thresholds, windows and *)
(* operators: type correctness of AlertLifecycle, that a condition has one *)
(* live alert and subscribers hear of it what it is, that people are told  *)
(* once an incident, and that a pass closes no alert whose condition still *)
(* holds.  A pass commits what it decided some time ago; operators and     *)
(* agents move in between, and the pass may fail after it has sent.        *)
(***************************************************************************)
EXTENDS AlertLifecycle, SequencesExt, FiniteSetTheorems, WellFoundedInduction, TLAPS

USE DEF OtherKeys, RuleKinds, RuleKeys, Keys, LiveStates, Levels

-----------------------------------------------------------------------------
(* Facts about sequences and measures that the proofs below cite.          *)

\* SetToSeq lists every element of a finite set once.
LEMMA SetToSeqLists ==
    ASSUME NEW S, IsFiniteSet(S)
    PROVE  /\ SetToSeq(S) \in Seq(S)
           /\ Len(SetToSeq(S)) = Cardinality(S)
           /\ Cardinality(S) \in Nat
           /\ DOMAIN SetToSeq(S) = 1..Cardinality(S)
           /\ \A i, j \in DOMAIN SetToSeq(S) : SetToSeq(S)[i] = SetToSeq(S)[j] => i = j
           /\ Range(SetToSeq(S)) = S
<1> DEFINE n == Cardinality(S)
           f == SetToSeq(S)
<1>1. n \in Nat /\ ExistsBijection(1..n, S)
    BY FS_CardinalityType
<1>2. PICK g \in [1..n -> S] : IsInjective(g)
    BY <1>1 DEF ExistsBijection, Bijection, Injection
<1>3. f \in [1..n -> S] /\ IsInjective(f)
    BY <1>2 DEF SetToSeq
<1>4. f \in Seq(S) /\ Len(f) = n /\ DOMAIN f = 1..n
    BY <1>1, <1>3
<1>5. f \in Surjection(1..n, S)
    <2>1. f \in Injection(1..n, S)
        BY <1>3 DEF Injection
    <2>2. Cardinality(1..n) = n
        BY <1>1, FS_Interval
    <2> QED
        BY <2>1, <2>2, FS_Injection
<1>6. Range(f) = S
    BY <1>3, <1>5 DEF Range, Surjection
<1> QED
    BY <1>1, <1>3, <1>4, <1>6 DEF IsInjective

\* A set of naturals has a least element.
LEMMA LeastNatural ==
    ASSUME NEW S \in SUBSET Nat, S # {}
    PROVE  \E n \in S : \A m \in S : n <= m
<1> DEFINE R == {ss \in Nat \X Nat : ss[1] < ss[2]}
<1>1. IsWellFoundedOn(R, Nat)
    BY NatLessThanWellFounded DEF OpToRel
<1>2. \A m, n \in Nat : m < n => <<m, n>> \in R
    OBVIOUS
<1> HIDE DEF R
<1>3. PICK n \in S : \A m \in S : ~(<<m, n>> \in R)
    BY <1>1, WFMin
<1>4. \A m \in S : m \in Nat /\ n \in Nat /\ ~(m < n)
    BY <1>2, <1>3
<1>5. \A m \in S : n <= m
    BY <1>4
<1> QED
    BY <1>3, <1>5

\* A measure with a bound is greatest somewhere.
LEMMA GreatestMeasured ==
    ASSUME NEW S, S # {}, NEW f \in [S -> Nat], NEW bound \in Nat, \A i \in S : f[i] <= bound
    PROVE  \E i \in S : \A j \in S : f[j] <= f[i]
<1> DEFINE T == {bound - f[i] : i \in S}
<1>1. T \in SUBSET Nat /\ T # {}
    OBVIOUS
<1>2. PICK n \in T : \A m \in T : n <= m
    <2> HIDE DEF T
    <2> QED
        BY <1>1, LeastNatural
<1>3. PICK i \in S : n = bound - f[i]
    OBVIOUS
<1>4. ASSUME NEW j \in S
      PROVE  f[j] <= f[i]
    <2>1. bound - f[i] <= bound - f[j]
        BY <1>2, <1>3
    <2>2. f[i] \in Nat /\ f[j] \in Nat
        OBVIOUS
    <2> QED
        BY <2>1, <2>2
<1> QED
    BY <1>4

-----------------------------------------------------------------------------
(* The inductive invariants.                                               *)

\* A pass that is about to commit took its decisions at a time, and the rows
\* it is going to write are as it read them: it holds their locks.
PassInv ==
    /\ job.pc = "idle" =>
          /\ job.resolving = {} /\ job.reviving = {} /\ job.escalating = {}
          /\ job.opening = {}
    /\ job.pc = "commit" => job.at \in 1..now
    /\ \A i \in job.resolving : alerts[i].state \in LiveStates
    /\ \A i \in job.reviving : alerts[i].state = "resolved" /\ alerts[i].key \in RuleKeys

\* What people were told is what the row says, or what the pass is going to
\* write there.
ToldInv ==
    \A i \in DOMAIN alerts :
        lastTold[i] = IF i \in job.escalating THEN job.at ELSE alerts[i].notifiedAt

\* What the pass is going to open or revive is not live, and is one alert each.
DecidedInv ==
    /\ \A k \in job.opening : Live(k) = {}
    /\ \A i \in job.reviving :
          Live(alerts[i].key) = {} /\ alerts[i].key \notin job.opening
    /\ \A i, j \in job.reviving : alerts[i].key = alerts[j].key => i = j

\* No event is about a flap that has not happened.
FlapsInv ==
    \A i \in DOMAIN alerts : \A kind \in {"opened", "resolved"}, flap \in Nat :
        AlertKey(kind, i, flap) \in outbox => flap <= alerts[i].flap

StoryInv == OneIncident /\ SubscribersAgree /\ DecidedInv /\ FlapsInv

-----------------------------------------------------------------------------
(* Facts about the operators.                                              *)

\* The alerts of the table.
LEMMA AlertsTyped ==
    ASSUME TypeOK
    PROVE  /\ Len(alerts) \in Nat /\ DOMAIN alerts = 1..Len(alerts)
           /\ \A i \in DOMAIN alerts :
                 /\ i \in Nat /\ alerts[i] \in Alert
                 /\ alerts[i].key \in Keys /\ alerts[i].flap \in Nat /\ alerts[i].resolvedAt \in Nat
                 /\ alerts[i].notifiedAt \in Nat /\ alerts[i].level \in Nat
                 /\ alerts[i].state \in LiveStates \cup {"resolved"}
<1>1. Len(alerts) \in Nat /\ DOMAIN alerts = 1..Len(alerts)
      /\ \A i \in DOMAIN alerts : i \in Nat /\ alerts[i] \in Alert
    BY DEF TypeOK
<1> QED
    BY <1>1 DEF Alert

\* An alert in another's place in the table.
LEMMA AlertReplaced ==
    ASSUME TypeOK, NEW i \in DOMAIN alerts, NEW a \in Alert
    PROVE  /\ [alerts EXCEPT ![i] = a] \in Seq(Alert)
           /\ Len([alerts EXCEPT ![i] = a]) = Len(alerts)
           /\ DOMAIN [alerts EXCEPT ![i] = a] = DOMAIN alerts
           /\ [alerts EXCEPT ![i] = a][i] = a
           /\ \A j \in DOMAIN alerts : j # i => [alerts EXCEPT ![i] = a][j] = alerts[j]
<1>1. alerts \in Seq(Alert)
    BY DEF TypeOK
<1> QED
    BY <1>1

\* What is to be opened can be listed.
LEMMA OpeningListed ==
    ASSUME NEW opening \in SUBSET RuleKeys
    PROVE  /\ Cardinality(opening) \in Nat
           /\ DOMAIN SetToSeq(opening) = 1..Cardinality(opening)
           /\ Len(SetToSeq(opening)) = Cardinality(opening)
           /\ \A n \in 1..Cardinality(opening) : SetToSeq(opening)[n] \in opening
           /\ \A n, m \in 1..Cardinality(opening) :
                 SetToSeq(opening)[n] = SetToSeq(opening)[m] => n = m
<1>1. IsFiniteSet(OtherKeys)
    <2>1. /\ IsFiniteSet({}) /\ IsFiniteSet({} \cup {"supply"})
        BY FS_EmptySet, FS_AddElement
    <2>2. IsFiniteSet(({} \cup {"supply"}) \cup {"rate"})
        BY <2>1, FS_AddElement
    <2>3. IsFiniteSet((({} \cup {"supply"}) \cup {"rate"}) \cup {"agent"})
        BY <2>2, FS_AddElement
    <2>4. IsFiniteSet(((({} \cup {"supply"}) \cup {"rate"}) \cup {"agent"}) \cup {"printer"})
        BY <2>3, FS_AddElement
    <2>5. OtherKeys = ((({} \cup {"supply"}) \cup {"rate"}) \cup {"agent"}) \cup {"printer"}
        OBVIOUS
    <2> QED
        BY <2>4, <2>5
<1>2. IsFiniteSet(RuleKeys)
    BY <1>1, AlertAssumption, FS_Union
<1>3. IsFiniteSet(opening)
    BY <1>2, FS_Subset
<1>4. SetToSeq(opening) \in Seq(opening)
    BY <1>3, SetToSeqLists
<1> QED
    BY <1>3, <1>4, SetToSeqLists

\* What the pass writes into an alert.
LEMMA WrittenFacts ==
    ASSUME TypeOK, PassInv, job.pc = "commit", NEW i \in DOMAIN alerts
    PROVE  /\ Written(i) \in Alert /\ Written(i).key = alerts[i].key
           /\ Written(i).state = IF i \in job.resolving THEN "resolved"
                                 ELSE IF i \in job.reviving THEN "open" ELSE alerts[i].state
           /\ Written(i).flap = IF i \in job.reviving THEN alerts[i].flap + 1 ELSE alerts[i].flap
           /\ Written(i).resolvedAt \in 0..now
           /\ Written(i).state = "resolved" => Written(i).resolvedAt # 0
           /\ Written(i).notifiedAt =
                 IF i \in job.escalating THEN job.at ELSE alerts[i].notifiedAt
           /\ Written(i).notifiedAt \in 1..now
<1> DEFINE a == alerts[i]
           b == IF i \in job.resolving
                THEN [a EXCEPT !.state = "resolved", !.resolvedAt = job.at]
                ELSE IF i \in job.reviving
                THEN [a EXCEPT !.state = "open", !.resolvedAt = 0, !.flap = @ + 1]
                ELSE a
<1>1. /\ a \in Alert /\ a.resolvedAt \in 0..now /\ a.notifiedAt \in 1..now
      /\ a.state = "resolved" => a.resolvedAt # 0
      /\ job.at \in 1..now /\ now \in Nat /\ job.at \in Nat
      /\ i \in job.reviving => i \notin job.resolving
    BY AlertsTyped DEF TypeOK, PassInv
<1>2. Written(i) = IF i \in job.escalating
                   THEN [b EXCEPT !.notifiedAt = job.at, !.level = @ + 1] ELSE b
    BY DEF Written
<1> HIDE DEF a
<1>3. /\ b \in Alert /\ b.key = a.key /\ b.notifiedAt = a.notifiedAt
      /\ i \in job.resolving => b.state = "resolved"
      /\ i \in job.reviving => b.state = "open"
      /\ i \notin job.resolving \cup job.reviving => b.state = a.state
      /\ i \in job.reviving => b.flap = a.flap + 1
      /\ i \notin job.reviving => b.flap = a.flap
      /\ b.resolvedAt \in 0..now
      /\ b.state = "resolved" => b.resolvedAt # 0
    <2>1. CASE i \in job.resolving
        <3> DEFINE q == [a EXCEPT !.state = "resolved", !.resolvedAt = job.at]
        <3>1. q \in Alert
            BY <1>1 DEF Alert
        <3>2. /\ q.state = "resolved" /\ q.resolvedAt = job.at /\ q.key = a.key
              /\ q.notifiedAt = a.notifiedAt /\ q.flap = a.flap
            BY <1>1 DEF Alert
        <3>3. b = q
            BY <2>1
        <3> HIDE DEF q, b
        <3> QED
            BY <1>1, <2>1, <3>1, <3>2, <3>3
    <2>2. CASE i \in job.reviving
        <3> DEFINE q == [a EXCEPT !.state = "open", !.resolvedAt = 0, !.flap = @ + 1]
        <3>1. a.flap + 1 \in Nat
            BY <1>1 DEF Alert
        <3>2. /\ q.state = "open" /\ q.resolvedAt = 0 /\ q.key = a.key
              /\ q.notifiedAt = a.notifiedAt /\ q.flap = a.flap + 1
            BY <1>1 DEF Alert
        <3>3. b = q
            BY <1>1, <2>2
        <3>4. q \in Alert
            BY <1>1, <3>1 DEF Alert
        <3> HIDE DEF q, b
        <3> QED
            BY <1>1, <2>2, <3>2, <3>3, <3>4
    <2>3. CASE i \notin job.resolving \cup job.reviving
        BY <1>1, <2>3
    <2> QED
        BY <2>1, <2>2, <2>3
<1> HIDE DEF b
<1>4. CASE i \in job.escalating
    <2> DEFINE q == [b EXCEPT !.notifiedAt = job.at, !.level = @ + 1]
    <2>1. b.level + 1 \in Nat
        BY <1>3 DEF Alert
    <2>2. /\ q.key = b.key /\ q.state = b.state /\ q.flap = b.flap
          /\ q.resolvedAt = b.resolvedAt /\ q.notifiedAt = job.at
        BY <1>3 DEF Alert
    <2>3. Written(i) = q
        BY <1>2, <1>4
    <2>4. q \in Alert
        BY <1>1, <1>3, <2>1 DEF Alert
    <2> HIDE DEF q
    <2> QED
        BY <1>1, <1>3, <1>4, <2>2, <2>3, <2>4 DEF a
<1>5. CASE i \notin job.escalating
    <2>1. Written(i) = b
        BY <1>2, <1>5
    <2> QED
        BY <1>1, <1>3, <1>5, <2>1 DEF a
<1> QED
    BY <1>4, <1>5

LEMMA NewAlertType ==
    ASSUME NEW k \in Keys, NEW at \in Nat
    PROVE  NewAlert(k, at) \in Alert
BY DEF NewAlert, Alert

\* A key's alerts, and the one that was resolved last.
LEMMA LastResolvedFacts ==
    ASSUME TypeOK, NEW k, ResolvedAlerts(k) # {}
    PROVE  /\ LastResolved(k) \in ResolvedAlerts(k)
           /\ \A j \in ResolvedAlerts(k) :
                 alerts[j].resolvedAt <= alerts[LastResolved(k)].resolvedAt
<1> DEFINE f == [i \in ResolvedAlerts(k) |-> alerts[i].resolvedAt]
<1>1. /\ now \in Nat
      /\ \A i \in ResolvedAlerts(k) : alerts[i].resolvedAt \in Nat /\ alerts[i].resolvedAt <= now
    BY AlertsTyped DEF TypeOK, ResolvedAlerts
<1>2. f \in [ResolvedAlerts(k) -> Nat] /\ \A i \in ResolvedAlerts(k) : f[i] <= now
    BY <1>1
<1>3. \E i \in ResolvedAlerts(k) : \A j \in ResolvedAlerts(k) : f[j] <= f[i]
    <2> HIDE DEF f
    <2> QED
        BY <1>1, <1>2, GreatestMeasured
<1>4. \E i \in ResolvedAlerts(k) :
         \A j \in ResolvedAlerts(k) : alerts[j].resolvedAt <= alerts[i].resolvedAt
    BY <1>3
<1> QED
    BY <1>4 DEF LastResolved

-----------------------------------------------------------------------------
(* What the steps do.                                                      *)

\* What a pass decides.
LEMMA Evaluated ==
    ASSUME TypeOK, EvaluateAlerts
    PROVE  \E shown \in Shown :
              /\ job.pc = "idle" /\ job'.pc = "commit" /\ job'.at = now
              /\ job'.resolving = Stale(shown)
              /\ \A i \in job'.reviving :
                    /\ i \in DOMAIN alerts /\ alerts[i].state = "resolved"
                    /\ alerts[i].key \in RuleKeys /\ Live(alerts[i].key) = {}
                    /\ alerts[i].key \notin job'.opening
              /\ \A i, j \in job'.reviving : alerts[i].key = alerts[j].key => i = j
              /\ \A k \in job'.opening : k \in RuleKeys /\ Live(k) = {} /\ ~Revivable(k)
              /\ \A i \in job'.escalating :
                    i \in DOMAIN alerts /\ now - alerts[i].notifiedAt >= EscalateAfter
              /\ job' \in Jobs
              /\ lastTold' = [i \in DOMAIN alerts |->
                                 IF i \in job'.escalating THEN now ELSE lastTold[i]]
              /\ UNCHANGED <<now, rules, level, events, lastSeen, lastBeat, alerts, outbox,
                             filing>>
<1>1. PICK shown \in Shown :
        LET fired  == {k \in RuleKeys : /\ Kind(k) \in rules /\ Firing(k, shown)
                                        /\ Live(k) = {}}
            folded == {k \in fired : Revivable(k)}
            back   == {LastResolved(k) : k \in folded}
            live   == ({i \in DOMAIN alerts : alerts[i].state \in LiveStates}
                          \ Stale(shown)) \cup back
            again  == {i \in live : EscalateAfter > 0 /\
                                    now - alerts[i].notifiedAt >= EscalateAfter}
        IN  /\ job.pc = "idle"
            /\ job' = [pc |-> "commit", at |-> now, resolving |-> Stale(shown),
                       reviving |-> back, opening |-> fired \ folded,
                       escalating |-> again]
            /\ lastTold' = [i \in DOMAIN alerts |->
                               IF i \in again THEN now ELSE lastTold[i]]
            /\ UNCHANGED <<now, rules, fleetVars, alerts, outbox, filing>>
    BY DEF EvaluateAlerts
<1> DEFINE fired  == {k \in RuleKeys : /\ Kind(k) \in rules /\ Firing(k, shown)
                                       /\ Live(k) = {}}
           folded == {k \in fired : Revivable(k)}
           back   == {LastResolved(k) : k \in folded}
           live   == ({i \in DOMAIN alerts : alerts[i].state \in LiveStates}
                          \ Stale(shown)) \cup back
           again  == {i \in live : EscalateAfter > 0 /\
                                    now - alerts[i].notifiedAt >= EscalateAfter}
<1>2. /\ job.pc = "idle"
      /\ job' = [pc |-> "commit", at |-> now, resolving |-> Stale(shown),
                 reviving |-> back, opening |-> fired \ folded, escalating |-> again]
      /\ lastTold' = [i \in DOMAIN alerts |-> IF i \in again THEN now ELSE lastTold[i]]
      /\ UNCHANGED <<now, rules, fleetVars, alerts, outbox, filing>>
    BY <1>1
<1>3. /\ \A k \in fired : k \in RuleKeys /\ Live(k) = {}
      /\ \A k \in folded : k \in fired /\ Revivable(k)
      /\ fired \subseteq RuleKeys
    OBVIOUS
<1>4. Stale(shown) \subseteq DOMAIN alerts
    BY DEF Stale
<1>5. \A k \in folded : LastResolved(k) \in ResolvedAlerts(k)
    BY <1>3, LastResolvedFacts DEF Revivable
<1>6. \A k \in folded : /\ LastResolved(k) \in DOMAIN alerts
                        /\ alerts[LastResolved(k)].key = k
                        /\ alerts[LastResolved(k)].state = "resolved"
    BY <1>5 DEF ResolvedAlerts
<1> HIDE DEF fired, folded
<1>7. \A i \in back : \E k \in folded : /\ i = LastResolved(k) /\ i \in DOMAIN alerts
                                        /\ alerts[i].key = k /\ alerts[i].state = "resolved"
    BY <1>6
<1>8. back \subseteq DOMAIN alerts
    BY <1>7
<1> HIDE DEF back
<1>9. \A i \in again : i \in DOMAIN alerts /\ now - alerts[i].notifiedAt >= EscalateAfter
    BY <1>4, <1>8
<1> HIDE DEF again
<1>10. DOMAIN alerts \subseteq Nat /\ now \in Nat
    BY AlertsTyped DEF TypeOK
<1>11. job' \in Jobs
    BY <1>2, <1>3, <1>4, <1>8, <1>9, <1>10 DEF Jobs
<1>12. /\ job'.pc = "commit" /\ job'.at = now /\ job'.resolving = Stale(shown)
       /\ job'.reviving = back /\ job'.opening = fired \ folded /\ job'.escalating = again
    BY <1>2
<1>13. \A k \in fired \ folded : ~Revivable(k)
    BY DEF folded
<1>14. /\ \A i \in back : /\ i \in DOMAIN alerts /\ alerts[i].state = "resolved"
                         /\ alerts[i].key \in RuleKeys /\ Live(alerts[i].key) = {}
                         /\ alerts[i].key \notin fired \ folded
       /\ \A i, j \in back : alerts[i].key = alerts[j].key => i = j
    BY <1>3, <1>7
<1>15. /\ lastTold' = [i \in DOMAIN alerts |->
                          IF i \in job'.escalating THEN now ELSE lastTold[i]]
       /\ UNCHANGED <<now, rules, level, events, lastSeen, lastBeat, alerts, outbox, filing>>
    BY <1>2, <1>12 DEF fleetVars
<1> QED
    BY <1>2, <1>3, <1>9, <1>11, <1>12, <1>13, <1>14, <1>15

\* What the commit leaves in the table.
LEMMA Committed ==
    ASSUME TypeOK, PassInv, CommitPass
    PROVE  /\ job.pc = "commit" /\ job' = Idle
           /\ Cardinality(job.opening) \in Nat
           /\ alerts' \in Seq(Alert)
           /\ Len(alerts') = Len(alerts) + Cardinality(job.opening)
           /\ \A i \in DOMAIN alerts : alerts'[i] = Written(i)
           /\ \A i \in DOMAIN alerts' \ DOMAIN alerts :
                 \E n \in 1..Cardinality(job.opening) :
                    /\ i = Len(alerts) + n
                    /\ alerts'[i] = NewAlert(SetToSeq(job.opening)[n], job.at)
           /\ outbox' = outbox
                \cup {AlertKey("resolved", i, alerts[i].flap) : i \in job.resolving}
                \cup {AlertKey("opened", i, alerts[i].flap + 1) : i \in job.reviving}
                \cup {AlertKey("opened", Len(alerts) + n, 0) : n \in 1..Cardinality(job.opening)}
           /\ lastTold' \in Seq(Nat) /\ Len(lastTold') = Len(alerts')
           /\ \A i \in DOMAIN alerts : lastTold'[i] = lastTold[i]
           /\ \A i \in DOMAIN alerts' \ DOMAIN alerts : lastTold'[i] = job.at
           /\ UNCHANGED <<now, rules, level, events, lastSeen, lastBeat, filing>>
<1> DEFINE new   == SetToSeq(job.opening)
           N     == Cardinality(job.opening)
           old   == [i \in DOMAIN alerts |-> Written(i)]
           added == [n \in DOMAIN new |-> NewAlert(new[n], job.at)]
           told  == [n \in 1..(Len(alerts') - Len(lastTold)) |-> job.at]
<1>1. /\ job.pc = "commit" /\ job' = Idle
      /\ alerts' = old \o added
      /\ outbox' = outbox
           \cup {AlertKey("resolved", i, alerts[i].flap) : i \in job.resolving}
           \cup {AlertKey("opened", i, alerts[i].flap + 1) : i \in job.reviving}
           \cup {AlertKey("opened", Len(alerts) + n, 0) : n \in DOMAIN new}
      /\ lastTold' = lastTold \o told
      /\ UNCHANGED <<now, rules, level, events, lastSeen, lastBeat, filing>>
    BY DEF CommitPass, fleetVars
<1>2. /\ Len(alerts) \in Nat /\ DOMAIN alerts = 1..Len(alerts)
      /\ job.opening \in SUBSET RuleKeys /\ job.at \in Nat
      /\ lastTold \in Seq(Nat) /\ Len(lastTold) = Len(alerts)
    BY AlertsTyped DEF TypeOK, Jobs
<1>3. /\ N \in Nat /\ DOMAIN new = 1..N
      /\ \A n \in 1..N : new[n] \in job.opening
    BY <1>2, OpeningListed
<1> HIDE DEF new, N
<1>4. old \in Seq(Alert) /\ Len(old) = Len(alerts)
    <2>1. \A i \in 1..Len(alerts) : Written(i) \in Alert
        BY <1>1, <1>2, WrittenFacts
    <2> QED
        BY <1>2, <2>1
<1>5. added \in Seq(Alert) /\ Len(added) = N
    <2>1. \A n \in 1..N : NewAlert(new[n], job.at) \in Alert
        BY <1>2, <1>3, NewAlertType
    <2> QED
        BY <1>3, <2>1
<1>6. \A i \in DOMAIN alerts : old[i] = Written(i)
    OBVIOUS
<1>7. \A n \in 1..N : added[n] = NewAlert(new[n], job.at)
    BY <1>3
<1> HIDE DEF old, added
<1>8. /\ alerts' \in Seq(Alert) /\ Len(alerts') = Len(alerts) + N
      /\ DOMAIN alerts' = 1..Len(alerts) + N
      /\ \A i \in 1..Len(alerts) : alerts'[i] = old[i]
      /\ \A n \in 1..N : alerts'[Len(alerts) + n] = added[n]
    <2>1. /\ old \o added \in Seq(Alert) /\ Len(old \o added) = Len(old) + Len(added)
          /\ DOMAIN (old \o added) = 1..Len(old) + Len(added)
          /\ \A i \in 1..Len(old) : (old \o added)[i] = old[i]
          /\ \A n \in 1..Len(added) : (old \o added)[Len(old) + n] = added[n]
        BY <1>4, <1>5
    <2> QED
        BY <1>1, <1>4, <1>5, <2>1
<1>9. ASSUME NEW i \in DOMAIN alerts' \ DOMAIN alerts
      PROVE  \E n \in 1..N : /\ i = Len(alerts) + n
                             /\ alerts'[i] = NewAlert(new[n], job.at)
    <2>1. i - Len(alerts) \in 1..N /\ i = Len(alerts) + (i - Len(alerts))
        BY <1>2, <1>3, <1>8
    <2> QED
        BY <1>2, <1>7, <1>8, <2>1
<1>10. /\ told \in Seq(Nat) /\ Len(told) = N
       /\ \A n \in 1..N : told[n] = job.at
    BY <1>2, <1>3, <1>8
<1> HIDE DEF told
<1>11. /\ lastTold' \in Seq(Nat) /\ Len(lastTold') = Len(alerts')
       /\ \A i \in 1..Len(alerts) : lastTold'[i] = lastTold[i]
       /\ \A n \in 1..N : lastTold'[Len(alerts) + n] = told[n]
    <2>1. /\ lastTold \o told \in Seq(Nat) /\ Len(lastTold \o told) = Len(lastTold) + Len(told)
          /\ \A i \in 1..Len(lastTold) : (lastTold \o told)[i] = lastTold[i]
          /\ \A n \in 1..Len(told) : (lastTold \o told)[Len(lastTold) + n] = told[n]
        BY <1>2, <1>10
    <2> QED
        BY <1>1, <1>2, <1>8, <1>10, <2>1
<1>12. \A i \in DOMAIN alerts' \ DOMAIN alerts : lastTold'[i] = job.at
    <2> TAKE i \in DOMAIN alerts' \ DOMAIN alerts
    <2>1. i - Len(alerts) \in 1..N /\ i = Len(alerts) + (i - Len(alerts))
        BY <1>2, <1>3, <1>8
    <2> QED
        BY <1>10, <1>11, <2>1
<1> QED
    BY <1>1, <1>2, <1>3, <1>6, <1>8, <1>9, <1>11, <1>12 DEF new, N

\* What an operator makes of an alert: its state, and when it was resolved.
LEMMA Edited ==
    ASSUME TypeOK, NEW i \in DOMAIN alerts,
           Acknowledge(i) \/ AcknowledgeStale(i) \/ Resolve(i)
    PROVE  \E a \in Alert :
              /\ a.key = alerts[i].key /\ a.flap = alerts[i].flap
              /\ a.notifiedAt = alerts[i].notifiedAt /\ a.resolvedAt \in 0..now
              /\ a.state = "resolved" => a.resolvedAt # 0
              /\ Acknowledge(i) => a.state = "acknowledged"
              /\ Resolve(i) => a.state = "resolved"
              /\ alerts' = [alerts EXCEPT ![i] = a]
              /\ ~Locked(i)
<1>1. alerts[i] \in Alert /\ now \in Nat \ {0} /\ alerts[i].resolvedAt \in 0..now
      /\ (alerts[i].state = "resolved" => alerts[i].resolvedAt # 0)
    BY AlertsTyped DEF TypeOK
<1>2. CASE Acknowledge(i) \/ AcknowledgeStale(i)
    <2> DEFINE a == [alerts[i] EXCEPT !.state = "acknowledged"]
    <2>1. a \in Alert
        BY <1>1 DEF Alert
    <2>2. /\ a.key = alerts[i].key /\ a.flap = alerts[i].flap /\ a.state = "acknowledged"
          /\ a.notifiedAt = alerts[i].notifiedAt /\ a.resolvedAt = alerts[i].resolvedAt
        BY <1>1 DEF Alert
    <2>3. alerts' = [alerts EXCEPT ![i] = a] /\ ~Locked(i)
        BY <1>2 DEF Acknowledge, AcknowledgeStale
    <2>4. ~Resolve(i)
        <3>1. alerts'[i] = a
            BY <2>3
        <3>2. Resolve(i) => alerts'[i].state = "resolved"
            BY <1>1 DEF Resolve, Alert
        <3> QED
            BY <2>2, <3>1, <3>2
    <2> QED
        BY <1>1, <2>1, <2>2, <2>3, <2>4
<1>3. CASE Resolve(i)
    <2> DEFINE a == [alerts[i] EXCEPT !.state = "resolved", !.resolvedAt = now]
    <2>1. a \in Alert
        BY <1>1 DEF Alert
    <2>2. /\ a.key = alerts[i].key /\ a.flap = alerts[i].flap /\ a.state = "resolved"
          /\ a.notifiedAt = alerts[i].notifiedAt
        BY <1>1 DEF Alert
    <2>5. a.resolvedAt \in 0..now /\ a.resolvedAt # 0
        BY <1>1 DEF Alert
    <2>3. alerts' = [alerts EXCEPT ![i] = a] /\ ~Locked(i)
        BY <1>3 DEF Resolve
    <2>4. ~Acknowledge(i)
        <3>1. alerts'[i] = a
            BY <2>3
        <3>2. Acknowledge(i) => alerts'[i].state = "acknowledged"
            BY <1>1 DEF Acknowledge, Alert
        <3> QED
            BY <2>2, <3>1, <3>2
    <2> HIDE DEF a
    <2> QED
        BY <2>1, <2>2, <2>3, <2>4, <2>5
<1> QED
    BY <1>2, <1>3

\* What a reading leaves of the printer's events.
LEMMA ReconciledType ==
    ASSUME TypeOK, NEW codes \in SUBSET Codes
    PROVE  /\ Reconciled(codes) \in Seq(Event)
           /\ \A i \in DOMAIN Reconciled(codes) : Reconciled(codes)[i].ts \in 1..now
<1> DEFINE standing == {e.code : e \in {f \in Range(events) : f.open}}
           new     == codes \ standing
           kept(e) == IF ~e.open THEN e
                      ELSE IF e.code \in codes THEN [e EXCEPT !.ts = now]
                      ELSE [e EXCEPT !.open = FALSE]
           Dated   == [code : Codes, ts : 1..now, open : BOOLEAN]
           old     == [i \in DOMAIN events |-> kept(events[i])]
           added   == [i \in 1..Cardinality(new) |->
                          [code |-> SetToSeq(new)[i], ts |-> now, open |-> TRUE]]
<1>1. /\ events \in Seq(Event) /\ now \in Nat \ {0}
      /\ \A i \in DOMAIN events : events[i].ts \in 1..now
    BY DEF TypeOK
<1>2. Reconciled(codes) = old \o added
    BY DEF Reconciled
<1>3. IsFiniteSet(new) /\ new \in SUBSET Codes
    BY AlertAssumption, FS_Subset
<1>4. /\ Cardinality(new) \in Nat
      /\ \A i \in 1..Cardinality(new) : SetToSeq(new)[i] \in Codes
    <2> HIDE DEF new
    <2>1. /\ SetToSeq(new) \in Seq(new) /\ Cardinality(new) \in Nat
          /\ DOMAIN SetToSeq(new) = 1..Cardinality(new)
        BY <1>3, SetToSeqLists
    <2> QED
        BY <1>3, <2>1
<1> HIDE DEF new
<1>5. added \in Seq(Dated)
    <2>1. \A i \in 1..Cardinality(new) :
             [code |-> SetToSeq(new)[i], ts |-> now, open |-> TRUE] \in Dated
        BY <1>1, <1>4
    <2> HIDE DEF Dated
    <2> QED
        BY <1>4, <2>1
<1>6. Len(events) \in Nat /\ DOMAIN events = 1..Len(events)
      /\ \A i \in DOMAIN events : events[i] \in Event
    BY <1>1
<1>7. old \in Seq(Dated)
    <2>1. \A i \in 1..Len(events) : kept(events[i]) \in Dated
        <3> TAKE i \in 1..Len(events)
        <3>1. events[i] \in Event /\ events[i].ts \in 1..now
            BY <1>1, <1>6
        <3>2. events[i] \in Dated
            BY <3>1 DEF Event
        <3>3. now \in 1..now
            BY <1>1
        <3>4. [events[i] EXCEPT !.ts = now] \in Dated
            BY <3>2, <3>3
        <3>5. [events[i] EXCEPT !.open = FALSE] \in Dated
            BY <3>2
        <3> HIDE DEF Dated
        <3> QED
            BY <3>2, <3>4, <3>5
    <2> HIDE DEF Dated, kept
    <2> QED
        BY <1>6, <2>1
<1> HIDE DEF old, added
<1>8. Reconciled(codes) \in Seq(Dated)
    BY <1>2, <1>5, <1>7
<1>9. \A i \in DOMAIN Reconciled(codes) : Reconciled(codes)[i] \in Dated
    <2> HIDE DEF Dated
    <2> QED
        BY <1>8
<1>10. Dated \subseteq Event
    BY <1>1 DEF Event
<1>11. Reconciled(codes) \in Seq(Event)
    <2> HIDE DEF Dated
    <2> QED
        BY <1>8, <1>10
<1> QED
    BY <1>9, <1>11

-----------------------------------------------------------------------------
(* Type correctness, and what people were told.                            *)

Inv == TypeOK /\ PassInv /\ ToldInv

LEMMA InitInv == Init => Inv
<1> SUFFICES ASSUME Init PROVE Inv
    OBVIOUS
<1>1. TypeOK
    BY DEF Init, TypeOK, Idle, Jobs
<1>2. PassInv /\ ToldInv
    BY DEF Init, PassInv, ToldInv, Idle
<1> QED
    BY <1>1, <1>2 DEF Inv

\* A later clock, and everything else of the pass and the table as it was.
LEMMA PassUntouched ==
    ASSUME Inv, UNCHANGED <<alerts, job, lastTold>>, now' \in Nat, now <= now'
    PROVE  PassInv' /\ ToldInv'
<1>1. now \in Nat
    BY DEF Inv, TypeOK
<1>2. PassInv'
    BY <1>1 DEF Inv, PassInv
<1>3. ToldInv'
    BY DEF Inv, ToldInv
<1> QED
    BY <1>2, <1>3

LEMMA EvaluateInv ==
    ASSUME Inv, EvaluateAlerts
    PROVE  Inv'
<1>1. TypeOK /\ PassInv /\ ToldInv
    BY DEF Inv
<1>2. PICK shown \in Shown :
              /\ job.pc = "idle" /\ job'.pc = "commit" /\ job'.at = now
              /\ job'.resolving = Stale(shown)
              /\ \A i \in job'.reviving :
                    /\ i \in DOMAIN alerts /\ alerts[i].state = "resolved"
                    /\ alerts[i].key \in RuleKeys
              /\ \A i \in job'.escalating : i \in DOMAIN alerts
              /\ job' \in Jobs
              /\ lastTold' = [i \in DOMAIN alerts |->
                                 IF i \in job'.escalating THEN now ELSE lastTold[i]]
              /\ UNCHANGED <<now, rules, level, events, lastSeen, lastBeat, alerts, outbox,
                             filing>>
    BY <1>1, Evaluated
<1>3. now \in Nat \ {0} /\ now \in 1..now /\ now \in 0..now /\ now \in Nat
    BY <1>1 DEF TypeOK
<1>4. Stale(shown) \subseteq DOMAIN alerts /\ \A i \in Stale(shown) : alerts[i].state \in LiveStates
    BY DEF Stale
<1>5. lastTold' \in Seq(Nat) /\ Len(lastTold') = Len(alerts)
    <2>1. /\ lastTold \in Seq(Nat) /\ Len(lastTold) = Len(alerts)
          /\ DOMAIN alerts = 1..Len(alerts) /\ Len(alerts) \in Nat
        BY <1>1, AlertsTyped DEF TypeOK
    <2> QED
        BY <1>2, <1>3, <2>1
<1>6. TypeOK'
    BY <1>1, <1>2, <1>3, <1>4, <1>5 DEF TypeOK
<1>7. PassInv'
    BY <1>2, <1>3, <1>4 DEF PassInv
<1>8. ToldInv'
    <2> SUFFICES ASSUME NEW i \in DOMAIN alerts
                 PROVE  lastTold'[i] = IF i \in job'.escalating THEN job'.at
                                       ELSE alerts[i].notifiedAt
        BY <1>2 DEF ToldInv
    <2>1. lastTold[i] = alerts[i].notifiedAt
        BY <1>1, <1>2 DEF PassInv, ToldInv
    <2> QED
        BY <1>2, <2>1
<1> QED
    BY <1>6, <1>7, <1>8 DEF Inv

LEMMA IdleType == Idle \in Jobs
BY DEF Idle, Jobs

LEMMA CommitInv ==
    ASSUME Inv, CommitPass
    PROVE  Inv'
<1> DEFINE N == Cardinality(job.opening)
<1>1. TypeOK /\ PassInv /\ ToldInv
    BY DEF Inv
<1>2. /\ job.pc = "commit" /\ job' = Idle /\ N \in Nat
      /\ alerts' \in Seq(Alert) /\ Len(alerts') = Len(alerts) + N
      /\ \A i \in DOMAIN alerts : alerts'[i] = Written(i)
      /\ \A i \in DOMAIN alerts' \ DOMAIN alerts :
            \E n \in 1..N : /\ i = Len(alerts) + n
                            /\ alerts'[i] = NewAlert(SetToSeq(job.opening)[n], job.at)
      /\ lastTold' \in Seq(Nat) /\ Len(lastTold') = Len(alerts')
      /\ \A i \in DOMAIN alerts : lastTold'[i] = lastTold[i]
      /\ \A i \in DOMAIN alerts' \ DOMAIN alerts : lastTold'[i] = job.at
      /\ UNCHANGED <<now, rules, level, events, lastSeen, lastBeat, filing>>
    BY <1>1, Committed
<1>3. outbox' = outbox
        \cup {AlertKey("resolved", i, alerts[i].flap) : i \in job.resolving}
        \cup {AlertKey("opened", i, alerts[i].flap + 1) : i \in job.reviving}
        \cup {AlertKey("opened", Len(alerts) + n, 0) : n \in 1..N}
    BY <1>1, Committed
<1> HIDE DEF N
<1>4. /\ Len(alerts) \in Nat /\ DOMAIN alerts = 1..Len(alerts)
      /\ DOMAIN alerts' = 1..Len(alerts) + N
      /\ DOMAIN alerts \subseteq DOMAIN alerts'
      /\ \A i \in DOMAIN alerts : alerts[i].flap \in Nat /\ alerts[i].flap + 1 \in Nat
      /\ job.at \in 1..now /\ job.at \in Nat /\ now \in Nat
    BY <1>1, <1>2, AlertsTyped DEF PassInv, TypeOK
<1>5. \A i \in DOMAIN alerts' :
         /\ alerts'[i].resolvedAt \in 0..now /\ alerts'[i].notifiedAt \in 1..now
         /\ alerts'[i].state = "resolved" => alerts'[i].resolvedAt # 0
    <2> TAKE i \in DOMAIN alerts'
    <2>1. CASE i \in DOMAIN alerts
        <3>1. alerts'[i] = Written(i)
            BY <1>2, <2>1
        <3>2. /\ Written(i).resolvedAt \in 0..now /\ Written(i).notifiedAt \in 1..now
              /\ Written(i).state = "resolved" => Written(i).resolvedAt # 0
            BY <1>1, <1>2, <2>1, WrittenFacts
        <3> QED
            BY <3>1, <3>2
    <2>2. CASE i \notin DOMAIN alerts
        <3>1. PICK n \in 1..N : alerts'[i] = NewAlert(SetToSeq(job.opening)[n], job.at)
            BY <1>2, <2>2
        <3> QED
            BY <1>4, <3>1 DEF NewAlert
    <2> QED
        BY <2>1, <2>2
<1>6. outbox' \subseteq {"opened", "resolved"} \X (DOMAIN alerts') \X Nat
    <2> DEFINE Told(D) == {"opened", "resolved"} \X D \X Nat
    <2>1. outbox \subseteq Told(DOMAIN alerts)
        BY <1>1, Zenon DEF TypeOK
    <2>2. job.resolving \subseteq DOMAIN alerts /\ job.reviving \subseteq DOMAIN alerts
        <3>1. job.resolving \cup job.reviving \cup job.escalating \subseteq DOMAIN alerts
            BY <1>1, Zenon DEF TypeOK
        <3> QED
            BY <3>1
    <2>3. Told(DOMAIN alerts) \subseteq Told(DOMAIN alerts')
        <3>1. DOMAIN alerts \subseteq DOMAIN alerts'
            BY <1>4
        <3> QED
            BY <3>1
    <2>4. ASSUME NEW i \in job.resolving
          PROVE  AlertKey("resolved", i, alerts[i].flap) \in Told(DOMAIN alerts')
        <3>1. i \in DOMAIN alerts' /\ alerts[i].flap \in Nat
            BY <1>4, <2>2
        <3> QED
            BY <3>1 DEF AlertKey
    <2>5. ASSUME NEW i \in job.reviving
          PROVE  AlertKey("opened", i, alerts[i].flap + 1) \in Told(DOMAIN alerts')
        <3>1. i \in DOMAIN alerts' /\ alerts[i].flap + 1 \in Nat
            BY <1>4, <2>2
        <3> QED
            BY <3>1 DEF AlertKey
    <2>6. ASSUME NEW n \in 1..N
          PROVE  AlertKey("opened", Len(alerts) + n, 0) \in Told(DOMAIN alerts')
        <3>1. Len(alerts) + n \in DOMAIN alerts'
            BY <1>2, <1>4
        <3> QED
            BY <3>1 DEF AlertKey
    <2>7. outbox' \subseteq Told(DOMAIN alerts')
        <3> HIDE DEF Told
        <3> QED
            BY <1>3, <2>1, <2>3, <2>4, <2>5, <2>6
    <2> QED
        BY <2>7
<1>7. /\ job' \in Jobs /\ job'.at \in 0..now
      /\ job'.resolving \cup job'.reviving \cup job'.escalating \subseteq DOMAIN alerts'
    BY <1>2, <1>4, IdleType DEF Idle
<1>8. TypeOK'
    <2>1. /\ now' \in Nat \ {0} /\ rules' \subseteq RuleKinds /\ level' \in Levels
          /\ events' \in Seq(Event) /\ filing' \subseteq Operators
          /\ \A i \in DOMAIN events' : events'[i].ts \in 1..now'
          /\ lastSeen' \in 1..now' /\ lastBeat' \in 1..now'
        BY <1>1, <1>2 DEF TypeOK
    <2>2. UNCHANGED now
        BY <1>2
    <2> QED
        BY <1>2, <1>5, <1>6, <1>7, <2>1, <2>2, Zenon DEF TypeOK
<1>9. PassInv'
    BY <1>2 DEF PassInv, Idle
<1>10. ToldInv'
    <2> SUFFICES ASSUME NEW i \in DOMAIN alerts'
                 PROVE  lastTold'[i] = alerts'[i].notifiedAt
        BY <1>2 DEF ToldInv, Idle
    <2>1. CASE i \in DOMAIN alerts
        <3>1. Written(i).notifiedAt = IF i \in job.escalating THEN job.at
                                      ELSE alerts[i].notifiedAt
            BY <1>1, <1>2, <2>1, WrittenFacts
        <3> QED
            BY <1>1, <1>2, <2>1, <3>1 DEF ToldInv
    <2>2. CASE i \notin DOMAIN alerts
        <3>1. PICK n \in 1..N : alerts'[i] = NewAlert(SetToSeq(job.opening)[n], job.at)
            BY <1>2, <2>2
        <3> QED
            BY <1>2, <2>2, <3>1 DEF NewAlert
    <2> QED
        BY <2>1, <2>2
<1> QED
    BY <1>8, <1>9, <1>10 DEF Inv

\* A new event about an alert is one of the events there may be.
LEMMA KeyType ==
    ASSUME TypeOK, NEW kind \in {"opened", "resolved"}, NEW i \in DOMAIN alerts
    PROVE  AlertKey(kind, i, alerts[i].flap) \in {"opened", "resolved"} \X (DOMAIN alerts) \X Nat
<1>1. alerts[i].flap \in Nat
    BY AlertsTyped
<1> QED
    BY <1>1 DEF AlertKey

LEMMA EditInv ==
    ASSUME Inv, NEW i \in DOMAIN alerts,
           Acknowledge(i) \/ AcknowledgeStale(i) \/ Resolve(i)
    PROVE  Inv'
<1>1. TypeOK /\ PassInv /\ ToldInv
    BY DEF Inv
<1>2. PICK a \in Alert :
         /\ a.key = alerts[i].key /\ a.flap = alerts[i].flap
         /\ a.notifiedAt = alerts[i].notifiedAt /\ a.resolvedAt \in 0..now
         /\ a.state = "resolved" => a.resolvedAt # 0
         /\ alerts' = [alerts EXCEPT ![i] = a]
         /\ ~Locked(i)
    BY <1>1, Edited
<1>3. /\ alerts' \in Seq(Alert) /\ Len(alerts') = Len(alerts) /\ DOMAIN alerts' = DOMAIN alerts
      /\ alerts'[i] = a
      /\ \A j \in DOMAIN alerts : j # i => alerts'[j] = alerts[j]
    BY <1>1, <1>2, AlertReplaced
<1>4. UNCHANGED <<now, rules, level, events, lastSeen, lastBeat, filing, job, lastTold>>
    BY DEF Acknowledge, AcknowledgeStale, Resolve, fleetVars
<1>5. outbox' = outbox \/ outbox' = outbox \cup {AlertKey("resolved", i, alerts[i].flap)}
    BY DEF Acknowledge, AcknowledgeStale, Resolve
<1>6. \A j \in DOMAIN alerts :
         /\ alerts'[j].resolvedAt \in 0..now /\ alerts'[j].notifiedAt \in 1..now
         /\ alerts'[j].state = "resolved" => alerts'[j].resolvedAt # 0
    <2>1. \A j \in DOMAIN alerts :
             /\ alerts[j].resolvedAt \in 0..now /\ alerts[j].notifiedAt \in 1..now
             /\ alerts[j].state = "resolved" => alerts[j].resolvedAt # 0
        BY <1>1 DEF TypeOK
    <2> QED
        BY <1>2, <1>3, <2>1
<1>7. TypeOK'
    <2>1. outbox' \subseteq {"opened", "resolved"} \X (DOMAIN alerts) \X Nat
        <3>1. outbox \subseteq {"opened", "resolved"} \X (DOMAIN alerts) \X Nat
            BY <1>1, Zenon DEF TypeOK
        <3>2. AlertKey("resolved", i, alerts[i].flap)
                 \in {"opened", "resolved"} \X (DOMAIN alerts) \X Nat
            BY <1>1, KeyType
        <3> QED
            BY <1>5, <3>1, <3>2
    <2> QED
        BY <1>1, <1>3, <1>4, <1>6, <2>1 DEF TypeOK
<1>8. i \notin job.resolving /\ i \notin job.reviving
    BY <1>2 DEF Locked
<1>9. job.resolving \cup job.reviving \subseteq DOMAIN alerts
    BY <1>1 DEF TypeOK
<1>10. PassInv'
    BY <1>1, <1>3, <1>4, <1>8, <1>9 DEF PassInv
<1>11. ToldInv'
    BY <1>1, <1>2, <1>3, <1>4 DEF ToldInv
<1> QED
    BY <1>7, <1>10, <1>11 DEF Inv

\* What a person's report adds to the table.
LEMMA Filed ==
    ASSUME TypeOK, NEW o, FileIssue(o)
    PROVE  /\ NewAlert("manual", now) \in Alert
           /\ alerts' \in Seq(Alert) /\ Len(alerts') = Len(alerts) + 1
           /\ DOMAIN alerts' = 1..Len(alerts) + 1 /\ DOMAIN alerts = 1..Len(alerts)
           /\ Len(alerts) \in Nat
           /\ \A i \in DOMAIN alerts : alerts'[i] = alerts[i]
           /\ alerts'[Len(alerts) + 1] = NewAlert("manual", now)
<1>1. now \in Nat /\ alerts \in Seq(Alert)
    BY DEF TypeOK
<1>2. NewAlert("manual", now) \in Alert
    BY <1>1, NewAlertType
<1>3. alerts' = Append(alerts, NewAlert("manual", now))
    BY DEF FileIssue
<1> QED
    BY <1>1, <1>2, <1>3

LEMMA FileInv ==
    ASSUME Inv, NEW o \in Operators, FileIssue(o)
    PROVE  Inv'
<1>1. TypeOK /\ PassInv /\ ToldInv
    BY DEF Inv
<1>2. /\ alerts' \in Seq(Alert) /\ Len(alerts') = Len(alerts) + 1
      /\ DOMAIN alerts' = 1..Len(alerts) + 1 /\ DOMAIN alerts = 1..Len(alerts)
      /\ Len(alerts) \in Nat
      /\ \A i \in DOMAIN alerts : alerts'[i] = alerts[i]
      /\ alerts'[Len(alerts) + 1] = NewAlert("manual", now)
    BY <1>1, Filed
<1>3. /\ lastTold' = Append(lastTold, now)
      /\ outbox' = outbox \cup {AlertKey("opened", Len(alerts) + 1, 0)}
      /\ filing' = filing \ {o}
      /\ UNCHANGED <<now, rules, level, events, lastSeen, lastBeat, job>>
    BY DEF FileIssue, fleetVars
<1>4. /\ lastTold \in Seq(Nat) /\ Len(lastTold) = Len(alerts) /\ now \in Nat \ {0} /\ now \in 1..now
    BY <1>1 DEF TypeOK
<1>5. /\ lastTold' \in Seq(Nat) /\ Len(lastTold') = Len(alerts')
      /\ \A i \in DOMAIN alerts : lastTold'[i] = lastTold[i]
      /\ lastTold'[Len(alerts) + 1] = now
    BY <1>2, <1>3, <1>4
<1>6. \A i \in DOMAIN alerts' :
         /\ alerts'[i].resolvedAt \in 0..now /\ alerts'[i].notifiedAt \in 1..now
         /\ alerts'[i].state = "resolved" => alerts'[i].resolvedAt # 0
    <2> TAKE i \in DOMAIN alerts'
    <2>1. CASE i \in DOMAIN alerts
        BY <1>1, <1>2, <2>1 DEF TypeOK
    <2>2. CASE i = Len(alerts) + 1
        BY <1>2, <1>4, <2>2 DEF NewAlert
    <2> QED
        BY <1>2, <2>1, <2>2
<1>7. outbox' \subseteq {"opened", "resolved"} \X (DOMAIN alerts') \X Nat
    <2> DEFINE Told(D) == {"opened", "resolved"} \X D \X Nat
    <2>1. outbox \subseteq Told(DOMAIN alerts)
        BY <1>1, Zenon DEF TypeOK
    <2>2. Told(DOMAIN alerts) \subseteq Told(DOMAIN alerts')
        <3>1. DOMAIN alerts \subseteq DOMAIN alerts'
            BY <1>2
        <3> QED
            BY <3>1
    <2>3. AlertKey("opened", Len(alerts) + 1, 0) \in Told(DOMAIN alerts')
        <3>1. Len(alerts) + 1 \in DOMAIN alerts'
            BY <1>2
        <3> QED
            BY <3>1 DEF AlertKey
    <2>4. outbox' \subseteq Told(DOMAIN alerts')
        <3> HIDE DEF Told
        <3> QED
            BY <1>3, <2>1, <2>2, <2>3
    <2> QED
        BY <2>4
<1>8. job.resolving \cup job.reviving \cup job.escalating \subseteq DOMAIN alerts
    BY <1>1, Zenon DEF TypeOK
<1>9. DOMAIN alerts \subseteq DOMAIN alerts' /\ Len(alerts) + 1 \notin DOMAIN alerts
    BY <1>2
<1>10. TypeOK'
    <2>1. /\ now' \in Nat \ {0} /\ rules' \subseteq RuleKinds /\ level' \in Levels
          /\ events' \in Seq(Event) /\ filing' \subseteq Operators
          /\ \A i \in DOMAIN events' : events'[i].ts \in 1..now'
          /\ lastSeen' \in 1..now' /\ lastBeat' \in 1..now'
          /\ job' \in Jobs /\ job'.at \in 0..now'
        BY <1>1, <1>3 DEF TypeOK
    <2>2. job'.resolving \cup job'.reviving \cup job'.escalating \subseteq DOMAIN alerts'
        <3>1. job' = job
            BY <1>3
        <3> QED
            BY <1>8, <1>9, <3>1
    <2>3. now' = now
        BY <1>3
    <2> QED
        BY <1>2, <1>5, <1>6, <1>7, <2>1, <2>2, <2>3, Zenon DEF TypeOK
<1>11. PassInv'
    BY <1>1, <1>2, <1>3, <1>8 DEF PassInv
<1>12. ToldInv'
    <2> SUFFICES ASSUME NEW i \in DOMAIN alerts'
                 PROVE  lastTold'[i] = IF i \in job.escalating THEN job.at
                                       ELSE alerts'[i].notifiedAt
        BY <1>3 DEF ToldInv
    <2>1. CASE i \in DOMAIN alerts
        BY <1>1, <1>2, <1>5, <2>1 DEF ToldInv
    <2>2. CASE i = Len(alerts) + 1
        BY <1>2, <1>5, <1>8, <1>9, <2>2 DEF NewAlert
    <2> QED
        BY <1>2, <2>1, <2>2
<1> QED
    BY <1>10, <1>11, <1>12 DEF Inv

\* A reading changes neither the table nor the pass.
LEMMA ReadingInv ==
    ASSUME Inv, NEW l \in Levels, NEW codes \in SUBSET Codes, ApplyReading(l, codes)
    PROVE  Inv'
<1>1. TypeOK /\ now \in Nat /\ now \in 1..now
    BY DEF Inv, TypeOK
<1>2. /\ events' = Reconciled(codes) /\ level' = l /\ lastSeen' = now /\ lastBeat' = now
      /\ UNCHANGED <<now, rules, alerts, outbox, filing, job, lastTold>>
    BY DEF ApplyReading
<1>3. /\ events' \in Seq(Event)
      /\ \A i \in DOMAIN events' : events'[i].ts \in 1..now'
    BY <1>1, <1>2, ReconciledType
<1>4. TypeOK'
    BY <1>1, <1>2, <1>3 DEF TypeOK
<1>5. PassInv' /\ ToldInv'
    BY <1>1, <1>2, PassUntouched
<1> QED
    BY <1>4, <1>5 DEF Inv

\* A heartbeat, a look for a live issue, an edit of a rule, and time.
LEMMA OtherInv ==
    ASSUME Inv,
           \/ Heartbeat \/ Tick \/ UNCHANGED vars
           \/ \E o \in Operators : CheckIssue(o)
           \/ \E kind \in RuleKinds : ToggleRule(kind)
    PROVE  Inv'
<1>1. TypeOK /\ now \in Nat \ {0} /\ now \in 1..now
    BY DEF Inv, TypeOK
<1>2. /\ UNCHANGED <<level, events, lastSeen, alerts, outbox, job, lastTold>>
      /\ now' = now \/ now' = now + 1
      /\ lastBeat' = lastBeat \/ lastBeat' = now
      /\ rules' \subseteq RuleKinds
      /\ filing' \subseteq Operators
    BY <1>1 DEF TypeOK, Heartbeat, Tick, vars, fleetVars, CheckIssue, ToggleRule
<1>3. PassInv' /\ ToldInv'
    BY <1>1, <1>2, PassUntouched
<1>4. TypeOK'
    <2>1. now' \in Nat \ {0} /\ 1..now \subseteq 1..now' /\ 0..now \subseteq 0..now'
        BY <1>1, <1>2
    <2>2. lastSeen' \in 1..now' /\ lastBeat' \in 1..now' /\ job'.at \in 0..now'
          /\ \A i \in DOMAIN events' : events'[i].ts \in 1..now'
        BY <1>1, <1>2, <2>1 DEF TypeOK
    <2>3. \A i \in DOMAIN alerts' :
             /\ alerts'[i].resolvedAt \in 0..now' /\ alerts'[i].notifiedAt \in 1..now'
             /\ alerts'[i].state = "resolved" => alerts'[i].resolvedAt # 0
        BY <1>1, <1>2, <2>1 DEF TypeOK
    <2> QED
        BY <1>1, <1>2, <2>1, <2>2, <2>3 DEF TypeOK
<1> QED
    BY <1>3, <1>4 DEF Inv

LEMMA FailInv ==
    ASSUME Inv, PassFails
    PROVE  Inv'
<1>1. TypeOK
    BY DEF Inv
<1>2. /\ job' = Idle /\ lastTold' = [i \in DOMAIN alerts |-> alerts[i].notifiedAt]
      /\ UNCHANGED <<now, rules, level, events, lastSeen, lastBeat, alerts, outbox, filing>>
    BY DEF PassFails, fleetVars
<1>3. lastTold' \in Seq(Nat) /\ Len(lastTold') = Len(alerts)
    BY <1>1, <1>2, AlertsTyped
<1>4. TypeOK'
    BY <1>1, <1>2, <1>3, IdleType DEF TypeOK, Idle
<1>5. PassInv' /\ ToldInv'
    BY <1>2 DEF PassInv, ToldInv, Idle
<1> QED
    BY <1>4, <1>5 DEF Inv

LEMMA NextInv ==
    ASSUME Inv, [Next]_vars
    PROVE  Inv'
<1>1. ASSUME NEW l \in Levels, NEW codes \in SUBSET Codes, ApplyReading(l, codes)
      PROVE  Inv'
    BY <1>1, ReadingInv
<1>2. ASSUME NEW i \in DOMAIN alerts, Acknowledge(i) \/ AcknowledgeStale(i) \/ Resolve(i)
      PROVE  Inv'
    BY <1>2, EditInv
<1>3. ASSUME NEW o \in Operators, FileIssue(o)
      PROVE  Inv'
    BY <1>3, FileInv
<1> QED
    BY <1>1, <1>2, <1>3, EvaluateInv, CommitInv, FailInv, OtherInv
       DEF Next, AlertNext, StaleNext, AgentNext, OperatorNext

\* Every variable has its type, and what people were told is what the alerts
\* say, or what the pass under way is going to write, with operators acting on
\* old pages too.
THEOREM PassInvariant == Spec => []Inv
<1>1. Init => Inv
    BY InitInv
<1>2. Inv /\ [Next]_vars => Inv'
    BY NextInv
<1> QED
    BY <1>1, <1>2, PTL DEF Spec

\* The type invariant of the alerts, the events, the printer's row and the pass
\* (central/worker/jobs.py, central/services.py).
THEOREM TypeCorrect == Spec => []TypeOK
<1>1. Inv => TypeOK
    BY DEF Inv
<1> QED
    BY <1>1, PassInvariant, PTL

-----------------------------------------------------------------------------
(* What a pass may decide.                                                 *)

\* A pass that begins to commit is one that has just read.
LEMMA OnlyEvaluates ==
    ASSUME Inv, [Next]_vars, job.pc = "idle", job'.pc = "commit"
    PROVE  EvaluateAlerts
<1>1. job' # job /\ job' # Idle
    BY DEF Idle
<1> QED
    BY <1>1 DEF Next, AlertNext, StaleNext, AgentNext, OperatorNext, Tick, Heartbeat, ApplyReading,
                CommitPass, PassFails, Acknowledge, AcknowledgeStale, Resolve, CheckIssue,
                FileIssue, ToggleRule, vars

\* What was resolved within the cooldown is folded, not opened again.
LEMMA OpenedApart ==
    ASSUME TypeOK, NEW k \in RuleKeys, ~Revivable(k), CooldownOf(k) > 0,
           NEW i \in ResolvedAlerts(k)
    PROVE  alerts[i].resolvedAt < now - CooldownOf(k)
<1>1. CooldownOf(k) \in Nat
    BY AlertAssumption DEF CooldownOf
<1>2. /\ LastResolved(k) \in ResolvedAlerts(k)
      /\ alerts[i].resolvedAt <= alerts[LastResolved(k)].resolvedAt
    BY LastResolvedFacts
<1>3. ~(alerts[LastResolved(k)].resolvedAt >= now - CooldownOf(k))
    BY DEF Revivable
<1>4. /\ alerts[i].resolvedAt \in Nat /\ alerts[LastResolved(k)].resolvedAt \in Nat
      /\ now \in Nat
    BY <1>2, AlertsTyped DEF ResolvedAlerts, TypeOK
<1> QED
    BY <1>1, <1>2, <1>3, <1>4

\* A condition that comes back within the cooldown is the same incident, and an
\* alert is not notified about again before the escalation window is over,
\* through flaps, acknowledgements, operators' edits and failed passes
\* (_revive_flapping_alert, _escalate_alerts).
THEOREM PeopleToldOnce == Spec => Paced
<1>1. Inv /\ [Next]_vars =>
         [job.pc = "idle" /\ job'.pc = "commit" =>
             \A k \in job'.opening : CooldownOf(k) > 0 =>
                 \A i \in ResolvedAlerts(k) : alerts[i].resolvedAt < now - CooldownOf(k)]_vars
    <2> SUFFICES ASSUME Inv, [Next]_vars, job.pc = "idle", job'.pc = "commit",
                        NEW k \in job'.opening, CooldownOf(k) > 0,
                        NEW i \in ResolvedAlerts(k)
                 PROVE  alerts[i].resolvedAt < now - CooldownOf(k)
        OBVIOUS
    <2>1. TypeOK /\ EvaluateAlerts
        BY OnlyEvaluates DEF Inv
    <2>2. k \in RuleKeys /\ ~Revivable(k)
        BY <2>1, Evaluated
    <2> QED
        BY <2>1, <2>2, OpenedApart
<1>2. Inv /\ [Next]_vars =>
         [job.pc = "idle" /\ job'.pc = "commit" =>
             \A i \in job'.escalating : now - lastTold[i] >= EscalateAfter]_vars
    <2> SUFFICES ASSUME Inv, [Next]_vars, job.pc = "idle", job'.pc = "commit",
                        NEW i \in job'.escalating
                 PROVE  now - lastTold[i] >= EscalateAfter
        OBVIOUS
    <2>1. TypeOK /\ PassInv /\ ToldInv /\ EvaluateAlerts
        BY OnlyEvaluates DEF Inv
    <2>2. i \in DOMAIN alerts /\ now - alerts[i].notifiedAt >= EscalateAfter
        BY <2>1, Evaluated
    <2>3. lastTold[i] = alerts[i].notifiedAt
        BY <2>1, <2>2 DEF PassInv, ToldInv
    <2> QED
        BY <2>2, <2>3
<1> QED
    BY <1>1, <1>2, PassInvariant, PTL DEF Spec, Paced, FoldedWithinCooldown, EscalationsSpaced

\* Under the cap, every standing error code is shown.
LEMMA AllShown ==
    ASSUME TypeOK, NEW shown \in Shown, Cardinality(Unresolved) <= MaxErrorAlerts
    PROVE  shown = Unresolved
<1>1. Unresolved \subseteq Codes
    <2>1. \A i \in DOMAIN events : events[i].code \in Codes
        <3>1. \A i \in DOMAIN events : events[i] \in Event
            BY DEF TypeOK
        <3> QED
            BY <3>1 DEF Event
    <2> QED
        BY <2>1 DEF Unresolved, Range
<1>2. IsFiniteSet(Unresolved) /\ Cardinality(Unresolved) \in Nat
    BY <1>1, AlertAssumption, FS_Subset, FS_CardinalityType
<1>3. shown \in SUBSET Unresolved /\ Cardinality(shown) = Cardinality(Unresolved)
    <2>1. shown \in {s \in SUBSET Unresolved :
                        Cardinality(s) = IF Cardinality(Unresolved) < MaxErrorAlerts
                                         THEN Cardinality(Unresolved) ELSE MaxErrorAlerts}
        BY DEF Shown, kSubset
    <2>2. MaxErrorAlerts \in Nat
        BY AlertAssumption
    <2> QED
        BY <1>2, <2>1, <2>2
<1> QED
    BY <1>2, <1>3, FS_Subset

\* The condition behind a live alert still holds: its key is active.
LEMMA WrongIsActive ==
    ASSUME NEW k \in Keys, k # "manual", NEW shown, StillWrong(k), Live(k) # {},
           k \in Codes => shown = Unresolved
    PROVE  Active(k, shown)
<1>1. Codes \cap (OtherKeys \cup {"manual"}) = {}
    BY AlertAssumption
<1>2. CASE k = "supply"
    <2>1. "supply" \in rules /\ level \in {"low", "band"}
        BY <1>2 DEF StillWrong
    <2>2. Kind(k) = "supply"
        BY <1>1, <1>2 DEF Kind
    <2>3. (Firing(k, shown) <=> level = "low") /\ (Holding(k) <=> level = "band")
        BY <1>2 DEF Firing, Holding
    <2> QED
        BY <2>1, <2>2, <2>3 DEF Active
<1>3. CASE k = "rate"
    <2>1. "rate" \in rules /\ Occurrences > RateFloor
        BY <1>3 DEF StillWrong
    <2>2. Kind(k) = "rate"
        BY <1>1, <1>3 DEF Kind
    <2>3. Holding(k) <=> Occurrences > RateFloor
        BY <1>3 DEF Holding
    <2> QED
        BY <2>1, <2>2, <2>3 DEF Active
<1>4. CASE k = "agent"
    <2>1. "agent" \in rules /\ now - lastBeat >= AgentLimit
        BY <1>4 DEF StillWrong
    <2>2. Kind(k) = "agent"
        BY <1>1, <1>4 DEF Kind
    <2>3. Firing(k, shown) <=> now - lastBeat >= AgentLimit
        BY <1>4 DEF Firing
    <2> QED
        BY <2>1, <2>2, <2>3 DEF Active
<1>5. CASE k = "printer"
    <2>1. "printer" \in rules /\ Covered /\ now - lastSeen >= PrinterLimit
        BY <1>5 DEF StillWrong
    <2>2. Kind(k) = "printer"
        BY <1>1, <1>5 DEF Kind
    <2>3. Firing(k, shown) <=> Covered /\ now - lastSeen >= PrinterLimit
        BY <1>5 DEF Firing
    <2> QED
        BY <2>1, <2>2, <2>3 DEF Active
<1>6. CASE k \in Codes
    <2>1. k \notin {"manual", "supply", "rate", "agent", "printer"}
        BY <1>1, <1>6
    <2>2. "error" \in rules /\ k \in Unresolved
        BY <2>1 DEF StillWrong
    <2>3. Kind(k) = "error"
        BY <1>6 DEF Kind
    <2>4. Firing(k, shown) <=> k \in shown
        BY <2>1 DEF Firing
    <2> QED
        BY <1>6, <2>2, <2>3, <2>4 DEF Active
<1> QED
    BY <1>2, <1>3, <1>4, <1>5, <1>6

\* A pass resolves no alert whose condition still holds, however often the
\* condition flapped and whoever edited the alert, as long as no more error
\* codes stand than the cap lets through (_resolve_stale and the keys the rules
\* keep active).
THEOREM NothingClosedWhileWrong == Spec => NotResolvedWhileWrong
<1>1. Inv /\ [Next]_vars =>
         [job.pc = "idle" /\ job'.pc = "commit" =>
             \A i \in job'.resolving :
                 /\ alerts[i].key \notin Codes => ~StillWrong(alerts[i].key)
                 /\ Cardinality(Unresolved) <= MaxErrorAlerts =>
                       ~StillWrong(alerts[i].key)]_vars
    <2> SUFFICES ASSUME Inv, [Next]_vars, job.pc = "idle", job'.pc = "commit",
                        NEW i \in job'.resolving,
                        \/ alerts[i].key \notin Codes
                        \/ Cardinality(Unresolved) <= MaxErrorAlerts,
                        StillWrong(alerts[i].key)
                 PROVE  FALSE
        BY Zenon
    <2>1. TypeOK /\ EvaluateAlerts
        BY OnlyEvaluates DEF Inv
    <2>2. PICK shown \in Shown : job'.resolving = Stale(shown)
        BY <2>1, Evaluated
    <2>3. /\ i \in DOMAIN alerts /\ alerts[i].state \in LiveStates /\ alerts[i].key # "manual"
          /\ ~Active(alerts[i].key, shown)
        BY <2>2 DEF Stale
    <2>4. alerts[i].key \in Keys
        BY <2>1, <2>3, AlertsTyped
    <2>5. Live(alerts[i].key) # {}
        BY <2>3 DEF Live
    <2>6. alerts[i].key \in Codes => shown = Unresolved
        BY <2>1, AllShown
    <2> QED
        BY <2>3, <2>4, <2>5, <2>6, WrongIsActive
<1> QED
    BY <1>1, PassInvariant, PTL DEF Spec, NotResolvedWhileWrong

-----------------------------------------------------------------------------
(* One live alert, and what subscribers hear of it.                        *)

\* The same invariants, an alert at a time.
LEMMA StoryRead ==
    ASSUME TypeOK
    PROVE  /\ OneIncident <=>
                 \A i, j \in DOMAIN alerts :
                    (/\ alerts[i].key = alerts[j].key /\ alerts[i].key \in RuleKeys
                     /\ alerts[i].state # "resolved" /\ alerts[j].state # "resolved") => i = j
           /\ SubscribersAgree <=>
                 \A i \in DOMAIN alerts :
                    /\ AlertKey("opened", i, alerts[i].flap) \in outbox
                    /\ AlertKey("resolved", i, alerts[i].flap) \in outbox
                          <=> alerts[i].state = "resolved"
           /\ \A k : Live(k) = {} <=>
                 \A i \in DOMAIN alerts : alerts[i].key = k => alerts[i].state = "resolved"
<1>1. \A i \in DOMAIN alerts : alerts[i].state \in LiveStates <=> alerts[i].state # "resolved"
    BY AlertsTyped
<1> QED
    BY <1>1 DEF OneIncident, SubscribersAgree, Live

LEMMA KeyParts ==
    \A k1, k2, i1, i2, f1, f2 :
        AlertKey(k1, i1, f1) = AlertKey(k2, i2, f2) <=> k1 = k2 /\ i1 = i2 /\ f1 = f2
BY DEF AlertKey

LEMMA EvaluateStory ==
    ASSUME Inv, StoryInv, EvaluateAlerts
    PROVE  StoryInv'
<1>1. TypeOK
    BY DEF Inv
<1>2. /\ UNCHANGED <<alerts, outbox>>
      /\ \A i \in job'.reviving :
            Live(alerts[i].key) = {} /\ alerts[i].key \notin job'.opening
      /\ \A i, j \in job'.reviving : alerts[i].key = alerts[j].key => i = j
      /\ \A k \in job'.opening : Live(k) = {}
    BY <1>1, Evaluated
<1>3. OneIncident' /\ SubscribersAgree' /\ FlapsInv'
    BY <1>2 DEF StoryInv, OneIncident, SubscribersAgree, FlapsInv
<1>4. \A k : Live(k)' = Live(k)
    BY <1>2 DEF Live
<1>5. DecidedInv'
    BY <1>2, <1>4 DEF DecidedInv
<1> QED
    BY <1>3, <1>5 DEF StoryInv

\* Neither the table nor the events changed, and the pass at most gave up.
LEMMA UntouchedStory ==
    ASSUME StoryInv, UNCHANGED <<alerts, outbox>>, job' = job \/ job' = Idle
    PROVE  StoryInv'
<1>1. OneIncident' /\ SubscribersAgree' /\ FlapsInv'
    BY DEF StoryInv, OneIncident, SubscribersAgree, FlapsInv
<1>2. \A k : Live(k)' = Live(k)
    BY DEF Live
<1>3. DecidedInv'
    BY <1>2 DEF StoryInv, DecidedInv, Idle
<1> QED
    BY <1>1, <1>3 DEF StoryInv

\* An operator's edit of an alert that is live, or its resolution.
LEMMA EditStory ==
    ASSUME Inv, StoryInv, NEW i \in DOMAIN alerts, Acknowledge(i) \/ Resolve(i)
    PROVE  StoryInv'
<1>1. TypeOK /\ TypeOK'
    BY EditInv DEF Inv
<1>2. PICK a \in Alert :
         /\ a.key = alerts[i].key /\ a.flap = alerts[i].flap
         /\ Acknowledge(i) => a.state = "acknowledged"
         /\ Resolve(i) => a.state = "resolved"
         /\ alerts' = [alerts EXCEPT ![i] = a]
         /\ ~Locked(i)
    BY <1>1, Edited
<1>3. /\ DOMAIN alerts' = DOMAIN alerts
      /\ alerts'[i] = a
      /\ \A j \in DOMAIN alerts : j # i => alerts'[j] = alerts[j]
    BY <1>1, <1>2, AlertReplaced
<1>4. job' = job
    BY DEF Acknowledge, Resolve
<1>5. i \notin job.reviving
    BY <1>2 DEF Locked
<1>6. Acknowledge(i) => alerts[i].state # "resolved"
    BY DEF Acknowledge
<1>7. \A j \in DOMAIN alerts : /\ alerts'[j].key = alerts[j].key /\ alerts'[j].flap = alerts[j].flap
                               /\ alerts[j].state = "resolved" => alerts'[j].state = "resolved"
    BY <1>2, <1>3, <1>6
<1>8. OneIncident'
    <2>1. \A j, l \in DOMAIN alerts :
             (/\ alerts[j].key = alerts[l].key /\ alerts[j].key \in RuleKeys
              /\ alerts[j].state # "resolved" /\ alerts[l].state # "resolved") => j = l
        BY <1>1, StoryRead DEF StoryInv
    <2>2. \A j, l \in DOMAIN alerts' :
             (/\ alerts'[j].key = alerts'[l].key /\ alerts'[j].key \in RuleKeys
              /\ alerts'[j].state # "resolved" /\ alerts'[l].state # "resolved") => j = l
        BY <1>3, <1>7, <2>1
    <2> QED
        BY <2>2 DEF OneIncident
<1>9. /\ Acknowledge(i) => outbox' = outbox
      /\ Resolve(i) => outbox' = outbox \cup {AlertKey("resolved", i, alerts[i].flap)}
    BY DEF Acknowledge, Resolve
<1>10. SubscribersAgree'
    <2>1. \A j \in DOMAIN alerts :
             /\ AlertKey("opened", j, alerts[j].flap) \in outbox
             /\ AlertKey("resolved", j, alerts[j].flap) \in outbox <=> alerts[j].state = "resolved"
        BY <1>1, StoryRead DEF StoryInv
    <2>2. ASSUME NEW j \in DOMAIN alerts
          PROVE  /\ AlertKey("opened", j, alerts'[j].flap) \in outbox'
                 /\ AlertKey("resolved", j, alerts'[j].flap) \in outbox'
                       <=> alerts'[j].state = "resolved"
        <3>1. CASE j = i
            BY <1>2, <1>3, <1>6, <1>7, <1>9, <2>1, <3>1
        <3>2. CASE j # i
            <4>1. AlertKey("resolved", j, alerts[j].flap) # AlertKey("resolved", i, alerts[i].flap)
                BY <3>2, KeyParts
            <4> QED
                BY <1>3, <1>9, <2>1, <3>2, <4>1
        <3> QED
            BY <3>1, <3>2
    <2> QED
        BY <1>3, <2>2 DEF SubscribersAgree
<1>11. FlapsInv'
    <2> SUFFICES ASSUME NEW j \in DOMAIN alerts, NEW kind \in {"opened", "resolved"},
                        NEW flap \in Nat, AlertKey(kind, j, flap) \in outbox'
                 PROVE  flap <= alerts'[j].flap
        BY <1>3 DEF FlapsInv
    <2>1. CASE AlertKey(kind, j, flap) \in outbox
        BY <1>7, <2>1 DEF StoryInv, FlapsInv
    <2>2. CASE AlertKey(kind, j, flap) = AlertKey("resolved", i, alerts[i].flap)
        <3>1. j = i /\ flap = alerts[i].flap
            BY <2>2, KeyParts
        <3> QED
            BY <1>7, <3>1
    <2> QED
        BY <1>9, <2>1, <2>2
<1>12. \A k : Live(k) = {} => Live(k)' = {}
    <2>1. \A j \in DOMAIN alerts : alerts[j].state \notin LiveStates => alerts[j].state = "resolved"
        BY <1>1, AlertsTyped
    <2> QED
        BY <1>3, <1>7, <2>1 DEF Live
<1>13. job.reviving \subseteq DOMAIN alerts
    BY <1>1 DEF TypeOK
<1>14. DecidedInv'
    BY <1>4, <1>7, <1>12, <1>13 DEF StoryInv, DecidedInv
<1> QED
    BY <1>8, <1>10, <1>11, <1>14 DEF StoryInv

\* A person's report is no rule's alert.
LEMMA FileStory ==
    ASSUME Inv, StoryInv, NEW o \in Operators, FileIssue(o)
    PROVE  StoryInv'
<1>1. TypeOK
    BY DEF Inv
<1> DEFINE new == Len(alerts) + 1
<1>2. /\ DOMAIN alerts' = DOMAIN alerts \cup {new} /\ new \notin DOMAIN alerts
      /\ \A i \in DOMAIN alerts : alerts'[i] = alerts[i]
      /\ alerts'[new] = NewAlert("manual", now)
    <2>1. /\ DOMAIN alerts' = 1..Len(alerts) + 1 /\ DOMAIN alerts = 1..Len(alerts)
          /\ Len(alerts) \in Nat
          /\ \A i \in DOMAIN alerts : alerts'[i] = alerts[i]
          /\ alerts'[new] = NewAlert("manual", now)
        BY <1>1, Filed, Zenon
    <2>2. 1..Len(alerts) + 1 = (1..Len(alerts)) \cup {Len(alerts) + 1}
        BY <2>1
    <2> QED
        BY <2>1, <2>2
<1>3. /\ outbox' = outbox \cup {AlertKey("opened", new, 0)}
      /\ job' = job
    BY DEF FileIssue
<1> HIDE DEF new
<1>4. alerts'[new].key = "manual" /\ alerts'[new].flap = 0 /\ alerts'[new].state = "open"
    BY <1>2 DEF NewAlert
<1>5. "manual" \notin RuleKeys
    BY AlertAssumption
<1>6. \A kind, flap : AlertKey(kind, new, flap) \notin outbox
    <2>1. outbox \subseteq {"opened", "resolved"} \X (DOMAIN alerts) \X Nat
        BY <1>1, Zenon DEF TypeOK
    <2> QED
        BY <1>2, <2>1 DEF AlertKey
<1>7. OneIncident'
    <2>1. ASSUME NEW i \in DOMAIN alerts', NEW j \in DOMAIN alerts',
                 alerts'[i].key = alerts'[j].key, alerts'[i].key \in RuleKeys,
                 "resolved" \notin {alerts'[i].state, alerts'[j].state}
          PROVE  i = j
        <3>1. i # new /\ j # new
            BY <1>4, <1>5, <2>1
        <3> QED
            BY <1>2, <2>1, <3>1 DEF StoryInv, OneIncident
    <2> QED
        BY <2>1 DEF OneIncident
<1>8. SubscribersAgree'
    <2>1. ASSUME NEW i \in DOMAIN alerts
          PROVE  /\ AlertKey("opened", i, alerts'[i].flap) \in outbox'
                 /\ AlertKey("resolved", i, alerts'[i].flap) \in outbox'
                       <=> alerts'[i].state = "resolved"
        <3>1. AlertKey("resolved", i, alerts[i].flap) # AlertKey("opened", new, 0)
            BY KeyParts
        <3>2. /\ AlertKey("opened", i, alerts[i].flap) \in outbox
              /\ AlertKey("resolved", i, alerts[i].flap) \in outbox <=> alerts[i].state = "resolved"
            BY <1>1, StoryRead DEF StoryInv
        <3> QED
            BY <1>2, <1>3, <3>1, <3>2
    <2>2. /\ AlertKey("opened", new, alerts'[new].flap) \in outbox'
          /\ AlertKey("resolved", new, alerts'[new].flap) \in outbox'
                <=> alerts'[new].state = "resolved"
        <3>1. AlertKey("resolved", new, 0) # AlertKey("opened", new, 0)
            BY KeyParts
        <3> QED
            BY <1>3, <1>4, <1>6, <3>1
    <2> QED
        BY <1>2, <2>1, <2>2 DEF SubscribersAgree
<1>9. FlapsInv'
    <2> SUFFICES ASSUME NEW j \in DOMAIN alerts', NEW kind \in {"opened", "resolved"},
                        NEW flap \in Nat, AlertKey(kind, j, flap) \in outbox'
                 PROVE  flap <= alerts'[j].flap
        BY DEF FlapsInv
    <2>1. CASE AlertKey(kind, j, flap) \in outbox
        <3>1. j \in DOMAIN alerts
            BY <1>2, <1>6, <2>1
        <3> QED
            BY <1>2, <2>1, <3>1 DEF StoryInv, FlapsInv
    <2>2. CASE AlertKey(kind, j, flap) = AlertKey("opened", new, 0)
        <3>1. j = new /\ flap = 0
            BY <2>2, KeyParts
        <3> QED
            BY <1>4, <3>1
    <2> QED
        BY <1>3, <2>1, <2>2
<1>10. \A k \in RuleKeys : Live(k) = {} => Live(k)' = {}
    BY <1>2, <1>4, <1>5 DEF Live
<1>11. /\ job.reviving \subseteq DOMAIN alerts /\ job.opening \subseteq RuleKeys
    BY <1>1 DEF TypeOK, Jobs
<1>12. DecidedInv'
    <2>1. ASSUME NEW k \in job'.opening PROVE Live(k)' = {}
        BY <1>3, <1>10, <1>11 DEF StoryInv, DecidedInv
    <2>2. ASSUME NEW i \in job'.reviving
          PROVE  (Live(alerts[i].key) = {})' /\ alerts'[i].key \notin job'.opening
                 /\ alerts'[i] = alerts[i]
        <3>1. alerts[i].key \in RuleKeys
            BY <1>3, <1>11 DEF Inv, PassInv
        <3>2. alerts'[i] = alerts[i]
            BY <1>2, <1>3, <1>11
        <3>3. Live(alerts[i].key) = {} /\ alerts[i].key \notin job.opening
            BY <1>3 DEF StoryInv, DecidedInv
        <3> QED
            BY <1>3, <1>10, <3>1, <3>2, <3>3
    <2> QED
        BY <1>3, <2>1, <2>2 DEF StoryInv, DecidedInv
<1> QED
    BY <1>7, <1>8, <1>9, <1>12 DEF StoryInv

\* The commit opens and revives what is still not live, and says so.
LEMMA CommitStory ==
    ASSUME Inv, StoryInv, CommitPass
    PROVE  StoryInv'
<1> DEFINE N == Cardinality(job.opening)
           L == Len(alerts)
           key(n) == SetToSeq(job.opening)[n]
<1>1. TypeOK /\ PassInv /\ TypeOK'
    BY CommitInv DEF Inv
<1>2. /\ job.pc = "commit" /\ job' = Idle /\ N \in Nat
      /\ \A i \in DOMAIN alerts : alerts'[i] = Written(i)
      /\ \A i \in DOMAIN alerts' \ DOMAIN alerts :
            \E n \in 1..N : i = L + n /\ alerts'[i] = NewAlert(key(n), job.at)
      /\ Len(alerts') = L + N
      /\ outbox' = outbox
           \cup {AlertKey("resolved", i, alerts[i].flap) : i \in job.resolving}
           \cup {AlertKey("opened", i, alerts[i].flap + 1) : i \in job.reviving}
           \cup {AlertKey("opened", L + n, 0) : n \in 1..N}
    BY <1>1, Committed
<1>3. /\ \A n \in 1..N : key(n) \in job.opening
      /\ \A n, m \in 1..N : key(n) = key(m) => n = m
    <2>1. job.opening \in SUBSET RuleKeys
        BY <1>1 DEF TypeOK, Jobs
    <2> QED
        BY <2>1, OpeningListed
<1> HIDE DEF N, key
<1>4. L \in Nat /\ DOMAIN alerts = 1..L /\ DOMAIN alerts' = 1..L + N
    BY <1>1, <1>2, AlertsTyped
<1>5. ASSUME NEW i \in DOMAIN alerts
      PROVE  /\ alerts'[i].key = alerts[i].key
             /\ i \in job.resolving =>
                   alerts[i].state # "resolved" /\ alerts'[i].state = "resolved" /\ i \notin job.reviving
             /\ i \in job.reviving =>
                   alerts[i].state = "resolved" /\ alerts'[i].state # "resolved"
             /\ i \notin job.resolving \cup job.reviving => alerts'[i].state = alerts[i].state
             /\ i \in job.reviving => alerts'[i].flap = alerts[i].flap + 1
             /\ i \notin job.reviving => alerts'[i].flap = alerts[i].flap
             /\ alerts[i].flap \in Nat /\ alerts'[i].flap \in Nat /\ alerts[i].flap <= alerts'[i].flap
    <2>1. /\ Written(i).key = alerts[i].key
          /\ Written(i).state = IF i \in job.resolving THEN "resolved"
                                ELSE IF i \in job.reviving THEN "open" ELSE alerts[i].state
          /\ Written(i).flap = IF i \in job.reviving THEN alerts[i].flap + 1 ELSE alerts[i].flap
        BY <1>1, <1>2, WrittenFacts
    <2>2. /\ i \in job.resolving => alerts[i].state # "resolved"
          /\ i \in job.reviving => alerts[i].state = "resolved"
        BY <1>1 DEF PassInv
    <2>3. alerts[i].flap \in Nat /\ alerts'[i] = Written(i)
        BY <1>1, <1>2, AlertsTyped
    <2> QED
        BY <2>1, <2>2, <2>3
<1>6. ASSUME NEW i \in DOMAIN alerts' \ DOMAIN alerts
      PROVE  \E n \in 1..N : /\ i = L + n /\ alerts'[i].key = key(n)
                             /\ alerts'[i].state = "open" /\ alerts'[i].flap = 0
    BY <1>2 DEF NewAlert
<1>7. /\ job.resolving \subseteq DOMAIN alerts /\ job.reviving \subseteq DOMAIN alerts
    <2>1. job.resolving \cup job.reviving \cup job.escalating \subseteq DOMAIN alerts
        BY <1>1, Zenon DEF TypeOK
    <2> QED
        BY <2>1
<1>8. ASSUME NEW i \in DOMAIN alerts, alerts[i].state # "resolved"
      PROVE  /\ alerts[i].key \notin job.opening
             /\ \A r \in job.reviving : alerts[r].key # alerts[i].key
    BY <1>1, <1>8, StoryRead DEF StoryInv, DecidedInv
<1>9. OneIncident'
    <2> SUFFICES ASSUME NEW i \in DOMAIN alerts', NEW j \in DOMAIN alerts',
                        alerts'[i].key = alerts'[j].key, alerts'[i].key \in RuleKeys,
                        alerts'[i].state # "resolved", alerts'[j].state # "resolved"
                 PROVE  i = j
        BY DEF OneIncident
    <2>1. ASSUME NEW a \in DOMAIN alerts, alerts'[a].state # "resolved"
          PROVE  a \in job.reviving \/ (a \notin job.reviving /\ alerts[a].state # "resolved")
        BY <1>5, <2>1
    <2>2. ASSUME NEW a \in DOMAIN alerts, NEW b \in DOMAIN alerts' \ DOMAIN alerts,
                 alerts'[a].state # "resolved"
          PROVE  alerts'[a].key # alerts'[b].key
        <3>1. alerts'[b].key \in job.opening
            BY <1>3, <1>6
        <3>2. alerts'[a].key = alerts[a].key
            BY <1>5
        <3>3. CASE a \in job.reviving
            BY <3>1, <3>2, <3>3 DEF StoryInv, DecidedInv
        <3>4. CASE alerts[a].state # "resolved"
            BY <1>8, <3>1, <3>2, <3>4
        <3> QED
            BY <2>1, <2>2, <3>3, <3>4
    <2>3. CASE i \in DOMAIN alerts /\ j \in DOMAIN alerts
        <3>1. alerts[i].key = alerts[j].key /\ alerts[i].key \in RuleKeys
            BY <1>5, <2>3
        <3>2. CASE i \in job.reviving /\ j \in job.reviving
            BY <3>1, <3>2 DEF StoryInv, DecidedInv
        <3>3. CASE alerts[i].state # "resolved" /\ alerts[j].state # "resolved"
            BY <1>1, <2>3, <3>1, <3>3, StoryRead DEF StoryInv
        <3>4. CASE i \in job.reviving /\ alerts[j].state # "resolved"
            BY <1>8, <2>3, <3>1, <3>4
        <3>5. CASE j \in job.reviving /\ alerts[i].state # "resolved"
            BY <1>8, <2>3, <3>1, <3>5
        <3> QED
            BY <2>1, <2>3, <3>2, <3>3, <3>4, <3>5
    <2>4. CASE i \in DOMAIN alerts /\ j \notin DOMAIN alerts
        BY <2>2, <2>4
    <2>5. CASE i \notin DOMAIN alerts /\ j \in DOMAIN alerts
        BY <2>2, <2>5
    <2>6. CASE i \notin DOMAIN alerts /\ j \notin DOMAIN alerts
        <3>1. PICK n \in 1..N : i = L + n /\ alerts'[i].key = key(n)
            BY <1>6, <2>6
        <3>2. PICK m \in 1..N : j = L + m /\ alerts'[j].key = key(m)
            BY <1>6, <2>6
        <3> QED
            BY <1>3, <3>1, <3>2
    <2> QED
        BY <2>3, <2>4, <2>5, <2>6
<1>10. \A kind, flap : \A i \in DOMAIN alerts' \ DOMAIN alerts :
          AlertKey(kind, i, flap) \notin outbox
    <2>1. outbox \subseteq {"opened", "resolved"} \X (DOMAIN alerts) \X Nat
        BY <1>1, Zenon DEF TypeOK
    <2> QED
        BY <2>1 DEF AlertKey
<1>11. \A kind, i, flap :
          AlertKey(kind, i, flap) \in outbox' <=>
             \/ AlertKey(kind, i, flap) \in outbox
             \/ kind = "resolved" /\ i \in job.resolving /\ flap = alerts[i].flap
             \/ kind = "opened" /\ i \in job.reviving /\ flap = alerts[i].flap + 1
             \/ kind = "opened" /\ flap = 0 /\ \E n \in 1..N : i = L + n
    BY <1>2, KeyParts
<1>12. \A n \in 1..N : L + n \notin DOMAIN alerts /\ L + n \in DOMAIN alerts'
    BY <1>2, <1>4
<1>13. /\ \A i \in DOMAIN alerts :
             /\ AlertKey("opened", i, alerts[i].flap) \in outbox
             /\ AlertKey("resolved", i, alerts[i].flap) \in outbox <=> alerts[i].state = "resolved"
       /\ \A i \in DOMAIN alerts : \A kind \in {"opened", "resolved"}, flap \in Nat :
             AlertKey(kind, i, flap) \in outbox => flap <= alerts[i].flap
    BY <1>1, StoryRead DEF StoryInv, FlapsInv
<1>14. SubscribersAgree'
    <2>1. ASSUME NEW i \in DOMAIN alerts
          PROVE  /\ AlertKey("opened", i, alerts'[i].flap) \in outbox'
                 /\ AlertKey("resolved", i, alerts'[i].flap) \in outbox'
                       <=> alerts'[i].state = "resolved"
        <3>1. CASE i \in job.reviving
            <4>1. alerts'[i].flap = alerts[i].flap + 1 /\ alerts'[i].state # "resolved"
                  /\ alerts[i].flap \in Nat /\ i \notin job.resolving
                BY <1>5, <3>1
            <4>2. AlertKey("resolved", i, alerts[i].flap + 1) \notin outbox
                <5>1. alerts[i].flap + 1 \in Nat /\ ~(alerts[i].flap + 1 <= alerts[i].flap)
                    BY <4>1
                <5> QED
                    BY <1>13, <5>1
            <4>3. /\ AlertKey("resolved", i, alerts[i].flap + 1) \notin outbox'
                  /\ AlertKey("opened", i, alerts[i].flap + 1) \in outbox'
                BY <1>11, <3>1, <4>1, <4>2
            <4> QED
                BY <4>1, <4>3
        <3>2. CASE i \in job.resolving
            BY <1>5, <1>11, <1>13, <3>2
        <3>3. CASE i \notin job.reviving \cup job.resolving
            <4>1. alerts'[i].flap = alerts[i].flap /\ alerts'[i].state = alerts[i].state
                BY <1>5, <3>3
            <4>2. AlertKey("resolved", i, alerts[i].flap) \in outbox'
                     <=> AlertKey("resolved", i, alerts[i].flap) \in outbox
                BY <1>11, <3>3
            <4> QED
                BY <1>11, <1>13, <4>1, <4>2
        <3> QED
            BY <3>1, <3>2, <3>3
    <2>2. ASSUME NEW i \in DOMAIN alerts' \ DOMAIN alerts
          PROVE  /\ AlertKey("opened", i, alerts'[i].flap) \in outbox'
                 /\ AlertKey("resolved", i, alerts'[i].flap) \in outbox'
                       <=> alerts'[i].state = "resolved"
        <3>1. PICK n \in 1..N : i = L + n /\ alerts'[i].state = "open" /\ alerts'[i].flap = 0
            BY <1>6
        <3>2. i \notin job.resolving
            BY <1>7
        <3> QED
            BY <1>10, <1>11, <3>1, <3>2
    <2> QED
        BY <2>1, <2>2 DEF SubscribersAgree
<1>15. FlapsInv'
    <2> SUFFICES ASSUME NEW i \in DOMAIN alerts', NEW kind \in {"opened", "resolved"},
                        NEW flap \in Nat, AlertKey(kind, i, flap) \in outbox'
                 PROVE  flap <= alerts'[i].flap
        BY DEF FlapsInv
    <2>1. CASE i \in DOMAIN alerts
        <3>1. /\ alerts[i].flap \in Nat /\ alerts'[i].flap \in Nat
              /\ alerts[i].flap <= alerts'[i].flap
              /\ i \in job.reviving => alerts'[i].flap = alerts[i].flap + 1
            BY <1>5, <2>1
        <3>2. ~\E n \in 1..N : i = L + n
            BY <1>12, <2>1
        <3>3. CASE AlertKey(kind, i, flap) \in outbox
            <4>1. flap <= alerts[i].flap
                BY <1>13, <2>1, <3>3
            <4> QED
                BY <3>1, <4>1
        <3>4. CASE flap = alerts[i].flap
            BY <3>1, <3>4
        <3>5. CASE i \in job.reviving /\ flap = alerts[i].flap + 1
            BY <3>1, <3>5
        <3> QED
            BY <1>11, <3>2, <3>3, <3>4, <3>5
    <2>2. CASE i \notin DOMAIN alerts
        <3>1. flap = 0
            BY <1>7, <1>10, <1>11, <2>2
        <3>2. alerts'[i].flap = 0
            BY <1>6, <2>2
        <3> QED
            BY <3>1, <3>2
    <2> QED
        BY <2>1, <2>2
<1>16. DecidedInv'
    BY <1>2 DEF DecidedInv, Idle
<1> QED
    BY <1>9, <1>14, <1>15, <1>16 DEF StoryInv

LEMMA NextStory ==
    ASSUME Inv, StoryInv, [AlertNext]_vars
    PROVE  StoryInv'
<1>1. CASE UNCHANGED vars
    BY <1>1, UntouchedStory DEF vars
<1>2. CASE \/ Heartbeat \/ Tick \/ PassFails
           \/ \E l \in Levels, codes \in SUBSET Codes : ApplyReading(l, codes)
           \/ \E o \in Operators : CheckIssue(o)
           \/ \E kind \in RuleKinds : ToggleRule(kind)
    BY <1>2, UntouchedStory
       DEF Heartbeat, Tick, PassFails, ApplyReading, CheckIssue, ToggleRule
<1>3. ASSUME NEW i \in DOMAIN alerts, Acknowledge(i) \/ Resolve(i)
      PROVE  StoryInv'
    BY <1>3, EditStory
<1>4. ASSUME NEW o \in Operators, FileIssue(o)
      PROVE  StoryInv'
    BY <1>4, FileStory
<1> QED
    BY <1>1, <1>2, <1>3, <1>4, EvaluateStory, CommitStory
       DEF AlertNext, AgentNext, OperatorNext

\* While operators act on what an alert is, a condition has one live alert, and
\* subscribers hear of every alert what it is, through folds and resolutions by
\* hand (_find_open_alert, alert_key).
THEOREM OneStoryTold == AlertSpec => []OneStory
<1>1. Init => Inv /\ StoryInv
    <2>1. Init => StoryInv
        BY DEF Init, StoryInv, OneIncident, SubscribersAgree, DecidedInv, FlapsInv, Idle
    <2> QED
        BY <2>1, InitInv
<1>2. Inv /\ StoryInv /\ [AlertNext]_vars => (Inv /\ StoryInv)'
    <2>1. [AlertNext]_vars => [Next]_vars
        BY DEF Next
    <2> QED
        BY <2>1, NextInv, NextStory
<1>3. Inv /\ StoryInv => OneStory
    BY DEF StoryInv, OneStory
<1> QED
    BY <1>1, <1>2, <1>3, PTL DEF AlertSpec
=============================================================================
