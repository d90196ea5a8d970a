----------------------- MODULE ReadingCollectionProofs -----------------------
(***************************************************************************)
(* The readings of one printer, for any lease length, batch, spool size    *)
(* and limits: type correctness of ReadingCollection, that no reading goes *)
(* missing and none is recorded again without a cause, with polls of any   *)
(* length, and, with polls shorter than the instant they are admitted in,  *)
(* that each reading was taken in its agent's own period.                  *)
(***************************************************************************)
EXTENDS ReadingCollection, SequencesExt, FiniteSetTheorems, WellFoundedInduction, TLAPS

USE DEF Agents

-----------------------------------------------------------------------------
(* Facts about sequences and measures that the proofs below cite.          *)

\* SetToSeq lists every element of a finite set once.
LEMMA SetToSeqLists ==
    ASSUME NEW S, IsFiniteSet(S)
    PROVE  /\ SetToSeq(S) \in Seq(S)
           /\ Len(SetToSeq(S)) = Cardinality(S)
           /\ Cardinality(S) \in Nat
           /\ DOMAIN SetToSeq(S) = 1..Cardinality(S)
           /\ \A i, j \in DOMAIN SetToSeq(S) : SetToSeq(S)[i] = SetToSeq(S)[j] => i = j
           /\ Range(SetToSeq(S)) = S
<1> DEFINE n == Cardinality(S)
           f == SetToSeq(S)
<1>1. n \in Nat /\ ExistsBijection(1..n, S)
    BY FS_CardinalityType
<1>2. PICK g \in [1..n -> S] : IsInjective(g)
    BY <1>1 DEF ExistsBijection, Bijection, Injection
<1>3. f \in [1..n -> S] /\ IsInjective(f)
    BY <1>2 DEF SetToSeq
<1>4. f \in Seq(S) /\ Len(f) = n /\ DOMAIN f = 1..n
    BY <1>1, <1>3
<1>5. f \in Surjection(1..n, S)
    <2>1. f \in Injection(1..n, S)
        BY <1>3 DEF Injection
    <2>2. Cardinality(1..n) = n
        BY <1>1, FS_Interval
    <2> QED
        BY <2>1, <2>2, FS_Injection
<1>6. Range(f) = S
    BY <1>3, <1>5 DEF Range, Surjection
<1> QED
    BY <1>1, <1>3, <1>4, <1>6 DEF IsInjective

\* A set of naturals has a least element.
LEMMA LeastNatural ==
    ASSUME NEW S \in SUBSET Nat, S # {}
    PROVE  \E n \in S : \A m \in S : n <= m
<1> DEFINE R == {ss \in Nat \X Nat : ss[1] < ss[2]}
<1>1. IsWellFoundedOn(R, Nat)
    BY NatLessThanWellFounded DEF OpToRel
<1>2. \A m, n \in Nat : m < n => <<m, n>> \in R
    OBVIOUS
<1> HIDE DEF R
<1>3. PICK n \in S : \A m \in S : ~(<<m, n>> \in R)
    BY <1>1, WFMin
<1>4. \A m \in S : m \in Nat /\ n \in Nat /\ ~(m < n)
    BY <1>2, <1>3
<1>5. \A m \in S : n <= m
    BY <1>4
<1> QED
    BY <1>3, <1>5

\* A measure with a bound is greatest somewhere.
LEMMA GreatestMeasured ==
    ASSUME NEW S, S # {}, NEW f \in [S -> Nat], NEW bound \in Nat, \A i \in S : f[i] <= bound
    PROVE  \E i \in S : \A j \in S : f[j] <= f[i]
<1> DEFINE T == {bound - f[i] : i \in S}
<1>1. T \in SUBSET Nat /\ T # {}
    OBVIOUS
<1>2. PICK n \in T : \A m \in T : n <= m
    <2> HIDE DEF T
    <2> QED
        BY <1>1, LeastNatural
<1>3. PICK i \in S : n = bound - f[i]
    OBVIOUS
<1>4. ASSUME NEW j \in S
      PROVE  f[j] <= f[i]
    <2>1. bound - f[i] <= bound - f[j]
        BY <1>2, <1>3
    <2>2. f[i] \in Nat /\ f[j] \in Nat
        OBVIOUS
    <2> QED
        BY <2>1, <2>2
<1> QED
    BY <1>4

-----------------------------------------------------------------------------
(* The inductive invariants.                                               *)

\* What an agent holds that no answer has covered yet.
Unsent(a) == job[a].fresh \cup {spool[a][i] : i \in job[a].sent + 1..Len(spool[a])}

\* One agent's cycle: what it holds is its own, in one copy; what it is going
\* to cut from the spool is recorded or given up; what it took is somewhere.
AgentInv(a) ==
    /\ job[a].pc \in {"idle", "poll"} => job[a].fresh = {}
    /\ job[a].pc \in {"idle", "poll", "push"} => job[a].sent = 0
    /\ job[a].fresh = {} \/ \E r \in Readings : job[a].fresh = {r}
    /\ \A i \in DOMAIN spool[a] : spool[a][i] \notin job[a].fresh
    /\ \A i, j \in DOMAIN spool[a] : spool[a][i] = spool[a][j] => i = j
    /\ \A i \in DOMAIN spool[a] : spool[a][i].agent = a /\ spool[a][i] \in taken
    /\ \A r \in job[a].fresh : r.agent = a /\ r \in taken
    /\ \A i \in 1..job[a].sent : spool[a][i] \in Recorded \cup givenUp
    /\ \A r \in Readings : r.agent = a =>
          /\ recorded[r] <= 1 + repeats
          /\ r \in Unsent(a) => recorded[r] <= repeats
          /\ recorded[r] > 0 => r \in taken
    /\ \A r \in taken : r.agent = a =>
          r \in Recorded \cup givenUp \cup job[a].fresh \cup Range(spool[a])

\* Nothing is read in the future.
TakenInv == \A r \in taken : r.ts <= now

KeptInv == TypeOK /\ TakenInv /\ \A a \in Agents : AgentInv(a)

-----------------------------------------------------------------------------
(* Facts about the operators.                                              *)

\* What a part of a sequence holds.
LEMMA PartOf ==
    ASSUME NEW S, NEW s \in Seq(S), NEW m \in 1..Len(s) + 1, NEW n \in Nat,
           n <= Len(s), m <= n + 1
    PROVE  /\ SubSeq(s, m, n) \in Seq(S)
           /\ Len(SubSeq(s, m, n)) = n - m + 1
           /\ DOMAIN SubSeq(s, m, n) = 1..n - m + 1
           /\ \A i \in 1..n - m + 1 : SubSeq(s, m, n)[i] = s[m + i - 1]
OBVIOUS

LEMMA Typed ==
    ASSUME TypeOK, NEW a \in Agents
    PROVE  /\ now \in Nat /\ now \in 1..MaxTime /\ repeats \in Nat
           /\ job[a] \in Jobs /\ job[a].fresh \in SUBSET Readings /\ job[a].sent \in Nat
           /\ spool[a] \in Seq(Readings) /\ Len(spool[a]) \in Nat
           /\ DOMAIN spool[a] = 1..Len(spool[a])
           /\ \A i \in DOMAIN spool[a] : spool[a][i] \in Readings
           /\ job[a].sent <= Len(spool[a]) /\ Len(spool[a]) <= SpoolMax
           /\ SpoolMax \in Nat \ {0} /\ BatchSize \in Nat \ {0} /\ Ttl \in Nat \ {0}
           /\ \A r \in Readings : recorded[r] \in Nat
<1>1. job[a] \in Jobs /\ spool[a] \in Seq(Readings)
    BY DEF TypeOK
<1>2. job[a].fresh \in SUBSET Readings /\ job[a].sent \in Nat
    BY <1>1 DEF Jobs
<1> HIDE DEF Agents
<1>3. /\ Len(spool[a]) \in Nat /\ DOMAIN spool[a] = 1..Len(spool[a])
      /\ \A i \in DOMAIN spool[a] : spool[a][i] \in Readings
    <2> HIDE DEF Readings
    <2> QED
        BY <1>1
<1> QED
    BY <1>1, <1>2, <1>3, ReadingAssumption DEF TypeOK

\* The greatest of some positions of a sequence.
LEMMA GreatestPosition ==
    ASSUME NEW n \in Nat, NEW S \in SUBSET (1..n), S # {}
    PROVE  Max(S) \in S
<1> DEFINE f == [i \in S |-> i]
<1>1. f \in [S -> Nat] /\ \A i \in S : f[i] <= n
    OBVIOUS
<1>2. \E i \in S : \A j \in S : f[j] <= f[i]
    <2> HIDE DEF f
    <2> QED
        BY <1>1, GreatestMeasured
<1>3. \E i \in S : \A j \in S : i >= j
    BY <1>2
<1> QED
    BY <1>3 DEF Max

\* What a batch of distinct readings leaves at central: each is recorded once
\* more or given up, and nothing else changes.
LEMMA Posted ==
    ASSUME TypeOK, NEW batch \in Seq(Readings), PostReadings(batch),
           \A i, j \in DOMAIN batch : batch[i] = batch[j] => i = j,
           \A i \in DOMAIN batch : batch[i].ts <= now
    PROVE  /\ recorded' \in [Readings -> Nat]
           /\ \A r \in Readings :
                 recorded[r] <= recorded'[r] /\ recorded'[r] <= recorded[r] + 1
           /\ \A r \in Readings :
                 recorded'[r] # recorded[r] => \E i \in DOMAIN batch : batch[i] = r
           /\ \A i \in DOMAIN batch : recorded'[batch[i]] > 0 \/ batch[i] \in Refused(batch)
           /\ Refused(batch) \in SUBSET Readings
           /\ lastSeen' \in 1..now /\ status' \in {"ok", "offline"} /\ heard' = now
<1> DEFINE admitted == {i \in DOMAIN batch : Admits(batch[i])}
           rows(r)  == {i \in admitted : batch[i] = r}
<1>1. /\ recorded' = [r \in Readings |-> recorded[r] + Cardinality(rows(r))]
      /\ IF admitted = {} THEN UNCHANGED <<lastSeen, status>>
         ELSE lastSeen' = batch[Max(admitted)].ts /\ status' = "ok"
      /\ heard' = now
    BY DEF PostReadings
<1>2. /\ Len(batch) \in Nat /\ DOMAIN batch = 1..Len(batch)
      /\ \A i \in DOMAIN batch : batch[i] \in Readings
    <2> HIDE DEF Readings
    <2> QED
        OBVIOUS
<1>3. ASSUME NEW r \in Readings
      PROVE  rows(r) = {} \/ \E i \in DOMAIN batch : batch[i] = r /\ rows(r) = {i}
    OBVIOUS
<1>4. ASSUME NEW r \in Readings
      PROVE  /\ Cardinality(rows(r)) \in {0, 1}
             /\ rows(r) # {} => Cardinality(rows(r)) = 1
             /\ rows(r) = {} => Cardinality(rows(r)) = 0
    <2>1. Cardinality({}) = 0
        BY FS_EmptySet
    <2>2. \A i : Cardinality({i}) = 1
        BY FS_Singleton
    <2> HIDE DEF rows
    <2>3. CASE rows(r) = {}
        BY <2>1, <2>3
    <2>4. CASE \E i \in DOMAIN batch : batch[i] = r /\ rows(r) = {i}
        <3>1. PICK i \in DOMAIN batch : rows(r) = {i}
            BY <2>4
        <3>2. Cardinality(rows(r)) = 1 /\ rows(r) # {}
            BY <2>2, <3>1
        <3> QED
            BY <3>2
    <2> QED
        BY <1>3, <2>3, <2>4
<1>5. \A r \in Readings : recorded[r] \in Nat
    BY DEF TypeOK
<1> HIDE DEF rows
<1>6. \A r \in Readings : recorded'[r] = recorded[r] + Cardinality(rows(r))
    BY <1>1
<1>7. recorded' \in [Readings -> Nat]
    BY <1>1, <1>4, <1>5
<1>8. \A r \in Readings :
         /\ recorded[r] <= recorded'[r] /\ recorded'[r] <= recorded[r] + 1
         /\ recorded'[r] # recorded[r] => rows(r) # {}
    BY <1>4, <1>5, <1>6
<1>9. \A r \in Readings : recorded'[r] # recorded[r] => \E i \in DOMAIN batch : batch[i] = r
    BY <1>8, <1>3
<1>10. ASSUME NEW i \in DOMAIN batch
       PROVE  recorded'[batch[i]] > 0 \/ batch[i] \in Refused(batch)
    <2>1. CASE Admits(batch[i])
        <3>1. rows(batch[i]) # {}
            BY <2>1 DEF rows
        <3> QED
            BY <1>2, <1>4, <1>5, <1>6, <3>1
    <2>2. CASE ~Admits(batch[i])
        BY <2>2 DEF Refused, Range
    <2> QED
        BY <2>1, <2>2
<1>11. Refused(batch) \in SUBSET Readings
    BY <1>2 DEF Refused, Range
<1>12. lastSeen' \in 1..now /\ status' \in {"ok", "offline"}
    <2>1. CASE admitted = {}
        BY <1>1, <2>1 DEF TypeOK
    <2>2. CASE admitted # {}
        <3>1. admitted \in SUBSET (1..Len(batch))
            BY <1>2
        <3> HIDE DEF admitted
        <3>2. Max(admitted) \in DOMAIN batch
            BY <1>2, <2>2, <3>1, GreatestPosition
        <3>3. batch[Max(admitted)] \in Readings /\ batch[Max(admitted)].ts <= now
            BY <1>2, <3>2
        <3>4. now \in Nat /\ MaxTime \in Nat
            BY ReadingAssumption DEF TypeOK
        <3>5. batch[Max(admitted)].ts \in 1..now
            BY <3>3, <3>4 DEF Readings
        <3> QED
            BY <1>1, <2>2, <3>5
    <2> QED
        BY <2>1, <2>2
<1> QED
    BY <1>1, <1>7, <1>8, <1>9, <1>10, <1>11, <1>12

\* The reading of one cycle, as a batch.
LEMMA FreshListed ==
    ASSUME TypeOK, NEW a \in Agents, AgentInv(a)
    PROVE  /\ SetToSeq(job[a].fresh) \in Seq(Readings)
           /\ Range(SetToSeq(job[a].fresh)) = job[a].fresh
           /\ \A i, j \in DOMAIN SetToSeq(job[a].fresh) :
                 SetToSeq(job[a].fresh)[i] = SetToSeq(job[a].fresh)[j] => i = j
           /\ \A i \in DOMAIN SetToSeq(job[a].fresh) : SetToSeq(job[a].fresh)[i] \in job[a].fresh
<1> DEFINE F == job[a].fresh
<1>1. F \in SUBSET Readings /\ (F = {} \/ \E r \in Readings : F = {r})
    BY Typed DEF AgentInv
<1>2. IsFiniteSet({}) /\ \A r : IsFiniteSet({r})
    BY FS_EmptySet, FS_Singleton
<1> HIDE DEF F
<1>3. IsFiniteSet(F)
    BY <1>1, <1>2
<1>4. /\ SetToSeq(F) \in Seq(F) /\ Range(SetToSeq(F)) = F
      /\ \A i, j \in DOMAIN SetToSeq(F) : SetToSeq(F)[i] = SetToSeq(F)[j] => i = j
    BY <1>3, SetToSeqLists
<1>5. SetToSeq(F) \in Seq(Readings)
    <2> HIDE DEF Readings
    <2> QED
        BY <1>1, <1>4
<1>6. \A i \in DOMAIN SetToSeq(F) : SetToSeq(F)[i] \in F
    BY <1>4 DEF Range
<1> QED
    BY <1>4, <1>5, <1>6 DEF F

\* append keeps the newest, in one copy, within the cap.
LEMMA AppendedFacts ==
    ASSUME NEW s \in Seq(Readings), NEW batch \in Seq(Readings), SpoolMax \in Nat \ {0},
           \A i, j \in DOMAIN s : s[i] = s[j] => i = j,
           \A i, j \in DOMAIN batch : batch[i] = batch[j] => i = j,
           \A i \in DOMAIN s, j \in DOMAIN batch : s[i] # batch[j]
    PROVE  /\ Appended(s, batch) \in Seq(Readings)
           /\ Len(Appended(s, batch)) <= SpoolMax
           /\ \A i, j \in DOMAIN Appended(s, batch) :
                 Appended(s, batch)[i] = Appended(s, batch)[j] => i = j
           /\ Range(Appended(s, batch)) \subseteq Range(s) \cup Range(batch)
<1> DEFINE all == s \o batch
           L   == Len(all)
           cut == SubSeq(all, L - SpoolMax + 1, L)
<1> HIDE DEF Readings
<1>1. /\ all \in Seq(Readings) /\ L = Len(s) + Len(batch)
      /\ Len(s) \in Nat /\ Len(batch) \in Nat /\ L \in Nat
      /\ DOMAIN all = 1..L /\ DOMAIN s = 1..Len(s) /\ DOMAIN batch = 1..Len(batch)
      /\ \A i \in 1..Len(s) : all[i] = s[i]
      /\ \A n \in 1..Len(batch) : all[Len(s) + n] = batch[n]
    OBVIOUS
<1> HIDE DEF all
<1>2. \A i \in 1..L : \/ i \in 1..Len(s)
                      \/ i - Len(s) \in 1..Len(batch) /\ i = Len(s) + (i - Len(s))
    BY <1>1
<1>3. ASSUME NEW i \in 1..L
      PROVE  \/ i \in DOMAIN s /\ all[i] = s[i]
             \/ i - Len(s) \in DOMAIN batch /\ all[i] = batch[i - Len(s)]
    BY <1>1, <1>2
<1>4. ASSUME NEW i \in 1..L, NEW j \in 1..L, all[i] = all[j]
      PROVE  i = j
    <2>1. CASE i \in DOMAIN s /\ all[i] = s[i] /\ j \in DOMAIN s /\ all[j] = s[j]
        BY <1>4, <2>1
    <2>2. CASE /\ i - Len(s) \in DOMAIN batch /\ all[i] = batch[i - Len(s)]
               /\ j - Len(s) \in DOMAIN batch /\ all[j] = batch[j - Len(s)]
        <3>1. i - Len(s) = j - Len(s)
            BY <1>4, <2>2
        <3> QED
            BY <1>1, <3>1
    <2> QED
        BY <1>3, <1>4, <2>1, <2>2
<1>5. ASSUME NEW i \in 1..L
      PROVE  all[i] \in Range(s) \cup Range(batch)
    BY <1>3 DEF Range
<1>6. CASE L > SpoolMax
    <2>1. /\ L - SpoolMax + 1 \in 1..L + 1 /\ L <= L /\ L - SpoolMax + 1 <= L + 1
          /\ L - (L - SpoolMax + 1) + 1 = SpoolMax
        BY <1>1, <1>6
    <2>2. /\ cut \in Seq(Readings) /\ Len(cut) = SpoolMax /\ DOMAIN cut = 1..SpoolMax
          /\ \A i \in 1..SpoolMax : cut[i] = all[L - SpoolMax + 1 + i - 1]
        BY <1>1, <2>1, PartOf
    <2> HIDE DEF cut
    <2>3. \A i \in 1..SpoolMax : L - SpoolMax + 1 + i - 1 \in 1..L
        BY <1>1, <1>6
    <2>4. Appended(s, batch) = cut
        BY <1>6 DEF Appended, cut, all
    <2>5. ASSUME NEW i \in 1..SpoolMax, NEW j \in 1..SpoolMax, cut[i] = cut[j]
          PROVE  i = j
        <3> DEFINE p == L - SpoolMax + 1 + i - 1
                   q == L - SpoolMax + 1 + j - 1
        <3>1. p \in 1..L /\ q \in 1..L
            BY <2>3
        <3>2. all[p] = all[q]
            BY <2>2, <2>5
        <3>3. p = q => i = j
            BY <1>1
        <3> HIDE DEF p, q
        <3> QED
            BY <1>4, <3>1, <3>2, <3>3
    <2>6. Range(cut) \subseteq Range(s) \cup Range(batch)
        <3>1. ASSUME NEW i \in 1..SpoolMax
              PROVE  cut[i] \in Range(s) \cup Range(batch)
            BY <1>5, <2>2, <2>3
        <3>2. \A r \in Range(cut) : \E i \in 1..SpoolMax : r = cut[i]
            BY <2>2 DEF Range
        <3> QED
            BY <3>1, <3>2
    <2> QED
        BY <2>2, <2>4, <2>5, <2>6
<1>7. CASE ~(L > SpoolMax)
    <2>1. Appended(s, batch) = all
        BY <1>7 DEF Appended, all
    <2>2. Range(all) \subseteq Range(s) \cup Range(batch)
        <3>1. \A i \in DOMAIN all : all[i] \in Range(s) \cup Range(batch)
            BY <1>1, <1>5
        <3> QED
            BY <3>1 DEF Range
    <2> QED
        BY <1>1, <1>4, <1>7, <2>1, <2>2
<1> QED
    BY <1>6, <1>7

\* The batch a drain sends: the next of the spool, each once, none from the
\* future.
LEMMA BatchFacts ==
    ASSUME KeptInv, NEW a \in Agents, job[a].sent < Len(spool[a])
    PROVE  /\ Batch(a) \in Seq(Readings)
           /\ Len(Batch(a)) \in 1..Len(spool[a]) - job[a].sent
           /\ DOMAIN Batch(a) = 1..Len(Batch(a))
           /\ \A i \in DOMAIN Batch(a) :
                 /\ job[a].sent + i \in job[a].sent + 1..Len(spool[a])
                 /\ Batch(a)[i] = spool[a][job[a].sent + i]
           /\ \A i, j \in DOMAIN Batch(a) : Batch(a)[i] = Batch(a)[j] => i = j
           /\ \A i \in DOMAIN Batch(a) : Batch(a)[i].ts <= now /\ Batch(a)[i].agent = a
           /\ Range(Batch(a)) = {Batch(a)[i] : i \in DOMAIN Batch(a)}
<1> DEFINE left == Len(spool[a]) - job[a].sent
           k    == IF left < BatchSize THEN left ELSE BatchSize
           m    == job[a].sent + 1
           n    == job[a].sent + k
<1>1. /\ job[a].sent \in Nat /\ spool[a] \in Seq(Readings) /\ Len(spool[a]) \in Nat
      /\ DOMAIN spool[a] = 1..Len(spool[a]) /\ BatchSize \in Nat \ {0}
    BY Typed DEF KeptInv
<1>2. /\ k \in 1..left /\ m \in 1..Len(spool[a]) + 1 /\ n \in Nat /\ n <= Len(spool[a])
      /\ m <= n + 1 /\ n - m + 1 = k /\ k \in Nat
    <2>1. left \in Nat \ {0}
        BY <1>1
    <2>2. k \in Nat /\ 1 <= k /\ k <= left
        <3> HIDE DEF left
        <3> QED
            BY <1>1, <2>1
    <2>3. Len(spool[a]) = job[a].sent + left
        BY <1>1
    <2> DEFINE from == job[a].sent
               L    == Len(spool[a])
    <2> HIDE DEF k, left, from, L
    <2>4. from \in Nat /\ L \in Nat /\ L = from + left
        BY <1>1, <2>3 DEF from, L
    <2>5. /\ k \in 1..left /\ from + 1 \in 1..L + 1 /\ from + k \in Nat /\ from + k <= L
          /\ from + 1 <= from + k + 1 /\ from + k - (from + 1) + 1 = k
        BY <2>1, <2>2, <2>4
    <2> QED
        BY <2>2, <2>4, <2>5 DEF from, L
<1>3. Batch(a) = SubSeq(spool[a], m, n)
    BY DEF Batch
<1>4. /\ SubSeq(spool[a], m, n) \in Seq(Readings)
      /\ Len(SubSeq(spool[a], m, n)) = n - m + 1
      /\ DOMAIN SubSeq(spool[a], m, n) = 1..n - m + 1
      /\ \A i \in 1..n - m + 1 : SubSeq(spool[a], m, n)[i] = spool[a][m + i - 1]
    <2> HIDE DEF m, n
    <2> QED
        BY <1>1, <1>2, PartOf
<1>5. /\ Batch(a) \in Seq(Readings) /\ Len(Batch(a)) = k /\ DOMAIN Batch(a) = 1..k
      /\ \A i \in 1..k : Batch(a)[i] = spool[a][m + i - 1]
    <2> HIDE DEF k, m, n
    <2> QED
        BY <1>2, <1>3, <1>4
<1> HIDE DEF k, n
<1>6. \A i \in 1..k : /\ m + i - 1 = job[a].sent + i
                      /\ job[a].sent + i \in job[a].sent + 1..Len(spool[a])
                      /\ job[a].sent + i \in DOMAIN spool[a]
    <2> DEFINE from == job[a].sent
               L    == Len(spool[a])
    <2>1. from \in Nat /\ L \in Nat /\ k \in Nat /\ k <= L - from /\ m = from + 1
          /\ DOMAIN spool[a] = 1..L
        BY <1>1, <1>2
    <2> HIDE DEF from, L, m
    <2>2. \A i \in 1..k : m + i - 1 = from + i /\ from + i \in from + 1..L /\ from + i \in 1..L
        BY <2>1
    <2> QED
        BY <2>1, <2>2 DEF from, L
<1> HIDE DEF m
<1>7. \A i \in 1..k : Batch(a)[i] = spool[a][job[a].sent + i]
    BY <1>5, <1>6
<1>8. \A i \in DOMAIN spool[a] : spool[a][i].agent = a /\ spool[a][i].ts <= now
    BY DEF KeptInv, AgentInv, TakenInv
<1>9. \A i, j \in 1..k : Batch(a)[i] = Batch(a)[j] => i = j
    <2> TAKE i, j \in 1..k
    <2>1. Batch(a)[i] = Batch(a)[j] => job[a].sent + i = job[a].sent + j
        BY <1>6, <1>7 DEF KeptInv, AgentInv
    <2>2. job[a].sent + i = job[a].sent + j => i = j
        BY <1>1
    <2> QED
        BY <2>1, <2>2
<1> QED
    BY <1>2, <1>5, <1>6, <1>7, <1>8, <1>9 DEF Range

-----------------------------------------------------------------------------
(* One agent's cycle, a step at a time.                                    *)

\* What the agent holds is as it was, and so is what the table has of it.
LEMMA HoldingsKept ==
    ASSUME TypeOK, NEW a \in Agents, AgentInv(a), spool'[a] = spool[a],
           job'[a].fresh = job[a].fresh, job'[a].sent = job[a].sent,
           job'[a].pc \in {"idle", "poll"} => job[a].fresh = {},
           job'[a].pc \in {"idle", "poll", "push"} => job[a].sent = 0,
           \A r \in Readings : r.agent = a => recorded'[r] = recorded[r],
           \A r : r.agent = a => (r \in taken' <=> r \in taken),
           givenUp \subseteq givenUp',
           repeats' \in Nat, repeats <= repeats'
    PROVE  AgentInv(a)'
<1>1. Unsent(a)' = Unsent(a)
    BY DEF Unsent
<1>2. \A r \in Readings : r.agent = a => (r \in Recorded' <=> r \in Recorded)
    BY DEF Recorded
<1>3. \A i \in DOMAIN spool[a] :
         spool[a][i].agent = a /\ spool[a][i] \in taken /\ spool[a][i] \in Readings
    BY Typed DEF AgentInv
<1>4. 1..job[a].sent \subseteq DOMAIN spool[a]
    BY Typed
<1>5. \A i \in 1..job[a].sent : spool[a][i] \in Recorded' \cup givenUp'
    BY <1>2, <1>3, <1>4 DEF AgentInv
<1>6. \A r \in Readings : r.agent = a =>
          /\ recorded'[r] <= 1 + repeats'
          /\ r \in Unsent(a)' => recorded'[r] <= repeats'
          /\ recorded'[r] > 0 => r \in taken'
    <2> SUFFICES ASSUME NEW r \in Readings, r.agent = a
                 PROVE  /\ recorded'[r] <= 1 + repeats'
                        /\ r \in Unsent(a)' => recorded'[r] <= repeats'
                        /\ recorded'[r] > 0 => r \in taken'
        OBVIOUS
    <2>1. /\ recorded[r] <= 1 + repeats
          /\ r \in Unsent(a) => recorded[r] <= repeats
          /\ recorded[r] > 0 => r \in taken
          /\ recorded[r] \in Nat /\ recorded'[r] = recorded[r] /\ repeats \in Nat
        BY Typed DEF AgentInv
    <2>2. r \in Unsent(a)' <=> r \in Unsent(a)
        BY <1>1
    <2> HIDE DEF Unsent
    <2> QED
        BY <2>1, <2>2
<1>7. \A r \in taken' : r.agent = a =>
          r \in Recorded' \cup givenUp' \cup job'[a].fresh \cup Range(spool'[a])
    BY <1>2 DEF AgentInv, TypeOK
<1>8. /\ \A i \in DOMAIN spool'[a] : spool'[a][i].agent = a /\ spool'[a][i] \in taken'
      /\ \A r \in job'[a].fresh : r.agent = a /\ r \in taken'
    BY <1>3 DEF AgentInv
<1> QED
    BY <1>5, <1>6, <1>7, <1>8 DEF AgentInv

\* A step of one agent's cycle, seen from the other.
LEMMA OtherKept ==
    ASSUME TypeOK, NEW b \in Agents, AgentInv(b), job'[b] = job[b], spool'[b] = spool[b],
           \A r \in Readings : r.agent = b => recorded'[r] = recorded[r],
           \A r : r.agent = b => (r \in taken' <=> r \in taken),
           givenUp \subseteq givenUp',
           repeats' \in Nat, repeats <= repeats'
    PROVE  AgentInv(b)'
<1>1. /\ job[b].pc \in {"idle", "poll"} => job[b].fresh = {}
      /\ job[b].pc \in {"idle", "poll", "push"} => job[b].sent = 0
    BY DEF AgentInv
<1> QED
    BY <1>1, HoldingsKept

LEMMA TakeKept ==
    ASSUME KeptInv, NEW a \in Agents, TakeReading(a)
    PROVE  \A b \in Agents : AgentInv(b)'
<1> DEFINE r == Reading(a, now)
<1>1. /\ job[a].pc = "poll" /\ r \notin taken /\ taken' = taken \cup {r}
      /\ job' = [job EXCEPT ![a].pc = "drain", ![a].fresh = {r}]
      /\ UNCHANGED <<spool, recorded, givenUp, repeats>>
    BY DEF TakeReading, centralVars
<1>2. TypeOK /\ AgentInv(a) /\ job \in [Agents -> Jobs]
    BY DEF KeptInv, TypeOK
<1>3. /\ job'[a].pc = "drain" /\ job'[a].fresh = {r} /\ job'[a].sent = job[a].sent
      /\ \A b \in Agents : b # a => job'[b] = job[b]
    <2> HIDE DEF Agents, r
    <2> QED
        BY <1>1, <1>2 DEF Jobs
<1>4. job[a].fresh = {} /\ job[a].sent = 0
    BY <1>1, <1>2 DEF AgentInv
<1>5. r \in Readings /\ r.agent = a
    BY <1>2 DEF Reading, Readings, TypeOK
<1> HIDE DEF r
<1>6. recorded[r] = 0 /\ repeats \in Nat
    <2>1. recorded[r] > 0 => r \in taken
        BY <1>2, <1>5 DEF AgentInv
    <2>2. recorded[r] \in Nat /\ repeats \in Nat
        BY <1>2, <1>5, Typed
    <2> QED
        BY <1>1, <2>1, <2>2
<1>7. AgentInv(a)'
    <2>1. \A i \in DOMAIN spool[a] :
             spool[a][i].agent = a /\ spool[a][i] \in taken /\ spool[a][i] # r
        BY <1>1, <1>2 DEF AgentInv
    <2>2. ASSUME NEW q \in Readings, q.agent = a
          PROVE  /\ recorded'[q] <= 1 + repeats'
                 /\ q \in Unsent(a)' => recorded'[q] <= repeats'
                 /\ recorded'[q] > 0 => q \in taken'
        <3>1. q \in Unsent(a)' => q = r \/ q \in Unsent(a)
            BY <1>1, <1>3 DEF Unsent
        <3>2. /\ recorded[q] <= 1 + repeats
              /\ q \in Unsent(a) => recorded[q] <= repeats
              /\ recorded[q] > 0 => q \in taken
            BY <1>2, <2>2 DEF AgentInv
        <3>3. recorded' = recorded /\ repeats' = repeats /\ taken \subseteq taken'
            BY <1>1
        <3> HIDE DEF Unsent
        <3> QED
            BY <1>6, <3>1, <3>2, <3>3
    <2>3. \A q \in taken' : q.agent = a =>
             q \in Recorded' \cup givenUp' \cup job'[a].fresh \cup Range(spool'[a])
        BY <1>1, <1>2, <1>3, <1>4 DEF AgentInv, Recorded
    <2>4. \A i \in 1..job'[a].sent : spool'[a][i] \in Recorded' \cup givenUp'
        BY <1>3, <1>4
    <2>5. \A i, j \in DOMAIN spool'[a] : spool'[a][i] = spool'[a][j] => i = j
        BY <1>1, <1>2 DEF AgentInv
    <2> QED
        BY <1>1, <1>3, <1>5, <2>1, <2>2, <2>3, <2>4, <2>5 DEF AgentInv
<1>8. ASSUME NEW b \in Agents, b # a
      PROVE  AgentInv(b)'
    <2>1. \A q : q.agent = b => (q \in taken' <=> q \in taken)
        BY <1>1, <1>5, <1>8
    <2>2. job'[b] = job[b] /\ AgentInv(b) /\ TypeOK /\ repeats <= repeats' /\ repeats' \in Nat
        BY <1>1, <1>3, <1>6, <1>8 DEF KeptInv
    <2> QED
        BY <1>1, <2>1, <2>2, OtherKept
<1> QED
    BY <1>7, <1>8

\* A batch is recorded, and the answer is heard or not.
LEMMA SendKept ==
    ASSUME KeptInv, NEW a \in Agents, SendBatch(a) \/ SendBatchUnheard(a)
    PROVE  \A b \in Agents : AgentInv(b)'
<1> DEFINE batch == Batch(a)
           sent  == job[a].sent
           L     == Len(spool[a])
<1>1. /\ job[a].pc = "drain" /\ sent < L /\ PostReadings(batch)
      /\ givenUp' = givenUp \cup Refused(batch)
      /\ UNCHANGED <<spool, taken>>
    BY DEF SendBatch, SendBatchUnheard
<1>2. TypeOK /\ AgentInv(a) /\ job \in [Agents -> Jobs] /\ job[a] \in Jobs
    BY DEF KeptInv, TypeOK
<1>3. /\ batch \in Seq(Readings) /\ Len(batch) \in 1..L - sent /\ DOMAIN batch = 1..Len(batch)
      /\ \A i \in DOMAIN batch : sent + i \in sent + 1..L /\ batch[i] = spool[a][sent + i]
      /\ \A i, j \in DOMAIN batch : batch[i] = batch[j] => i = j
      /\ \A i \in DOMAIN batch : batch[i].ts <= now /\ batch[i].agent = a
    BY <1>1, BatchFacts
<1>4. /\ sent \in Nat /\ L \in Nat /\ DOMAIN spool[a] = 1..L /\ repeats \in Nat
      /\ \A i \in DOMAIN spool[a] : spool[a][i] \in Readings
      /\ \A r \in Readings : recorded[r] \in Nat
    BY <1>2, Typed
<1>5. /\ recorded' \in [Readings -> Nat]
      /\ \A r \in Readings : recorded[r] <= recorded'[r] /\ recorded'[r] <= recorded[r] + 1
      /\ \A r \in Readings : recorded'[r] # recorded[r] => \E i \in DOMAIN batch : batch[i] = r
      /\ \A i \in DOMAIN batch : recorded'[batch[i]] > 0 \/ batch[i] \in Refused(batch)
    BY <1>1, <1>2, <1>3, Posted
<1> HIDE DEF batch
<1>6. /\ job'[a].fresh = job[a].fresh /\ job'[a].pc \in {"drain", "rewrite"}
      /\ \A b \in Agents : b # a => job'[b] = job[b]
      /\ \/ job'[a].sent = sent + Len(batch) /\ repeats' = repeats
         \/ job'[a].sent = sent /\ repeats' = repeats + 1
    <2>1. CASE SendBatch(a)
        <3>1. job' = [job EXCEPT ![a].sent = @ + Len(batch)] /\ repeats' = repeats
            BY <2>1 DEF SendBatch, batch
        <3> HIDE DEF Agents
        <3> QED
            BY <1>1, <1>2, <3>1 DEF Jobs
    <2>2. CASE SendBatchUnheard(a)
        <3>1. job' = [job EXCEPT ![a].pc = "rewrite"] /\ repeats' = repeats + 1
            BY <2>2 DEF SendBatchUnheard
        <3> HIDE DEF Agents
        <3> QED
            BY <1>1, <1>2, <3>1 DEF Jobs
    <2> QED
        BY <2>1, <2>2
<1> HIDE DEF sent, L
<1>7. repeats' \in Nat /\ repeats <= repeats' /\ givenUp \subseteq givenUp'
    BY <1>1, <1>4, <1>6
<1>8. AgentInv(a)'
    <2>1. \A i \in 1..job'[a].sent : spool[a][i] \in Recorded' \cup givenUp'
        <3> TAKE i \in 1..job'[a].sent
        <3>1. CASE i \in 1..sent
            <4>1. i \in DOMAIN spool[a] /\ spool[a][i] \in Recorded \cup givenUp
                BY <1>1, <1>2, <1>4, <3>1 DEF AgentInv, sent
            <4>2. Recorded \subseteq Recorded'
                BY <1>4, <1>5 DEF Recorded
            <4> QED
                BY <1>7, <4>1, <4>2
        <3>2. CASE i \notin 1..sent
            <4>1. i - sent \in 1..Len(batch) /\ i = sent + (i - sent)
                BY <1>3, <1>4, <1>6, <3>2
            <4>2. spool[a][i] = batch[i - sent]
                BY <1>3, <4>1
            <4>3. spool[a][i] \in Readings
                <5>1. batch[i - sent] \in Readings
                    <6> HIDE DEF Readings
                    <6> QED
                        BY <1>3, <4>1
                <5> QED
                    BY <4>2, <5>1
            <4>4. recorded'[spool[a][i]] > 0 \/ spool[a][i] \in Refused(batch)
                BY <1>3, <1>5, <4>1, <4>2
            <4> QED
                BY <1>1, <4>3, <4>4 DEF Recorded, batch
        <3> QED
            BY <3>1, <3>2
    <2>2. ASSUME NEW r \in Readings, r.agent = a
          PROVE  /\ recorded'[r] <= 1 + repeats'
                 /\ r \in Unsent(a)' => recorded'[r] <= repeats'
                 /\ recorded'[r] > 0 => r \in taken'
        <3>1. /\ recorded[r] <= 1 + repeats
              /\ r \in Unsent(a) => recorded[r] <= repeats
              /\ recorded[r] > 0 => r \in taken
              /\ recorded[r] \in Nat /\ recorded'[r] \in Nat /\ recorded'[r] <= recorded[r] + 1
            BY <1>2, <1>4, <1>5, <2>2 DEF AgentInv
        <3>2. CASE recorded'[r] = recorded[r]
            <4>1. r \in Unsent(a)' => r \in Unsent(a)
                <5>1. \A i \in job'[a].sent + 1..L : i \in sent + 1..L
                    BY <1>3, <1>4, <1>6
                <5> QED
                    BY <1>1, <1>6, <5>1 DEF Unsent, sent, L
            <4> HIDE DEF Unsent
            <4> QED
                BY <1>1, <1>4, <1>7, <3>1, <3>2, <4>1
        <3>3. CASE recorded'[r] # recorded[r]
            <4>1. PICK i \in DOMAIN batch : batch[i] = r
                BY <1>5, <3>3
            <4>2. sent + i \in sent + 1..L /\ spool[a][sent + i] = r /\ i \in 1..Len(batch)
                BY <1>3, <4>1
            <4>3. r \in Unsent(a)
                BY <4>2 DEF Unsent, sent, L
            <4>4. r \in taken /\ sent + i \in DOMAIN spool[a]
                BY <1>2, <1>4, <4>2 DEF AgentInv
            <4>5. CASE repeats' = repeats + 1
                BY <1>1, <1>4, <3>1, <4>3, <4>4, <4>5
            <4>6. CASE job'[a].sent = sent + Len(batch) /\ repeats' = repeats
                <5>1. r \notin job[a].fresh
                    BY <1>2, <4>2, <4>4 DEF AgentInv
                <5>2. ASSUME NEW j \in job'[a].sent + 1..L, spool[a][j] = r
                      PROVE  FALSE
                    <6>1. j \in DOMAIN spool[a] /\ sent + i \in DOMAIN spool[a] /\ j # sent + i
                        BY <1>3, <1>4, <4>2, <4>6
                    <6> QED
                        BY <1>2, <4>2, <5>2, <6>1 DEF AgentInv
                <5>3. r \notin Unsent(a)'
                    BY <1>1, <1>6, <5>1, <5>2 DEF Unsent, L
                <5> HIDE DEF Unsent
                <5> QED
                    BY <1>1, <1>4, <3>1, <4>3, <4>4, <4>6, <5>3
            <4> QED
                BY <1>6, <4>5, <4>6
        <3> QED
            BY <3>2, <3>3
    <2>3. \A q \in taken' : q.agent = a =>
             q \in Recorded' \cup givenUp' \cup job'[a].fresh \cup Range(spool'[a])
        <3>1. Recorded \subseteq Recorded'
            BY <1>4, <1>5 DEF Recorded
        <3> QED
            BY <1>1, <1>2, <1>6, <1>7, <3>1 DEF AgentInv
    <2> QED
        BY <1>1, <1>2, <1>6, <2>1, <2>2, <2>3 DEF AgentInv
<1>9. ASSUME NEW b \in Agents, b # a
      PROVE  AgentInv(b)'
    <2>1. \A r \in Readings : r.agent = b => recorded'[r] = recorded[r]
        BY <1>3, <1>5, <1>9
    <2>2. job'[b] = job[b] /\ AgentInv(b) /\ TypeOK
        BY <1>6, <1>9 DEF KeptInv
    <2> QED
        BY <1>1, <1>7, <2>1, <2>2, OtherKept
<1> QED
    BY <1>8, <1>9

\* The drain is over: what was acknowledged is cut from the spool, or, if the
\* rewrite fails, it is still there; or the file could not be read.
LEMMA DrainKept ==
    ASSUME KeptInv, NEW a \in Agents, EndDrain(a) \/ RewriteFails(a) \/ DrainUnread(a)
    PROVE  /\ \A b \in Agents : AgentInv(b)'
           /\ spool'[a] \in Seq(Readings) /\ Len(spool'[a]) <= Len(spool[a])
<1> DEFINE sent  == job[a].sent
           L     == Len(spool[a])
<1>1. /\ job' = [job EXCEPT ![a].sent = 0,
                            ![a].pc = IF job[a].fresh = {} THEN "idle" ELSE "push"]
      /\ UNCHANGED <<recorded, taken, givenUp>>
    BY DEF EndDrain, RewriteFails, DrainUnread, centralVars, historyVars
<1>2. TypeOK /\ AgentInv(a) /\ job \in [Agents -> Jobs] /\ spool \in [Agents -> Seq(Readings)]
    BY DEF KeptInv, TypeOK
<1>3. /\ job'[a].fresh = job[a].fresh /\ job'[a].sent = 0
      /\ job'[a].pc = IF job[a].fresh = {} THEN "idle" ELSE "push"
      /\ \A b \in Agents : b # a => job'[b] = job[b]
    <2> HIDE DEF Agents
    <2> QED
        BY <1>1, <1>2 DEF Jobs
<1>4. /\ sent \in Nat /\ L \in Nat /\ sent <= L /\ DOMAIN spool[a] = 1..L /\ repeats \in Nat
      /\ spool[a] \in Seq(Readings)
      /\ \A i \in DOMAIN spool[a] : spool[a][i] \in Readings
      /\ \A r \in Readings : recorded[r] \in Nat
    BY <1>2, Typed
\* The spool is the old one, or what is left of it.
<1>5. \/ spool'[a] = spool[a] /\ (sent = 0 \/ repeats' = repeats + 1)
      \/ spool'[a] = Remainder(a) /\ repeats' = repeats
    <2>1. CASE EndDrain(a)
        BY <1>2, <2>1 DEF EndDrain, historyVars
    <2>2. CASE RewriteFails(a)
        BY <1>2, <2>2 DEF RewriteFails
    <2>3. CASE DrainUnread(a)
        BY <2>3 DEF DrainUnread
    <2> QED
        BY <2>1, <2>2, <2>3
<1>6. (repeats' = repeats \/ repeats' = repeats + 1) /\ \A b \in Agents : b # a => spool'[b] = spool[b]
    <2>1. CASE EndDrain(a)
        <3>1. /\ spool' = [spool EXCEPT ![a] = IF job[a].sent = 0 THEN @ ELSE Remainder(a)]
              /\ repeats' = repeats
            BY <2>1 DEF EndDrain, historyVars
        <3> HIDE DEF Agents
        <3> QED
            BY <1>2, <3>1
    <2>2. CASE RewriteFails(a)
        BY <2>2 DEF RewriteFails
    <2>3. CASE DrainUnread(a)
        BY <2>3 DEF DrainUnread, historyVars
    <2> QED
        BY <2>1, <2>2, <2>3
<1>7. /\ Remainder(a) \in Seq(Readings) /\ Len(Remainder(a)) = L - sent
      /\ DOMAIN Remainder(a) = 1..L - sent
      /\ \A i \in 1..L - sent : Remainder(a)[i] = spool[a][sent + i] /\ sent + i \in sent + 1..L
    <2>1. sent + 1 \in 1..L + 1 /\ L <= L /\ sent + 1 <= L + 1 /\ L - (sent + 1) + 1 = L - sent
        <3>1. sent \in Nat /\ L \in Nat /\ sent <= L
            BY <1>4
        <3> HIDE DEF sent, L
        <3> QED
            BY <3>1
    <2>2. Remainder(a) = SubSeq(spool[a], sent + 1, L)
        BY DEF Remainder
    <2>3. /\ SubSeq(spool[a], sent + 1, L) \in Seq(Readings)
          /\ Len(SubSeq(spool[a], sent + 1, L)) = L - (sent + 1) + 1
          /\ DOMAIN SubSeq(spool[a], sent + 1, L) = 1..L - (sent + 1) + 1
          /\ \A i \in 1..L - (sent + 1) + 1 :
                SubSeq(spool[a], sent + 1, L)[i] = spool[a][sent + 1 + i - 1]
        <3> HIDE DEF sent
        <3> QED
            BY <1>4, <2>1, PartOf
    <2>4. \A i \in 1..L - sent : sent + 1 + i - 1 = sent + i /\ sent + i \in sent + 1..L
        <3> HIDE DEF sent, L
        <3> QED
            BY <1>4
    <2> HIDE DEF sent, L
    <2> QED
        BY <2>1, <2>2, <2>3, <2>4
<1> HIDE DEF sent, L
\* Either way it holds everything that is not covered, and no more than before.
<1>8. /\ \A i \in sent + 1..L : \E j \in DOMAIN spool'[a] : spool'[a][j] = spool[a][i]
      /\ \A j \in DOMAIN spool'[a] : \E i \in DOMAIN spool[a] :
            /\ spool'[a][j] = spool[a][i]
            /\ repeats' = repeats => i \in sent + 1..L
      /\ \A i, j \in DOMAIN spool'[a] : spool'[a][i] = spool'[a][j] => i = j
    <2>1. \A i, j \in DOMAIN spool[a] : spool[a][i] = spool[a][j] => i = j
        BY <1>2 DEF AgentInv
    <2>2. CASE spool'[a] = spool[a] /\ (sent = 0 \/ repeats' = repeats + 1)
        <3>1. \A i \in sent + 1..L : i \in DOMAIN spool[a]
            BY <1>4
        <3>2. repeats' = repeats => \A i \in DOMAIN spool[a] : i \in sent + 1..L
            BY <1>4, <2>2
        <3> QED
            BY <2>1, <2>2, <3>1, <3>2
    <2>3. CASE spool'[a] = Remainder(a) /\ repeats' = repeats
        <3>1. ASSUME NEW i \in sent + 1..L
              PROVE  \E j \in DOMAIN spool'[a] : spool'[a][j] = spool[a][i]
            <4>1. i - sent \in 1..L - sent /\ sent + (i - sent) = i
                BY <1>4
            <4> QED
                BY <1>7, <2>3, <4>1
        <3>2. ASSUME NEW j \in DOMAIN spool'[a]
              PROVE  \E i \in DOMAIN spool[a] : spool'[a][j] = spool[a][i] /\ i \in sent + 1..L
            <4>1. j \in 1..L - sent
                BY <1>7, <2>3
            <4>2. spool'[a][j] = spool[a][sent + j] /\ sent + j \in sent + 1..L
                BY <1>7, <2>3, <4>1
            <4>3. sent + j \in DOMAIN spool[a]
                BY <1>4, <4>2
            <4> QED
                BY <4>2, <4>3
        <3>3. ASSUME NEW i \in DOMAIN spool'[a], NEW j \in DOMAIN spool'[a],
                     spool'[a][i] = spool'[a][j]
              PROVE  i = j
            <4>1. i \in 1..L - sent /\ j \in 1..L - sent
                BY <1>7, <2>3
            <4>2. /\ spool'[a][i] = spool[a][sent + i] /\ sent + i \in sent + 1..L
                  /\ spool'[a][j] = spool[a][sent + j] /\ sent + j \in sent + 1..L
                BY <1>7, <2>3, <4>1
            <4>3. sent + i \in DOMAIN spool[a] /\ sent + j \in DOMAIN spool[a]
                BY <1>4, <4>2
            <4>4. sent + i = sent + j
                BY <2>1, <3>3, <4>2, <4>3
            <4> QED
                BY <1>4, <4>1, <4>4
        <3> QED
            BY <3>1, <3>2, <3>3
    <2> QED
        BY <1>5, <2>2, <2>3
<1>9. repeats' \in Nat /\ repeats <= repeats'
    BY <1>4, <1>6
<1>10. AgentInv(a)'
    <2>1. ASSUME NEW j \in DOMAIN spool'[a]
          PROVE  /\ spool'[a][j].agent = a /\ spool'[a][j] \in taken'
                 /\ spool'[a][j] \notin job'[a].fresh
        <3>1. PICK i \in DOMAIN spool[a] : spool'[a][j] = spool[a][i]
            BY <1>8
        <3> QED
            BY <1>1, <1>2, <1>3, <3>1 DEF AgentInv
    <2>2. ASSUME NEW r \in Readings, r.agent = a
          PROVE  /\ recorded'[r] <= 1 + repeats'
                 /\ r \in Unsent(a)' => recorded'[r] <= repeats'
                 /\ recorded'[r] > 0 => r \in taken'
        <3>1. /\ recorded[r] <= 1 + repeats
              /\ r \in Unsent(a) => recorded[r] <= repeats
              /\ recorded[r] > 0 => r \in taken
              /\ recorded[r] \in Nat /\ recorded' = recorded /\ taken' = taken
            BY <1>1, <1>2, <1>4, <2>2 DEF AgentInv
        <3>2. repeats' = repeats /\ r \in Unsent(a)' => r \in Unsent(a)
            <4>1. r \in Unsent(a)' =>
                     r \in job[a].fresh \/ \E j \in DOMAIN spool'[a] : spool'[a][j] = r
                <5>1. Len(spool'[a]) \in Nat /\ DOMAIN spool'[a] = 1..Len(spool'[a])
                    BY <1>4, <1>5, <1>7
                <5>2. \A j \in job'[a].sent + 1..Len(spool'[a]) : j \in DOMAIN spool'[a]
                    BY <1>3, <5>1
                <5> QED
                    BY <1>3, <5>2 DEF Unsent
            <4>2. repeats' = repeats =>
                     \A j \in DOMAIN spool'[a] : \E i \in sent + 1..L : spool'[a][j] = spool[a][i]
                BY <1>8
            <4> QED
                BY <4>1, <4>2 DEF Unsent, sent, L
        <3> HIDE DEF Unsent
        <3> QED
            BY <1>4, <1>6, <1>9, <3>1, <3>2
    <2>3. ASSUME NEW q \in taken', q.agent = a
          PROVE  q \in Recorded' \cup givenUp' \cup job'[a].fresh \cup Range(spool'[a])
        <3>1. q \in Recorded \cup givenUp \cup job[a].fresh \cup Range(spool[a])
            BY <1>1, <1>2, <2>3 DEF AgentInv
        <3>2. Recorded' = Recorded
            BY <1>1 DEF Recorded
        <3>3. CASE q \in Range(spool[a])
            <4>1. PICK i \in DOMAIN spool[a] : spool[a][i] = q
                BY <3>3 DEF Range
            <4>2. CASE i \in sent + 1..L
                BY <1>8, <4>1, <4>2 DEF Range
            <4>3. CASE i \notin sent + 1..L
                <5>1. i \in 1..job[a].sent
                    BY <1>4, <4>3 DEF sent
                <5> QED
                    BY <1>1, <1>2, <3>2, <4>1, <5>1 DEF AgentInv
            <4> QED
                BY <4>2, <4>3
        <3> QED
            BY <1>1, <1>3, <3>1, <3>2, <3>3
    <2>4. /\ job'[a].pc \in {"idle", "poll"} => job'[a].fresh = {}
          /\ job'[a].fresh = {} \/ \E r \in Readings : job'[a].fresh = {r}
          /\ \A r \in job'[a].fresh : r.agent = a /\ r \in taken'
          /\ \A i \in 1..job'[a].sent : spool'[a][i] \in Recorded' \cup givenUp'
        BY <1>1, <1>2, <1>3 DEF AgentInv
    <2> QED
        BY <1>3, <1>8, <2>1, <2>2, <2>3, <2>4 DEF AgentInv
<1>11. ASSUME NEW b \in Agents, b # a
       PROVE  AgentInv(b)'
    <2>1. job'[b] = job[b] /\ spool'[b] = spool[b] /\ AgentInv(b) /\ TypeOK
        BY <1>3, <1>6, <1>11 DEF KeptInv
    <2> QED
        BY <1>1, <1>9, <2>1, OtherKept
<1>12. spool'[a] \in Seq(Readings) /\ Len(spool'[a]) <= Len(spool[a])
    <2>1. Len(Remainder(a)) <= L
        BY <1>4, <1>7
    <2>2. L = Len(spool[a]) /\ L <= L
        BY <1>4 DEF L
    <2> QED
        BY <1>4, <1>5, <1>7, <2>1, <2>2
<1> QED
    BY <1>10, <1>11, <1>12

\* The cycle is over, by its push or by a crash: what the agent held is in the
\* table, givenUp or in the spool.
LEMMA IdleKept ==
    ASSUME TypeOK, NEW a \in Agents, AgentInv(a), job'[a] = Idle, taken' = taken,
           spool'[a] \in Seq(Readings),
           \A i, j \in DOMAIN spool'[a] : spool'[a][i] = spool'[a][j] => i = j,
           Range(spool'[a]) \subseteq Range(spool[a]) \cup job[a].fresh,
           \A r \in Readings : /\ recorded'[r] \in Nat
                               /\ recorded[r] <= recorded'[r] /\ recorded'[r] <= recorded[r] + 1
                               /\ recorded'[r] # recorded[r] => r \in job[a].fresh,
           repeats' = repeats \/ repeats' = repeats + 1,
           \A r \in Range(spool'[a]) :
              recorded'[r] # recorded[r] \/ r \notin Unsent(a) => repeats' = repeats + 1,
           \A r \in Range(spool[a]) \cup job[a].fresh :
              r \in Recorded' \cup givenUp' \cup Range(spool'[a]),
           givenUp \subseteq givenUp'
    PROVE  AgentInv(a)'
<1>1. job'[a].pc = "idle" /\ job'[a].fresh = {} /\ job'[a].sent = 0
    BY DEF Idle
<1>2. Recorded \subseteq Recorded'
    BY Typed DEF Recorded
<1>3. \A q \in Range(spool[a]) \cup job[a].fresh : q.agent = a /\ q \in taken
    BY DEF AgentInv, Range
<1>4. /\ Len(spool'[a]) \in Nat /\ DOMAIN spool'[a] = 1..Len(spool'[a])
      /\ \A i \in DOMAIN spool'[a] : spool'[a][i] \in Range(spool'[a])
    <2> HIDE DEF Readings, Agents
    <2> QED
        BY DEF Range
<1>5. Unsent(a)' \subseteq Range(spool'[a])
    <2>1. Unsent(a)' = {spool'[a][i] : i \in 0 + 1..Len(spool'[a])}
        BY <1>1 DEF Unsent
    <2>2. \A i \in 0 + 1..Len(spool'[a]) : i \in DOMAIN spool'[a]
        BY <1>4
    <2> QED
        BY <1>4, <2>1, <2>2
<1>6. ASSUME NEW r \in Readings, r.agent = a
      PROVE  /\ recorded'[r] <= 1 + repeats'
             /\ r \in Unsent(a)' => recorded'[r] <= repeats'
             /\ recorded'[r] > 0 => r \in taken'
    <2>1. /\ recorded[r] <= 1 + repeats
          /\ r \in Unsent(a) => recorded[r] <= repeats
          /\ recorded[r] > 0 => r \in taken
          /\ recorded[r] \in Nat /\ repeats \in Nat
        BY <1>6, Typed DEF AgentInv
    <2>2. recorded'[r] # recorded[r] => r \in Unsent(a) /\ r \in taken
        BY <1>3 DEF Unsent
    <2>3. r \in Unsent(a)' => r \in Range(spool'[a])
        BY <1>5
    <2> HIDE DEF Unsent
    <2>4. /\ recorded'[r] \in Nat
          /\ recorded[r] <= recorded'[r] /\ recorded'[r] <= recorded[r] + 1
        OBVIOUS
    <2>5. r \in Unsent(a)' /\ (recorded'[r] # recorded[r] \/ r \notin Unsent(a))
             => repeats' = repeats + 1
        BY <2>3
    <2> QED
        BY <2>1, <2>2, <2>4, <2>5
<1>7. \A q \in taken' : q.agent = a =>
         q \in Recorded' \cup givenUp' \cup job'[a].fresh \cup Range(spool'[a])
    <2> TAKE q \in taken'
    <2>1. q.agent = a => q \in Recorded \cup givenUp \cup job[a].fresh \cup Range(spool[a])
        BY DEF AgentInv
    <2> QED
        BY <1>2, <2>1
<1>8. \A i \in DOMAIN spool'[a] : spool'[a][i].agent = a /\ spool'[a][i] \in taken'
    BY <1>3, <1>4
<1>9. \A i \in 1..job'[a].sent : spool'[a][i] \in Recorded' \cup givenUp'
    BY <1>1
<1>10. \A i \in DOMAIN spool'[a] : spool'[a][i] \notin job'[a].fresh
    BY <1>1
<1>11. \A r \in job'[a].fresh : r.agent = a /\ r \in taken'
    BY <1>1
<1> HIDE DEF Readings, Agents
<1> QED
    BY <1>1, <1>6, <1>7, <1>8, <1>9, <1>10, <1>11 DEF AgentInv

\* The push of the cycle's own reading, whatever becomes of it.
LEMMA PushKept ==
    ASSUME KeptInv, NEW a \in Agents,
           \/ Push(a) \/ PushFails(a) \/ PushUnheard(a) \/ AppendFails(a)
           \/ AppendUnread(a) \/ PushGarbled(a)
    PROVE  /\ \A b \in Agents : AgentInv(b)'
           /\ spool'[a] \in Seq(Readings) /\ Len(spool'[a]) <= SpoolMax
<1> DEFINE F     == job[a].fresh
           batch == SetToSeq(F)
           after == Appended(spool[a], batch)
           alone == Appended(<<>>, batch)
<1>1. job[a].pc = "push" /\ taken' = taken /\ job' = [job EXCEPT ![a] = Idle]
    BY DEF Push, PushFails, PushUnheard, AppendFails, AppendUnread, PushGarbled, SpoolFresh
<1>2. TypeOK /\ TakenInv /\ AgentInv(a) /\ job \in [Agents -> Jobs] /\ spool \in [Agents -> Seq(Readings)]
    BY DEF KeptInv, TypeOK
<1>3. job'[a] = Idle /\ \A b \in Agents : b # a => job'[b] = job[b]
    <2> HIDE DEF Agents
    <2> QED
        BY <1>1, <1>2
<1>4. /\ job[a].sent = 0
      /\ \A r \in F : r.agent = a /\ r.ts <= now
      /\ \A i, j \in DOMAIN spool[a] : spool[a][i] = spool[a][j] => i = j
      /\ \A i \in DOMAIN spool[a] : spool[a][i] \notin F
    BY <1>1, <1>2 DEF AgentInv, TakenInv
<1>5. /\ spool[a] \in Seq(Readings) /\ Len(spool[a]) \in Nat /\ DOMAIN spool[a] = 1..Len(spool[a])
      /\ F \in SUBSET Readings /\ SpoolMax \in Nat \ {0} /\ Len(spool[a]) <= SpoolMax
      /\ repeats \in Nat
      /\ \A r \in Readings : recorded[r] \in Nat
    BY <1>2, Typed
<1>6. /\ batch \in Seq(Readings) /\ Range(batch) = F
      /\ \A i, j \in DOMAIN batch : batch[i] = batch[j] => i = j
      /\ \A i \in DOMAIN batch : batch[i] \in F
    BY <1>2, FreshListed
<1>7. Unsent(a) = F \cup Range(spool[a])
    <2>1. job[a].sent + 1..Len(spool[a]) = DOMAIN spool[a]
        BY <1>4, <1>5
    <2> QED
        BY <2>1 DEF Unsent, Range
<1> HIDE DEF F, batch
\* If central committed it ...
<1>8. ASSUME PostReadings(batch), Refused(batch) \subseteq givenUp'
      PROVE  /\ \A r \in Readings : /\ recorded'[r] \in Nat
                                    /\ recorded[r] <= recorded'[r] /\ recorded'[r] <= recorded[r] + 1
                                    /\ recorded'[r] # recorded[r] => r \in F
             /\ \A r \in F : r \in Recorded' \cup givenUp'
    <2>1. \A i \in DOMAIN batch : batch[i].ts <= now
        BY <1>4, <1>6
    <2>2. /\ recorded' \in [Readings -> Nat]
          /\ \A r \in Readings : recorded[r] <= recorded'[r] /\ recorded'[r] <= recorded[r] + 1
          /\ \A r \in Readings : recorded'[r] # recorded[r] => \E i \in DOMAIN batch : batch[i] = r
          /\ \A i \in DOMAIN batch : recorded'[batch[i]] > 0 \/ batch[i] \in Refused(batch)
        BY <1>2, <1>6, <1>8, <2>1, Posted
    <2>3. \A r \in F : \E i \in DOMAIN batch : batch[i] = r
        BY <1>6 DEF Range
    <2>4. \A r \in F : recorded'[r] > 0 \/ r \in Refused(batch)
        BY <2>2, <2>3
    <2>5. \A r \in F : r \in Recorded' \cup givenUp'
        BY <1>5, <1>8, <2>4 DEF Recorded
    <2> HIDE DEF Readings
    <2>6. \A r \in Readings : recorded'[r] \in Nat
        BY <2>2
    <2>7. \A r \in Readings : recorded'[r] # recorded[r] => r \in F
        BY <1>6, <2>2
    <2> QED
        BY <2>2, <2>5, <2>6, <2>7
\* ... and if it went to the spool.
<1>9. /\ after \in Seq(Readings) /\ Len(after) <= SpoolMax
      /\ \A i, j \in DOMAIN after : after[i] = after[j] => i = j
      /\ Range(after) \subseteq Range(spool[a]) \cup F
      /\ Range(spool[a]) \cup F \subseteq Range(after) \cup Overflow(a)
    <2>1. \A i \in DOMAIN spool[a], j \in DOMAIN batch : spool[a][i] # batch[j]
        BY <1>4, <1>6
    <2>2. /\ after \in Seq(Readings) /\ Len(after) <= SpoolMax
          /\ \A i, j \in DOMAIN after : after[i] = after[j] => i = j
          /\ Range(after) \subseteq Range(spool[a]) \cup Range(batch)
        BY <1>4, <1>5, <1>6, <2>1, AppendedFacts
    <2>3. Range(spool[a]) \cup F \subseteq Range(after) \cup Overflow(a)
        BY DEF Overflow, F, batch
    <2> HIDE DEF after
    <2> QED
        BY <1>6, <2>2, <2>3
\* ... with an old spool that could not be read.
<1>17. /\ alone \in Seq(Readings) /\ Len(alone) <= SpoolMax
       /\ \A i, j \in DOMAIN alone : alone[i] = alone[j] => i = j
       /\ Range(alone) \subseteq F
    <2>1. <<>> \in Seq(Readings) /\ DOMAIN <<>> = {} /\ Range(<<>>) = {}
        <3> HIDE DEF Readings
        <3> QED
            BY DEF Range
    <2>2. /\ alone \in Seq(Readings) /\ Len(alone) <= SpoolMax
          /\ \A i, j \in DOMAIN alone : alone[i] = alone[j] => i = j
          /\ Range(alone) \subseteq Range(<<>>) \cup Range(batch)
        BY <1>5, <1>6, <2>1, AppendedFacts
    <2> HIDE DEF alone
    <2> QED
        BY <1>6, <2>1, <2>2
<1>10. /\ \A b \in Agents : b # a => spool'[b] = spool[b]
       /\ givenUp \subseteq givenUp'
       /\ \/ spool'[a] = spool[a] /\ repeats' = repeats
             /\ PostReadings(batch) /\ Refused(batch) \subseteq givenUp'
          \/ spool'[a] = spool[a] /\ repeats' = repeats /\ recorded' = recorded /\ F \subseteq givenUp'
          \/ spool'[a] = after /\ repeats' = repeats /\ recorded' = recorded
             /\ Overflow(a) \subseteq givenUp'
          \/ spool'[a] = after /\ repeats' = repeats + 1
             /\ PostReadings(batch) /\ Refused(batch) \cup Overflow(a) \subseteq givenUp'
          \/ spool'[a] = alone /\ repeats' = repeats /\ recorded' = recorded
             /\ (Range(spool[a]) \cup F) \ Range(alone) \subseteq givenUp'
          \/ spool'[a] = alone /\ repeats' = repeats + 1 /\ PostReadings(batch)
             /\ Refused(batch) \cup ((Range(spool[a]) \cup F) \ Range(alone)) \subseteq givenUp'
    <2>1. CASE Push(a)
        BY <2>1 DEF Push, batch, F
    <2>2. CASE AppendFails(a)
        BY <2>2 DEF AppendFails, F, centralVars
    <2>3. CASE PushFails(a)
        <3>1. /\ spool' = [spool EXCEPT ![a] = after] /\ repeats' = repeats /\ recorded' = recorded
              /\ givenUp' = givenUp \cup Overflow(a)
            BY <2>3 DEF PushFails, SpoolFresh, batch, F, centralVars
        <3> HIDE DEF after, Agents
        <3> QED
            BY <1>2, <3>1
    <2>4. CASE PushUnheard(a)
        <3>1. /\ spool' = [spool EXCEPT ![a] = after] /\ repeats' = repeats + 1
              /\ PostReadings(batch)
              /\ givenUp' = givenUp \cup Refused(batch) \cup Overflow(a)
            BY <2>4 DEF PushUnheard, SpoolFresh, batch, F
        <3> HIDE DEF after, Agents
        <3> QED
            BY <1>2, <3>1
    <2>5. CASE PushGarbled(a)
        BY <2>5 DEF PushGarbled, F, centralVars
    <2>6. CASE AppendUnread(a)
        <3>1. /\ spool' = [spool EXCEPT ![a] = alone]
              /\ \/ /\ repeats' = repeats /\ recorded' = recorded
                    /\ givenUp' = givenUp \cup ((Range(spool[a]) \cup F) \ Range(alone))
                 \/ /\ repeats' = repeats + 1 /\ PostReadings(batch)
                    /\ givenUp' = givenUp \cup Refused(batch) \cup
                                     ((Range(spool[a]) \cup F) \ Range(alone))
            BY <2>6 DEF AppendUnread, batch, F, centralVars
        <3> HIDE DEF alone, Agents
        <3> QED
            BY <1>2, <3>1
    <2> QED
        BY <2>1, <2>2, <2>3, <2>4, <2>5, <2>6
<1> HIDE DEF after, alone
<1>11. \A r \in Readings : /\ recorded'[r] \in Nat
                           /\ recorded[r] <= recorded'[r] /\ recorded'[r] <= recorded[r] + 1
                           /\ recorded'[r] # recorded[r] => r \in F
    <2>1. \/ recorded' = recorded
          \/ PostReadings(batch) /\ Refused(batch) \subseteq givenUp'
        BY <1>10
    <2> QED
        BY <1>5, <1>8, <2>1
<1>12. /\ spool'[a] \in Seq(Readings) /\ Len(spool'[a]) <= SpoolMax
       /\ \A i, j \in DOMAIN spool'[a] : spool'[a][i] = spool'[a][j] => i = j
       /\ Range(spool'[a]) \subseteq Range(spool[a]) \cup F
    <2>1. spool'[a] = spool[a] \/ spool'[a] = after \/ spool'[a] = alone
        BY <1>10
    <2> QED
        BY <1>4, <1>5, <1>9, <1>17, <2>1
<1>13. \A r \in Range(spool[a]) \cup F : r \in Recorded' \cup givenUp' \cup Range(spool'[a])
    BY <1>8, <1>9, <1>10
<1>14. \A r \in Range(spool'[a]) :
          recorded'[r] # recorded[r] \/ r \notin Unsent(a) => repeats' = repeats + 1
    <2> TAKE r \in Range(spool'[a])
    <2>1. r \in Unsent(a) /\ r \in Readings
        BY <1>5, <1>7, <1>12 DEF Range
    <2>2. CASE spool'[a] = spool[a]
        <3>1. r \notin F
            BY <1>4, <2>2 DEF Range
        <3> QED
            BY <1>11, <2>1, <3>1
    <2>3. CASE repeats' = repeats /\ recorded' = recorded
        BY <2>1, <2>3
    <2> QED
        BY <1>10, <2>1, <2>2, <2>3
<1>15. AgentInv(a)'
    BY <1>1, <1>2, <1>3, <1>10, <1>11, <1>12, <1>13, <1>14, IdleKept DEF F
<1>16. ASSUME NEW b \in Agents, b # a
       PROVE  AgentInv(b)'
    <2>1. \A r \in Readings : r.agent = b => recorded'[r] = recorded[r]
        BY <1>4, <1>11, <1>16
    <2>2. repeats' \in Nat /\ repeats <= repeats'
        BY <1>5, <1>10
    <2>3. job'[b] = job[b] /\ spool'[b] = spool[b] /\ AgentInv(b) /\ TypeOK
        BY <1>3, <1>10, <1>16 DEF KeptInv
    <2> QED
        BY <1>1, <1>10, <2>1, <2>2, <2>3, OtherKept
<1> QED
    BY <1>12, <1>15, <1>16

\* A crash: what was in memory is givenUp, what is in the file stays.
LEMMA CrashKept ==
    ASSUME KeptInv, NEW a \in Agents, CrashAgent(a)
    PROVE  \A b \in Agents : AgentInv(b)'
<1>1. /\ job' = [job EXCEPT ![a] = Idle] /\ givenUp' = givenUp \cup job[a].fresh
      /\ repeats' = repeats + 1 /\ UNCHANGED <<spool, recorded, taken>>
    BY DEF CrashAgent, centralVars
<1>2. TypeOK /\ AgentInv(a) /\ job \in [Agents -> Jobs]
    BY DEF KeptInv, TypeOK
<1>3. job'[a] = Idle /\ \A b \in Agents : b # a => job'[b] = job[b]
    <2> HIDE DEF Agents
    <2> QED
        BY <1>1, <1>2
<1>4. /\ spool[a] \in Seq(Readings) /\ repeats \in Nat
      /\ \A r \in Readings : recorded[r] \in Nat
      /\ \A i, j \in DOMAIN spool[a] : spool[a][i] = spool[a][j] => i = j
    BY <1>2, Typed DEF AgentInv
<1>5. AgentInv(a)'
    BY <1>1, <1>2, <1>3, <1>4, IdleKept
<1>6. ASSUME NEW b \in Agents, b # a
      PROVE  AgentInv(b)'
    <2>1. job'[b] = job[b] /\ AgentInv(b) /\ TypeOK /\ repeats' \in Nat /\ repeats <= repeats'
        BY <1>1, <1>3, <1>4, <1>6 DEF KeptInv
    <2> QED
        BY <1>1, <2>1, OtherKept
<1> QED
    BY <1>5, <1>6

\* A garbled answer: the cycle's own reading is given up, the replay is over.
LEMMA GarbledKept ==
    ASSUME KeptInv, NEW a \in Agents, DrainGarbled(a)
    PROVE  \A b \in Agents : AgentInv(b)'
<1>1. /\ job' = [job EXCEPT ![a].pc = "rewrite", ![a].fresh = {}]
      /\ givenUp' = givenUp \cup job[a].fresh
      /\ UNCHANGED <<spool, recorded, taken, repeats>>
    BY DEF DrainGarbled, centralVars
<1>2. TypeOK /\ AgentInv(a) /\ job \in [Agents -> Jobs] /\ repeats \in Nat
    BY DEF KeptInv, TypeOK
<1>3. /\ job'[a].pc = "rewrite" /\ job'[a].fresh = {} /\ job'[a].sent = job[a].sent
      /\ \A b \in Agents : b # a => job'[b] = job[b]
    <2> HIDE DEF Agents
    <2> QED
        BY <1>1, <1>2 DEF Jobs
<1>4. Recorded' = Recorded /\ givenUp \subseteq givenUp'
    BY <1>1 DEF Recorded
<1>5. \A r : r \in Unsent(a)' => r \in Unsent(a)
    BY <1>1, <1>3 DEF Unsent
<1>6. AgentInv(a)'
    <2>1. \A r \in Readings : r.agent = a =>
             /\ recorded'[r] <= 1 + repeats'
             /\ r \in Unsent(a)' => recorded'[r] <= repeats'
             /\ recorded'[r] > 0 => r \in taken'
        <3> HIDE DEF Unsent
        <3> QED
            BY <1>1, <1>2, <1>5 DEF AgentInv
    <2>2. \A r \in taken' : r.agent = a =>
             r \in Recorded' \cup givenUp' \cup job'[a].fresh \cup Range(spool'[a])
        BY <1>1, <1>2, <1>4 DEF AgentInv
    <2>3. /\ \A i \in DOMAIN spool'[a] : spool'[a][i].agent = a /\ spool'[a][i] \in taken'
          /\ \A i, j \in DOMAIN spool'[a] : spool'[a][i] = spool'[a][j] => i = j
          /\ \A i \in 1..job'[a].sent : spool'[a][i] \in Recorded' \cup givenUp'
        BY <1>1, <1>2, <1>3, <1>4 DEF AgentInv
    <2> QED
        BY <1>3, <2>1, <2>2, <2>3 DEF AgentInv
<1>7. ASSUME NEW b \in Agents, b # a
      PROVE  AgentInv(b)'
    <2>1. job'[b] = job[b] /\ AgentInv(b) /\ TypeOK /\ repeats' \in Nat /\ repeats <= repeats'
        BY <1>1, <1>2, <1>3, <1>7 DEF KeptInv
    <2> QED
        BY <1>1, <1>4, <2>1, OtherKept
<1> QED
    BY <1>6, <1>7

\* The cycle's other steps change the phase alone.
LEMMA PhaseKept ==
    ASSUME KeptInv, NEW a \in Agents, StartDrain(a) \/ StartPoll(a) \/ PollFails(a)
    PROVE  \A b \in Agents : AgentInv(b)'
<1>1. UNCHANGED <<spool, recorded, taken, givenUp, repeats>>
    BY DEF StartDrain, StartPoll, PollFails, centralVars, historyVars
<1>2. TypeOK /\ AgentInv(a) /\ job \in [Agents -> Jobs] /\ repeats \in Nat
    BY DEF KeptInv, TypeOK
<1>3. /\ job[a].pc \in {"idle", "poll"}
      /\ \/ job' = [job EXCEPT ![a].pc = "drain"]
         \/ job' = [job EXCEPT ![a].pc = "poll"]
    BY DEF StartDrain, StartPoll, PollFails
<1>4. /\ job'[a].fresh = job[a].fresh /\ job'[a].sent = job[a].sent
      /\ \A b \in Agents : b # a => job'[b] = job[b]
    <2> HIDE DEF Agents
    <2> QED
        BY <1>2, <1>3 DEF Jobs
<1>5. job[a].fresh = {} /\ job[a].sent = 0
    BY <1>2, <1>3 DEF AgentInv
<1>6. repeats' \in Nat /\ repeats <= repeats'
    BY <1>1, <1>2
<1>7. AgentInv(a)'
    BY <1>1, <1>2, <1>4, <1>5, <1>6, HoldingsKept
<1>8. ASSUME NEW b \in Agents, b # a
      PROVE  AgentInv(b)'
    <2>1. job'[b] = job[b] /\ AgentInv(b) /\ TypeOK
        BY <1>4, <1>8 DEF KeptInv
    <2> QED
        BY <1>1, <1>6, <2>1, OtherKept
<1> QED
    BY <1>7, <1>8

-----------------------------------------------------------------------------
(* Type correctness, a step at a time.                                     *)

\* What an agent is doing and what it holds.
HoldingsTyped ==
    /\ job \in [Agents -> Jobs] /\ spool \in [Agents -> Seq(Readings)]
    /\ \A a \in Agents : job[a].sent <= Len(spool[a]) /\ Len(spool[a]) <= SpoolMax

\* What central has of the printer.
TableTyped ==
    /\ recorded \in [Readings -> Nat]
    /\ lastSeen \in 1..now /\ heard \in 1..now
    /\ status \in {"ok", "offline"}
    /\ taken \subseteq Readings /\ givenUp \subseteq Readings /\ untold \subseteq Readings
    /\ repeats \in Nat

\* The clock, the lease row and what the agents know of it.
LeaseTyped ==
    /\ now \in 1..MaxTime
    /\ link \subseteq Agents
    /\ collector \in Agents \cup {None} /\ prevAgent \in Agents \cup {None}
    /\ expires \in Nat /\ prevUntil \in Nat
    /\ until \in [Agents -> Nat]
    /\ cached \subseteq Agents
    /\ entitled \subseteq Agents \X Nat

LEMMA TypeParts == TypeOK <=> HoldingsTyped /\ TableTyped /\ LeaseTyped
BY DEF TypeOK, HoldingsTyped, TableTyped, LeaseTyped

\* The agent's own steps keep its holdings typed.
LEMMA PhaseTyped ==
    ASSUME KeptInv, NEW a \in Agents,
           \/ StartDrain(a) \/ StartPoll(a) \/ PollFails(a) \/ TakeReading(a) \/ CrashAgent(a)
           \/ SendBatch(a) \/ SendBatchUnheard(a) \/ DrainGarbled(a)
    PROVE  HoldingsTyped'
<1>1. /\ job \in [Agents -> Jobs] /\ spool \in [Agents -> Seq(Readings)]
      /\ \A b \in Agents : job[b].sent <= Len(spool[b]) /\ Len(spool[b]) <= SpoolMax
      /\ job[a] \in Jobs /\ TypeOK
    BY DEF KeptInv, TypeOK
<1>2. spool' = spool
    BY DEF StartDrain, StartPoll, PollFails, TakeReading, CrashAgent, SendBatch, SendBatchUnheard,
           DrainGarbled, centralVars
<1>3. ASSUME NEW q \in Jobs, job' = [job EXCEPT ![a] = q], q.sent <= Len(spool[a])
      PROVE  HoldingsTyped'
    <2> HIDE DEF Agents, Jobs, Readings
    <2>1. job' \in [Agents -> Jobs]
        BY <1>1, <1>3
    <2>2. \A b \in Agents : job'[b].sent <= Len(spool[b])
        BY <1>1, <1>3
    <2> QED
        BY <1>1, <1>2, <2>1, <2>2 DEF HoldingsTyped
<1>4. /\ job[a].sent \in Nat /\ Len(spool[a]) \in Nat /\ job[a].fresh \in SUBSET Readings
      /\ job[a].sent <= Len(spool[a])
    BY <1>1, Typed
<1>5. CASE StartDrain(a) \/ StartPoll(a) \/ PollFails(a) \/ SendBatchUnheard(a)
    <2>1. PICK p \in {"poll", "drain", "rewrite"} : job' = [job EXCEPT ![a].pc = p]
        BY <1>5 DEF StartDrain, StartPoll, PollFails, SendBatchUnheard
    <2> DEFINE q == [job[a] EXCEPT !.pc = p]
    <2>2. q \in Jobs /\ q.sent = job[a].sent
        BY <1>1 DEF Jobs
    <2>3. job' = [job EXCEPT ![a] = q]
        BY <2>1
    <2> HIDE DEF q
    <2> QED
        BY <1>3, <1>4, <2>2, <2>3
<1>6. CASE TakeReading(a)
    <2> DEFINE r == Reading(a, now)
               q == [job[a] EXCEPT !.pc = "drain", !.fresh = {r}]
    <2>1. job' = [job EXCEPT ![a].pc = "drain", ![a].fresh = {r}]
        BY <1>6 DEF TakeReading
    <2>2. r \in Readings
        BY <1>1 DEF Reading, Readings, TypeOK
    <2> HIDE DEF r
    <2>3. q \in Jobs /\ q.sent = job[a].sent
        BY <1>1, <2>2 DEF Jobs
    <2>4. job' = [job EXCEPT ![a] = q]
        <3> HIDE DEF Agents
        <3> QED
            BY <1>1, <2>1
    <2> HIDE DEF q
    <2> QED
        BY <1>3, <1>4, <2>3, <2>4
<1>7. CASE CrashAgent(a)
    <2>1. job' = [job EXCEPT ![a] = Idle]
        BY <1>7 DEF CrashAgent
    <2>2. Idle \in Jobs /\ Idle.sent <= Len(spool[a])
        BY <1>4 DEF Idle, Jobs
    <2> QED
        BY <1>3, <2>1, <2>2
<1>8. CASE SendBatch(a)
    <2> DEFINE k == Len(Batch(a))
               q == [job[a] EXCEPT !.sent = job[a].sent + k]
    <2>1. job' = [job EXCEPT ![a].sent = @ + k] /\ job[a].sent < Len(spool[a])
        BY <1>8 DEF SendBatch
    <2>2. k \in 1..Len(spool[a]) - job[a].sent
        BY <2>1, BatchFacts
    <2> HIDE DEF k
    <2>3. job[a].sent + k \in Nat /\ job[a].sent + k <= Len(spool[a])
        BY <1>4, <2>2
    <2>4. q \in Jobs /\ q.sent = job[a].sent + k
        BY <1>1, <2>3 DEF Jobs
    <2>5. job' = [job EXCEPT ![a] = q]
        BY <2>1
    <2> HIDE DEF q
    <2> QED
        BY <1>3, <2>3, <2>4, <2>5
<1>9. CASE DrainGarbled(a)
    <2> DEFINE q == [job[a] EXCEPT !.pc = "rewrite", !.fresh = {}]
    <2>1. job' = [job EXCEPT ![a].pc = "rewrite", ![a].fresh = {}]
        BY <1>9 DEF DrainGarbled
    <2>2. q \in Jobs /\ q.sent = job[a].sent
        BY <1>1 DEF Jobs
    <2>3. job' = [job EXCEPT ![a] = q]
        <3> HIDE DEF Agents
        <3> QED
            BY <1>1, <2>1
    <2> HIDE DEF q
    <2> QED
        BY <1>3, <1>4, <2>2, <2>3
<1> QED
    BY <1>5, <1>6, <1>7, <1>8, <1>9

LEMMA SpoolTyped ==
    ASSUME KeptInv, NEW a \in Agents,
           \/ EndDrain(a) \/ RewriteFails(a) \/ DrainUnread(a)
           \/ Push(a) \/ PushFails(a) \/ PushUnheard(a) \/ AppendFails(a)
           \/ AppendUnread(a) \/ PushGarbled(a)
    PROVE  HoldingsTyped'
<1>1. /\ job \in [Agents -> Jobs] /\ spool \in [Agents -> Seq(Readings)]
      /\ \A b \in Agents : job[b].sent <= Len(spool[b]) /\ Len(spool[b]) <= SpoolMax
      /\ job[a] \in Jobs /\ TypeOK
    BY DEF KeptInv, TypeOK
<1>2. PICK s : s = spool'[a]
    OBVIOUS
<1>3. Len(spool[a]) \in Nat /\ SpoolMax \in Nat
    BY <1>1, Typed
<1>4. s \in Seq(Readings) /\ Len(s) <= SpoolMax
    <2>1. CASE EndDrain(a) \/ RewriteFails(a) \/ DrainUnread(a)
        <3>1. s \in Seq(Readings) /\ Len(s) <= Len(spool[a])
            BY <1>2, <2>1, DrainKept
        <3>2. Len(s) \in Nat
            BY <3>1
        <3> HIDE DEF Readings
        <3> QED
            BY <1>1, <1>3, <3>1, <3>2
    <2>2. CASE \/ Push(a) \/ PushFails(a) \/ PushUnheard(a) \/ AppendFails(a)
               \/ AppendUnread(a) \/ PushGarbled(a)
        BY <1>2, <2>2, PushKept
    <2> QED
        BY <2>1, <2>2
<1>5. spool' = [spool EXCEPT ![a] = s]
    <2>1. spool' = spool \/ \E t : spool' = [spool EXCEPT ![a] = t]
        BY DEF EndDrain, RewriteFails, DrainUnread, Push, PushFails, PushUnheard, AppendFails,
               AppendUnread, PushGarbled, SpoolFresh, historyVars
    <2> HIDE DEF Agents
    <2> QED
        BY <1>1, <1>2, <2>1
<1>6. PICK q \in Jobs : job' = [job EXCEPT ![a] = q] /\ q.sent = 0
    <2>1. CASE EndDrain(a) \/ RewriteFails(a) \/ DrainUnread(a)
        <3> DEFINE p == IF job[a].fresh = {} THEN "idle" ELSE "push"
                   q == [job[a] EXCEPT !.sent = 0, !.pc = p]
        <3>1. job' = [job EXCEPT ![a].sent = 0, ![a].pc = p] /\ p \in {"idle", "push"}
            BY <2>1 DEF EndDrain, RewriteFails, DrainUnread
        <3> HIDE DEF p
        <3>2. q \in Jobs /\ q.sent = 0
            BY <1>1, <3>1 DEF Jobs
        <3>3. job' = [job EXCEPT ![a] = q]
            <4> HIDE DEF Agents
            <4> QED
                BY <1>1, <3>1
        <3> HIDE DEF q
        <3> QED
            BY <3>2, <3>3
    <2>2. CASE \/ Push(a) \/ PushFails(a) \/ PushUnheard(a) \/ AppendFails(a)
               \/ AppendUnread(a) \/ PushGarbled(a)
        <3>1. job' = [job EXCEPT ![a] = Idle]
            BY <2>2 DEF Push, PushFails, PushUnheard, AppendFails, AppendUnread, PushGarbled, SpoolFresh
        <3>2. Idle \in Jobs /\ Idle.sent = 0
            BY DEF Idle, Jobs
        <3> QED
            BY <3>1, <3>2
    <2> QED
        BY <2>1, <2>2
<1>7. Len(s) \in Nat
    <2> HIDE DEF Readings
    <2> QED
        BY <1>4
<1> HIDE DEF Agents, Jobs, Readings
<1>8. job' \in [Agents -> Jobs] /\ spool' \in [Agents -> Seq(Readings)]
    BY <1>1, <1>4, <1>5, <1>6
<1>9. ASSUME NEW b \in Agents
      PROVE  job'[b].sent <= Len(spool'[b]) /\ Len(spool'[b]) <= SpoolMax
    <2>1. CASE b = a
        <3>1. job'[b] = q /\ spool'[b] = s
            BY <1>1, <1>5, <1>6, <2>1
        <3>2. q.sent <= Len(s)
            BY <1>6, <1>7
        <3> QED
            BY <1>4, <3>1, <3>2
    <2>2. CASE b # a
        BY <1>1, <1>5, <1>6, <2>2
    <2> QED
        BY <2>1, <2>2
<1> QED
    BY <1>8, <1>9 DEF HoldingsTyped

LEMMA PostTyped ==
    ASSUME KeptInv, NEW a \in Agents,
           \/ SendBatch(a) \/ SendBatchUnheard(a) \/ Push(a) \/ PushUnheard(a)
           \/ (AppendUnread(a) /\ Up(a))
    PROVE  TableTyped'
<1>1. TypeOK /\ AgentInv(a) /\ TakenInv /\ TableTyped
    BY TypeParts DEF KeptInv
<1>2. now' = now /\ taken' = taken /\ (repeats' = repeats \/ repeats' = repeats + 1)
    BY DEF SendBatch, SendBatchUnheard, Push, PushUnheard, AppendUnread
<1>3. PICK batch \in Seq(Readings) :
         /\ PostReadings(batch)
         /\ \A i, j \in DOMAIN batch : batch[i] = batch[j] => i = j
         /\ \A i \in DOMAIN batch : batch[i].ts <= now
         /\ givenUp' \subseteq givenUp \cup Refused(batch) \cup job[a].fresh \cup Range(spool[a])
    <2>1. CASE SendBatch(a) \/ SendBatchUnheard(a)
        <3>1. /\ PostReadings(Batch(a)) /\ givenUp' = givenUp \cup Refused(Batch(a))
              /\ job[a].sent < Len(spool[a])
            BY <2>1 DEF SendBatch, SendBatchUnheard
        <3>2. /\ Batch(a) \in Seq(Readings)
              /\ \A i, j \in DOMAIN Batch(a) : Batch(a)[i] = Batch(a)[j] => i = j
              /\ \A i \in DOMAIN Batch(a) : Batch(a)[i].ts <= now
            BY <3>1, BatchFacts
        <3> QED
            BY <3>1, <3>2
    <2>2. CASE Push(a) \/ PushUnheard(a) \/ (AppendUnread(a) /\ Up(a))
        <3> DEFINE batch == SetToSeq(job[a].fresh)
        <3>1. /\ PostReadings(batch)
              /\ givenUp' \subseteq givenUp \cup Refused(batch) \cup job[a].fresh \cup Range(spool[a])
            BY <2>2 DEF Push, PushUnheard, AppendUnread, Overflow
        <3>2. /\ batch \in Seq(Readings)
              /\ \A i, j \in DOMAIN batch : batch[i] = batch[j] => i = j
              /\ \A i \in DOMAIN batch : batch[i] \in job[a].fresh
            BY <1>1, FreshListed
        <3>3. \A r \in job[a].fresh : r.ts <= now
            BY <1>1 DEF AgentInv, TakenInv
        <3> HIDE DEF batch
        <3> QED
            BY <3>1, <3>2, <3>3
    <2> QED
        BY <2>1, <2>2
<1>4. /\ recorded' \in [Readings -> Nat]
      /\ Refused(batch) \in SUBSET Readings
      /\ lastSeen' \in 1..now /\ status' \in {"ok", "offline"} /\ heard' = now
    BY <1>1, <1>3, Posted
<1>5. /\ job[a].fresh \in SUBSET Readings /\ Range(spool[a]) \subseteq Readings
      /\ now \in 1..MaxTime /\ MaxTime \in Nat
    BY <1>1, Typed, ReadingAssumption DEF Range
<1>6. heard' \in 1..now' /\ lastSeen' \in 1..now'
    BY <1>2, <1>4, <1>5
<1>7. givenUp' \subseteq Readings /\ untold' \subseteq Readings
    <2>1. untold' = untold \/ untold' = untold \cup Range(spool[a])
        BY DEF SendBatch, SendBatchUnheard, Push, PushUnheard, AppendUnread
    <2> QED
        BY <1>1, <1>3, <1>4, <1>5, <2>1 DEF TableTyped
<1> QED
    BY <1>1, <1>2, <1>4, <1>6, <1>7 DEF TableTyped

\* The steps that leave the readings' table as it is.
LEMMA QuietTyped ==
    ASSUME KeptInv, recorded' = recorded,
           now' = now \/ now' = now + 1, lastSeen' = lastSeen, heard' \in {heard, now},
           status' \in {status, "offline"},
           taken' \subseteq Readings, givenUp' \subseteq Readings, untold' \subseteq Readings,
           repeats' = repeats \/ repeats' = repeats + 1
    PROVE  TableTyped'
<1>1. /\ now \in 1..MaxTime /\ MaxTime \in Nat /\ lastSeen \in 1..now /\ heard \in 1..now
      /\ recorded \in [Readings -> Nat] /\ status \in {"ok", "offline"} /\ repeats \in Nat
    BY ReadingAssumption DEF KeptInv, TypeOK
<1>2. lastSeen' \in 1..now' /\ heard' \in 1..now'
    BY <1>1
<1>3. repeats' \in Nat
    BY <1>1
<1> QED
    BY <1>1, <1>2, <1>3 DEF TableTyped

LEMMA TableKept ==
    ASSUME KeptInv, [PromptNext \/ Tick]_vars
    PROVE  TableTyped'
<1>1. /\ TypeOK /\ taken \subseteq Readings /\ givenUp \subseteq Readings
      /\ untold \subseteq Readings
      /\ \A a \in Agents : job[a].fresh \in SUBSET Readings /\ Range(spool[a]) \subseteq Readings
    BY Typed DEF KeptInv, TypeOK, Range
<1>2. CASE Tick \/ UNCHANGED vars
    <2>1. /\ recorded' = recorded /\ (now' = now \/ now' = now + 1) /\ lastSeen' = lastSeen
          /\ heard' = heard /\ status' = status /\ taken' = taken /\ givenUp' = givenUp
          /\ repeats' = repeats /\ untold' = untold
        BY <1>2 DEF Tick, vars, centralVars, historyVars
    <2> QED
        BY <1>1, <2>1, QuietTyped
<1>3. CASE CentralNext
    <2>1. /\ recorded' = recorded /\ now' = now /\ lastSeen' = lastSeen /\ heard' = heard
          /\ status' \in {status, "offline"} /\ taken' = taken /\ givenUp' = givenUp
          /\ repeats' = repeats /\ untold' = untold
        BY <1>3 DEF CentralNext, MarkOfflinePrinters, Handback, Takeover, centralVars, historyVars
    <2> QED
        BY <1>1, <2>1, QuietTyped
<1>4. ASSUME NEW a \in Agents, Heartbeat(a) \/ ChangeLink(a)
      PROVE  TableTyped'
    <2>1. /\ recorded' = recorded /\ now' = now /\ lastSeen' = lastSeen /\ heard' \in {heard, now}
          /\ status' = status /\ taken' = taken /\ givenUp' = givenUp /\ repeats' = repeats
          /\ untold' = untold
        BY <1>4 DEF Heartbeat, ChangeLink, centralVars, historyVars
    <2> QED
        BY <1>1, <2>1, QuietTyped
<1>5. ASSUME NEW a \in Agents,
             \/ StartDrain(a) \/ StartPoll(a) \/ TakeReading(a) \/ PollFails(a)
             \/ EndDrain(a) \/ RewriteFails(a) \/ DrainUnread(a)
      PROVE  TableTyped'
    <2>1. /\ recorded' = recorded /\ now' = now /\ lastSeen' = lastSeen /\ heard' \in {heard, now}
          /\ status' = status /\ givenUp' = givenUp
          /\ taken' = taken \/ taken' = taken \cup {Reading(a, now)}
          /\ repeats' = repeats \/ repeats' = repeats + 1
          /\ untold' = untold
        BY <1>5 DEF StartDrain, StartPoll, TakeReading, PollFails, EndDrain, RewriteFails, DrainUnread,
                    centralVars, historyVars
    <2>2. Reading(a, now) \in Readings
        BY <1>1 DEF Reading, Readings, TypeOK
    <2> QED
        BY <1>1, <2>1, <2>2, QuietTyped
<1>6. ASSUME NEW a \in Agents,
             \/ PushFails(a) \/ AppendFails(a) \/ CrashAgent(a) \/ DrainGarbled(a)
             \/ PushGarbled(a) \/ (AppendUnread(a) /\ ~Up(a))
      PROVE  TableTyped'
    <2>1. /\ recorded' = recorded /\ now' = now /\ lastSeen' = lastSeen /\ heard' = heard
          /\ status' = status /\ taken' = taken
          /\ givenUp' \subseteq givenUp \cup job[a].fresh \cup Range(spool[a])
          /\ untold' \subseteq untold \cup job[a].fresh \cup Range(spool[a])
          /\ repeats' = repeats \/ repeats' = repeats + 1
        BY <1>6 DEF PushFails, AppendFails, CrashAgent, DrainGarbled, PushGarbled, AppendUnread,
                    Overflow, centralVars
    <2>2. givenUp' \subseteq Readings /\ untold' \subseteq Readings
        BY <1>1, <2>1
    <2> QED
        BY <1>1, <2>1, <2>2, QuietTyped
<1>7. ASSUME NEW a \in Agents,
             \/ SendBatch(a) \/ SendBatchUnheard(a) \/ Push(a) \/ PushUnheard(a)
             \/ (AppendUnread(a) /\ Up(a))
      PROVE  TableTyped'
    BY <1>7, PostTyped
<1> HIDE DEF Agents
<1> QED
    BY <1>2, <1>3, <1>4, <1>5, <1>6, <1>7 DEF PromptNext, PromptTick, CycleNext, FaultNext

LEMMA LeaseKept ==
    ASSUME KeptInv, [PromptNext \/ Tick]_vars
    PROVE  LeaseTyped'
<1>1. LeaseTyped /\ Ttl \in Nat /\ MaxTime \in Nat
    BY TypeParts, ReadingAssumption DEF KeptInv
<1> DEFINE RowTyped == /\ collector \in Agents \cup {None} /\ prevAgent \in Agents \cup {None}
                       /\ expires \in Nat /\ prevUntil \in Nat
<1>2. CASE UNCHANGED rowVars /\ UNCHANGED <<until, entitled>>
    <2>1. /\ \/ now' = now
             \/ now < MaxTime /\ now' = now + 1
          /\ link' \subseteq Agents /\ cached' \subseteq Agents
        <3>1. UNCHANGED now \/ Tick
            BY DEF PromptNext, PromptTick, CentralNext, MarkOfflinePrinters, Handback, Takeover,
                   Heartbeat, CycleNext, FaultNext, StartDrain, StartPoll, TakeReading, PollFails,
                   SendBatch, EndDrain, Push, PushFails, SendBatchUnheard, PushUnheard,
                   AppendFails, RewriteFails, DrainUnread, DrainGarbled, AppendUnread,
                   PushGarbled, CrashAgent, ChangeLink, vars
        <3>2. link' = link \/ \E a \in Agents : ChangeLink(a)
            BY DEF PromptNext, PromptTick, Tick, CentralNext, MarkOfflinePrinters, Handback,
                   Takeover, Heartbeat, CycleNext, FaultNext, StartDrain, StartPoll, TakeReading,
                   PollFails, SendBatch, EndDrain, Push, PushFails, SendBatchUnheard, PushUnheard,
                   AppendFails, RewriteFails, DrainUnread, DrainGarbled,
                   AppendUnread, PushGarbled, CrashAgent, vars
        <3>3. cached' = cached \/ \E a \in Agents : cached' = cached \cup {a} \/ cached' = cached \ {a}
            BY DEF PromptNext, PromptTick, Tick, CentralNext, MarkOfflinePrinters, Handback,
                   Takeover, Heartbeat, CycleNext, FaultNext, StartDrain, StartPoll, TakeReading,
                   PollFails, SendBatch, EndDrain, Push, PushFails, SendBatchUnheard, PushUnheard,
                   AppendFails, RewriteFails, DrainUnread, DrainGarbled, AppendUnread,
                   PushGarbled, CrashAgent, ChangeLink, vars, agentVars
        <3> QED
            BY <1>1, <3>1, <3>2, <3>3 DEF LeaseTyped, Tick, ChangeLink
    <2>2. now' \in 1..MaxTime
        BY <1>1, <2>1 DEF LeaseTyped
    <2> QED
        BY <1>1, <1>2, <2>1, <2>2 DEF LeaseTyped, rowVars
<1>3. ASSUME NEW a \in Agents, Heartbeat(a)
      PROVE  LeaseTyped'
    <2>1. /\ now' = now /\ link' = link /\ cached' = cached
          /\ until' = [until EXCEPT ![a] = IF Row!MayRenew(a, now) THEN now + Ttl ELSE 0]
          /\ entitled' = IF Row!MayRenew(a, now)
                         THEN entitled \cup ({a} \X (now..now + Ttl - 1)) ELSE entitled
          /\ Row!RenewLease(a, now, Ttl)
        BY <1>3 DEF Heartbeat
    <2>2. now \in Nat /\ now + Ttl \in Nat
        BY <1>1 DEF LeaseTyped
    <2>3. RowTyped'
        BY <1>1, <2>1, <2>2 DEF LeaseTyped, Row!RenewLease, Row!TakeLease, Row!leaseVars
    <2>4. until' \in [Agents -> Nat]
        <3> HIDE DEF Agents
        <3> QED
            BY <1>1, <2>1, <2>2 DEF LeaseTyped
    <2>5. entitled' \subseteq Agents \X Nat
        <3>1. \A t \in now..now + Ttl - 1 : t \in Nat
            BY <1>1, <2>2
        <3>2. {a} \X (now..now + Ttl - 1) \subseteq Agents \X Nat
            BY <3>1
        <3> QED
            BY <1>1, <2>1, <3>2 DEF LeaseTyped
    <2> QED
        BY <1>1, <2>1, <2>3, <2>4, <2>5 DEF LeaseTyped
<1>4. ASSUME NEW a \in Agents, CrashAgent(a)
      PROVE  LeaseTyped'
    <2>1. /\ now' = now /\ link' = link /\ cached' = cached \ {a}
          /\ until' = [until EXCEPT ![a] = 0] /\ UNCHANGED rowVars /\ entitled' = entitled
        BY <1>4 DEF CrashAgent
    <2>2. until' \in [Agents -> Nat]
        <3> HIDE DEF Agents
        <3> QED
            BY <1>1, <2>1 DEF LeaseTyped
    <2> QED
        BY <1>1, <2>1, <2>2 DEF LeaseTyped, rowVars
<1>5. ASSUME NEW a \in Agents, Takeover(a)
      PROVE  LeaseTyped'
    <2>1. /\ UNCHANGED <<now, link, cached, until, entitled>> /\ Row!TakeLease(a, now, Ttl)
        BY <1>5 DEF Takeover, agentVars, historyVars
    <2>2. now + Ttl \in Nat
        BY <1>1 DEF LeaseTyped
    <2>3. RowTyped'
        BY <1>1, <2>1, <2>2 DEF LeaseTyped, Row!TakeLease
    <2> QED
        BY <1>1, <2>1, <2>3 DEF LeaseTyped
<1>6. CASE Handback
    BY <1>1, <1>6 DEF Handback, Row!ReleaseLease, LeaseTyped, agentVars, historyVars
<1>7. \/ UNCHANGED rowVars /\ UNCHANGED <<until, entitled>>
      \/ Handback \/ \E a \in Agents : Takeover(a) \/ Heartbeat(a) \/ CrashAgent(a)
    <2>1. CASE PromptTick \/ Tick \/ MarkOfflinePrinters \/ UNCHANGED vars
        BY <2>1 DEF PromptTick, Tick, MarkOfflinePrinters, vars, agentVars, historyVars
    <2>2. ASSUME NEW a \in Agents, CycleNext(a) \/ FaultNext(a)
          PROVE  CrashAgent(a) \/ (UNCHANGED rowVars /\ UNCHANGED <<until, entitled>>)
        BY <2>2 DEF CycleNext, FaultNext, StartDrain, StartPoll, TakeReading,
                   PollFails, SendBatch, EndDrain, Push, PushFails, SendBatchUnheard, PushUnheard,
                   AppendFails, RewriteFails, DrainUnread, DrainGarbled, AppendUnread,
                   PushGarbled, ChangeLink, agentVars, historyVars
    <2> HIDE DEF Agents
    <2> QED
        BY <2>1, <2>2 DEF PromptNext, CentralNext
<1> HIDE DEF Agents
<1> QED
    BY <1>2, <1>3, <1>4, <1>5, <1>6, <1>7

-----------------------------------------------------------------------------
(* What an agent took is kept, with polls of any length.                   *)

LEMMA KeptInit == Init => KeptInv
<1> SUFFICES ASSUME Init
             PROVE  KeptInv
    OBVIOUS
<1>1. HoldingsTyped /\ \A a \in Agents : job[a] = Idle /\ spool[a] = <<>>
    <2> HIDE DEF Agents
    <2>1. Idle \in Jobs /\ Idle.sent = 0
        BY DEF Idle, Jobs
    <2>2. <<>> \in Seq(Readings) /\ Len(<<>>) = 0
        <3> HIDE DEF Readings
        <3> QED
            OBVIOUS
    <2>3. /\ job \in [Agents -> Jobs] /\ spool \in [Agents -> Seq(Readings)]
          /\ \A a \in Agents : job[a] = Idle /\ spool[a] = <<>>
        <3> HIDE DEF Jobs, Readings, Idle
        <3> QED
            BY <2>1, <2>2 DEF Init
    <2> QED
        BY <2>1, <2>2, <2>3, ReadingAssumption DEF HoldingsTyped
<1>2. TableTyped
    BY ReadingAssumption DEF Init, TableTyped
<1>3. LeaseTyped
    <2>1. until \in [Agents -> Nat]
        BY DEF Init
    <2> QED
        BY <2>1, ReadingAssumption DEF Init, LeaseTyped
<1>4. \A a \in Agents : AgentInv(a)
    <2> TAKE a \in Agents
    <2>1. /\ job[a].pc = "idle" /\ job[a].fresh = {} /\ job[a].sent = 0
          /\ DOMAIN spool[a] = {} /\ taken = {} /\ repeats = 0
          /\ \A r \in Readings : recorded[r] = 0
        BY <1>1 DEF Init, Idle
    <2>2. \A i \in 1..job[a].sent : spool[a][i] \in Recorded \cup givenUp
        BY <2>1
    <2>3. \A r \in Readings : recorded[r] <= 1 + repeats /\ recorded[r] <= repeats /\ ~(recorded[r] > 0)
        BY <2>1
    <2> QED
        BY <2>1, <2>2, <2>3 DEF AgentInv
<1>5. TakenInv
    BY DEF Init, TakenInv
<1> QED
    BY <1>1, <1>2, <1>3, <1>4, <1>5, TypeParts DEF KeptInv

LEMMA KeptStep ==
    ASSUME KeptInv, [PromptNext \/ Tick]_vars
    PROVE  KeptInv'
<1>1. TypeOK /\ TakenInv /\ \A a \in Agents : AgentInv(a)
    BY DEF KeptInv
<1>2. TypeOK'
    <2>1. UNCHANGED <<job, spool>> => HoldingsTyped'
        BY <1>1 DEF HoldingsTyped, TypeOK
    <2>2. ASSUME NEW a \in Agents, CycleNext(a) \/ FaultNext(a)
          PROVE  HoldingsTyped'
        <3>1. CASE ChangeLink(a)
            BY <2>1, <3>1 DEF ChangeLink, agentVars
        <3>2. CASE \/ StartDrain(a) \/ StartPoll(a) \/ PollFails(a) \/ TakeReading(a)
                   \/ CrashAgent(a) \/ SendBatch(a) \/ SendBatchUnheard(a) \/ DrainGarbled(a)
            BY <3>2, PhaseTyped
        <3>3. CASE \/ EndDrain(a) \/ RewriteFails(a) \/ DrainUnread(a)
                   \/ Push(a) \/ PushFails(a) \/ PushUnheard(a) \/ AppendFails(a)
                   \/ AppendUnread(a) \/ PushGarbled(a)
            BY <3>3, SpoolTyped
        <3> QED
            BY <2>2, <3>1, <3>2, <3>3 DEF CycleNext, FaultNext
    <2>3. UNCHANGED <<job, spool>> \/ \E a \in Agents : CycleNext(a) \/ FaultNext(a)
        BY DEF PromptNext, PromptTick, Tick, CentralNext, MarkOfflinePrinters, Handback, Takeover,
               Heartbeat, vars, agentVars
    <2>4. HoldingsTyped'
        BY <2>1, <2>2, <2>3
    <2> QED
        BY <2>4, TableKept, LeaseKept DEF TypeOK, HoldingsTyped, TableTyped, LeaseTyped
<1>3. TakenInv'
    <2>1. now \in Nat /\ (now' = now \/ now' = now + 1) /\ \A r \in taken : r.ts \in Nat
        <3>1. UNCHANGED now \/ Tick
            BY DEF PromptNext, PromptTick, CentralNext, MarkOfflinePrinters, Handback, Takeover,
                   Heartbeat, CycleNext, FaultNext, StartDrain, StartPoll, TakeReading, PollFails,
                   SendBatch, EndDrain, Push, PushFails, SendBatchUnheard, PushUnheard,
                   AppendFails, RewriteFails, DrainUnread, DrainGarbled, AppendUnread,
                   PushGarbled, CrashAgent, ChangeLink, vars
        <3>2. now \in Nat
            BY <1>1, ReadingAssumption DEF TypeOK
        <3> QED
            BY <1>1, <3>1, <3>2, ReadingAssumption DEF TypeOK, Readings, Tick
    <2>2. taken' = taken \/ \E a \in Agents : taken' = taken \cup {Reading(a, now)} /\ now' = now
        BY DEF PromptNext, PromptTick, Tick, CentralNext, MarkOfflinePrinters, Handback, Takeover,
               Heartbeat, CycleNext, FaultNext, StartDrain, StartPoll, TakeReading, PollFails,
               SendBatch, EndDrain, Push, PushFails, SendBatchUnheard, PushUnheard,
               AppendFails, RewriteFails, DrainUnread, DrainGarbled, AppendUnread,
                   PushGarbled, CrashAgent, ChangeLink, vars, historyVars
    <2>3. \A a \in Agents : Reading(a, now).ts <= now
        BY <2>1 DEF Reading
    <2>4. \A r \in taken : r.ts <= now /\ r.ts <= now + 1
        BY <1>1, <2>1 DEF TakenInv
    <2>5. \A r \in taken : r.ts <= now'
        BY <2>1, <2>4
    <2> QED
        BY <2>1, <2>2, <2>3, <2>5 DEF TakenInv
<1>4. \A b \in Agents : AgentInv(b)'
    <2>1. CASE UNCHANGED <<job, spool, recorded, taken, givenUp, repeats>>
        <3>1. repeats \in Nat
            BY <1>1 DEF TypeOK
        <3>2. repeats' \in Nat /\ repeats <= repeats'
            BY <2>1, <3>1
        <3> TAKE b \in Agents
        <3> QED
            BY <1>1, <2>1, <3>2, OtherKept
    <2>2. ASSUME NEW a \in Agents, CycleNext(a) \/ FaultNext(a)
          PROVE  \A b \in Agents : AgentInv(b)'
        <3>1. CASE StartDrain(a) \/ StartPoll(a) \/ PollFails(a)
            BY <3>1, PhaseKept
        <3>2. CASE TakeReading(a)
            BY <3>2, TakeKept
        <3>3. CASE SendBatch(a) \/ SendBatchUnheard(a)
            BY <3>3, SendKept
        <3>4. CASE EndDrain(a) \/ RewriteFails(a) \/ DrainUnread(a)
            BY <3>4, DrainKept
        <3>5. CASE \/ Push(a) \/ PushFails(a) \/ PushUnheard(a) \/ AppendFails(a)
                   \/ AppendUnread(a) \/ PushGarbled(a)
            BY <3>5, PushKept
        <3>6. CASE CrashAgent(a)
            BY <3>6, CrashKept
        <3>7. CASE ChangeLink(a)
            BY <2>1, <3>7 DEF ChangeLink, agentVars, centralVars, historyVars
        <3>8. CASE DrainGarbled(a)
            BY <3>8, GarbledKept
        <3> QED
            BY <2>2, <3>1, <3>2, <3>3, <3>4, <3>5, <3>6, <3>7, <3>8 DEF CycleNext, FaultNext
    <2>3. \/ UNCHANGED <<job, spool, recorded, taken, givenUp, repeats>>
          \/ \E a \in Agents : CycleNext(a) \/ FaultNext(a)
        BY DEF PromptNext, PromptTick, Tick, CentralNext, MarkOfflinePrinters, Handback, Takeover,
               Heartbeat, vars, agentVars, centralVars, historyVars
    <2> QED
        BY <2>1, <2>2, <2>3
<1> QED
    BY <1>2, <1>3, <1>4 DEF KeptInv

\* What each agent took and holds, and what central has of it, agree after
\* every step, of polls of any length and with every fault.
THEOREM KeptInvariant == Spec => []KeptInv
<1>1. Init => KeptInv
    BY KeptInit
<1>2. KeptInv /\ [PromptNext \/ Tick]_vars => KeptInv'
    BY KeptStep
<1> QED
    BY <1>1, <1>2, PTL DEF Spec

\* The variables keep their types: the spool stays within its cap and the
\* drain within the spool.
THEOREM TypeCorrect == Spec => []TypeOK
<1>1. KeptInv => TypeOK
    BY DEF KeptInv
<1> QED
    BY <1>1, KeptInvariant, PTL

\* No reading goes missing but for the causes Accounted names, the uncounted
\* ones among them (spool._read_all, push_readings), and none enters the table
\* again without a lost acknowledgement or a crash, also when a poll outlasts
\* the lease.
THEOREM NothingMissing == Spec => [](Accounted /\ RecordedOnce)
<1>1. KeptInv => Accounted /\ RecordedOnce
    <2> SUFFICES ASSUME KeptInv
                 PROVE  Accounted /\ RecordedOnce
        OBVIOUS
    <2>1. \A r \in Readings : r.agent \in Agents
        BY DEF Readings
    <2>2. \A r \in taken : r \in Readings
        BY DEF KeptInv, TypeOK
    <2>3. \A r \in Readings : AgentInv(r.agent)
        BY <2>1 DEF KeptInv
    <2> QED
        BY <2>1, <2>2, <2>3 DEF AgentInv, Accounted, RecordedOnce
<1> QED
    BY <1>1, KeptInvariant, PTL

-----------------------------------------------------------------------------
(* With prompt polls, each reading is of its agent's own period.           *)

\* The instants granted are each one agent's; what a deadline or a poll allows
\* was granted; what was granted lies before the row's expiry, and before now
\* when it is not the holder's.
PeriodInv ==
    /\ \A r \in taken : <<r.agent, r.ts>> \in entitled
    /\ \A a \in Agents : job[a].pc = "poll" => <<a, now>> \in entitled
    /\ \A a \in Agents, t \in Nat : now <= t /\ t < until[a] => <<a, t>> \in entitled
    /\ \A a \in Agents, t \in Nat : <<a, t>> \in entitled =>
          /\ t < expires
          /\ collector \notin {None, a} => t < now
    /\ \A a, b \in Agents, t \in Nat : <<a, t>> \in entitled /\ <<b, t>> \in entitled => a = b
    /\ expires <= now + Ttl

LEMMA PeriodStep ==
    ASSUME TypeOK, PeriodInv, [PromptNext]_vars
    PROVE  PeriodInv'
<1>1. /\ now \in Nat /\ Ttl \in Nat \ {0} /\ expires \in Nat /\ until \in [Agents -> Nat]
      /\ job \in [Agents -> Jobs] /\ entitled \subseteq Agents \X Nat
      /\ None \notin Agents
    BY ReadingAssumption DEF TypeOK
\* The clock moves on, and nobody polls.
<1>2. CASE PromptTick
    <2>1. /\ now' = now + 1 /\ \A a \in Agents : job[a].pc # "poll"
          /\ UNCHANGED <<taken, entitled, job, until, expires, collector>>
        BY <1>2 DEF PromptTick, Tick, rowVars, agentVars, historyVars
    <2>2. \A t \in Nat : (now + 1 <= t => now <= t) /\ (t < now => t < now + 1)
        BY <1>1
    <2>3. expires <= now + 1 + Ttl
        BY <1>1 DEF PeriodInv
    <2> QED
        BY <2>1, <2>2, <2>3 DEF PeriodInv
\* The holder, or who picks up an unheld lease, is granted the time to come.
<1>3. ASSUME NEW a \in Agents, Heartbeat(a), Row!MayRenew(a, now)
      PROVE  PeriodInv'
    <2>1. /\ UNCHANGED <<now, job, taken>>
          /\ collector' = a /\ expires' = now + Ttl
          /\ until' = [until EXCEPT ![a] = now + Ttl]
          /\ entitled' = entitled \cup ({a} \X (now..now + Ttl - 1))
        BY <1>3 DEF Heartbeat, Row!RenewLease, Row!TakeLease
    <2>2. collector = a \/ (collector = None /\ expires <= now)
        BY <1>3 DEF Row!MayRenew
    <2>3. \A b \in Agents, t \in Nat :
             <<b, t>> \in entitled' <=>
                <<b, t>> \in entitled \/ (b = a /\ now <= t /\ t < now + Ttl)
        <3>1. \A t \in Nat : t \in now..now + Ttl - 1 <=> now <= t /\ t < now + Ttl
            BY <1>1
        <3> QED
            BY <2>1, <3>1
    <2>4. \A b \in Agents, t \in Nat : <<b, t>> \in entitled /\ b # a => t < now
        <3>1. \A t \in Nat : t < expires /\ expires <= now => t < now
            BY <1>1
        <3> QED
            BY <1>1, <2>2, <3>1 DEF PeriodInv
    <2>5. /\ until'[a] = now + Ttl
          /\ \A b \in Agents : b # a => until'[b] = until[b]
        <3> HIDE DEF Agents
        <3> QED
            BY <1>1, <2>1
    <2>6. \A t \in Nat : t < expires => t < now + Ttl
        BY <1>1 DEF PeriodInv
    <2>7. \A t \in Nat : t < now => t < now + Ttl /\ ~(now <= t)
        BY <1>1
    <2>8. /\ \A r \in taken' : <<r.agent, r.ts>> \in entitled'
          /\ \A b \in Agents : job'[b].pc = "poll" => <<b, now'>> \in entitled'
        BY <2>1 DEF PeriodInv
    <2>9. \A b \in Agents, t \in Nat : now <= t /\ t < until'[b] => <<b, t>> \in entitled'
        <3> HIDE DEF Agents
        <3> QED
            BY <2>3, <2>5 DEF PeriodInv
    <2>10. \A b \in Agents, t \in Nat : <<b, t>> \in entitled' =>
              /\ t < expires'
              /\ collector' \notin {None, b} => t < now'
        <3> HIDE DEF Agents
        <3> QED
            BY <2>1, <2>3, <2>4, <2>6 DEF PeriodInv
    <2>11. \A b, c \in Agents, t \in Nat :
              <<b, t>> \in entitled' /\ <<c, t>> \in entitled' => b = c
        <3> HIDE DEF Agents
        <3> QED
            BY <2>3, <2>4, <2>7 DEF PeriodInv
    <2>12. expires' <= now' + Ttl
        BY <1>1, <2>1
    <2> QED
        BY <2>1, <2>8, <2>9, <2>10, <2>11, <2>12 DEF PeriodInv
<1>4. ASSUME NEW a \in Agents, Heartbeat(a), ~Row!MayRenew(a, now)
      PROVE  PeriodInv'
    <2>1. /\ UNCHANGED <<now, job, taken, collector, expires, entitled>>
          /\ until' = [until EXCEPT ![a] = 0]
        BY <1>4 DEF Heartbeat, Row!RenewLease, Row!leaseVars
    <2>2. \A b \in Agents : until'[b] = until[b] \/ until'[b] = 0
        <3> HIDE DEF Agents
        <3> QED
            BY <1>1, <2>1
    <2>3. \A t \in Nat : ~(t < 0)
        OBVIOUS
    <2> HIDE DEF Agents
    <2> QED
        BY <2>1, <2>2, <2>3 DEF PeriodInv
\* A lapsed lease is handed over: all that was granted is past.
<1>5. ASSUME NEW a \in Agents, Takeover(a)
      PROVE  PeriodInv'
    <2>1. /\ UNCHANGED <<now, job, until, taken, entitled>>
          /\ expires <= now /\ collector' = a /\ expires' = now + Ttl
        BY <1>5 DEF Takeover, Row!MayGrant, Row!TakeLease, agentVars, historyVars
    <2>2. \A t \in Nat : t < expires => t < now /\ t < now + Ttl
        BY <1>1, <2>1
    <2>3. expires' <= now' + Ttl
        BY <1>1, <2>1
    <2> HIDE DEF Agents
    <2> QED
        BY <2>1, <2>2, <2>3 DEF PeriodInv
<1>6. CASE Handback
    <2>1. UNCHANGED <<now, job, until, taken, entitled, expires>> /\ collector' = None
        BY <1>6 DEF Handback, Row!ReleaseLease, agentVars, historyVars
    <2> HIDE DEF Agents
    <2> QED
        BY <2>1 DEF PeriodInv
\* A poll starts within the deadline ...
<1>7. ASSUME NEW a \in Agents, StartPoll(a)
      PROVE  PeriodInv'
    <2>1. UNCHANGED <<now, until, taken, entitled, expires, collector>>
        BY <1>7 DEF StartPoll, rowVars, historyVars
    <2>2. \A b \in Agents : job'[b].pc = "poll" => job[b].pc = "poll" \/ (b = a /\ now < until[a])
        <3>1. \/ job' = [job EXCEPT ![a].pc = "poll"] /\ now < until[a]
              \/ job' = [job EXCEPT ![a].pc = "drain"]
            BY <1>7 DEF StartPoll, MayPoll
        <3> HIDE DEF Agents
        <3> QED
            BY <1>1, <3>1 DEF Jobs
    <2>3. now <= now
        BY <1>1
    <2> HIDE DEF Agents
    <2> QED
        BY <1>1, <2>1, <2>2, <2>3 DEF PeriodInv
\* ... and its reading is stamped before the instant is over.
<1>8. ASSUME NEW a \in Agents, TakeReading(a)
      PROVE  PeriodInv'
    <2>1. /\ UNCHANGED <<now, until, entitled, expires, collector>>
          /\ job[a].pc = "poll" /\ taken' = taken \cup {Reading(a, now)}
          /\ job' = [job EXCEPT ![a].pc = "drain", ![a].fresh = {Reading(a, now)}]
        BY <1>8 DEF TakeReading, rowVars
    <2>2. \A b \in Agents : job'[b].pc = "poll" => job[b].pc = "poll"
        <3> HIDE DEF Agents
        <3> QED
            BY <1>1, <2>1 DEF Jobs
    <2>3. \A r \in taken' : <<r.agent, r.ts>> \in entitled
        <3>1. <<a, now>> \in entitled /\ \A r \in taken : <<r.agent, r.ts>> \in entitled
            BY <2>1 DEF PeriodInv
        <3>2. Reading(a, now).agent = a /\ Reading(a, now).ts = now
            BY DEF Reading
        <3> QED
            BY <2>1, <3>1, <3>2
    <2> HIDE DEF Agents
    <2> QED
        BY <2>1, <2>2, <2>3 DEF PeriodInv
<1>9. ASSUME NEW a \in Agents, CrashAgent(a)
      PROVE  PeriodInv'
    <2>1. /\ UNCHANGED <<now, taken, entitled, expires, collector>>
          /\ until' = [until EXCEPT ![a] = 0] /\ job' = [job EXCEPT ![a] = Idle]
        BY <1>9 DEF CrashAgent, rowVars
    <2>2. \A b \in Agents : until'[b] = until[b] \/ until'[b] = 0
        <3> HIDE DEF Agents
        <3> QED
            BY <1>1, <2>1
    <2>3. \A b \in Agents : job'[b].pc = "poll" => job[b].pc = "poll"
        <3> HIDE DEF Agents
        <3> QED
            BY <1>1, <2>1 DEF Idle
    <2>4. \A t \in Nat : ~(t < 0)
        OBVIOUS
    <2> HIDE DEF Agents
    <2> QED
        BY <2>1, <2>2, <2>3, <2>4 DEF PeriodInv
\* The rest of the cycle is no poll and grants nothing.
<1>10. ASSUME UNCHANGED <<now, until, taken, entitled, expires, collector>>,
              \A b \in Agents : job'[b].pc = "poll" => job[b].pc = "poll"
       PROVE  PeriodInv'
    <2> HIDE DEF Agents
    <2> QED
        BY <1>10 DEF PeriodInv
<1>11. ASSUME NEW a \in Agents,
              \/ StartDrain(a) \/ PollFails(a) \/ SendBatch(a) \/ EndDrain(a)
              \/ Push(a) \/ PushFails(a) \/ SendBatchUnheard(a) \/ PushUnheard(a)
              \/ AppendFails(a) \/ RewriteFails(a) \/ ChangeLink(a)
              \/ DrainUnread(a) \/ DrainGarbled(a) \/ AppendUnread(a) \/ PushGarbled(a)
       PROVE  PeriodInv'
    <2>1. UNCHANGED <<now, until, taken, entitled, expires, collector>>
        BY <1>11 DEF StartDrain, PollFails, SendBatch, EndDrain, Push, PushFails,
                     SendBatchUnheard, PushUnheard, AppendFails, RewriteFails, ChangeLink,
                     DrainUnread, DrainGarbled, AppendUnread, PushGarbled, rowVars, agentVars, historyVars
    <2>2. \A b \in Agents : job'[b].pc = "poll" => job[b].pc = "poll"
        <3>1. \/ job' = job \/ job' = [job EXCEPT ![a] = Idle]
              \/ \E p \in {"drain", "rewrite"} : job' = [job EXCEPT ![a].pc = p]
              \/ job' = [job EXCEPT ![a].sent = @ + Len(Batch(a))]
              \/ \E p \in {"idle", "push"} : job' = [job EXCEPT ![a].sent = 0, ![a].pc = p]
              \/ job' = [job EXCEPT ![a].pc = "rewrite", ![a].fresh = {}]
            BY <1>11 DEF StartDrain, PollFails, SendBatch, EndDrain, Push, PushFails,
                         SendBatchUnheard, PushUnheard, AppendFails, RewriteFails, ChangeLink,
                         DrainUnread, DrainGarbled, AppendUnread, PushGarbled, SpoolFresh, agentVars
        <3> HIDE DEF Agents
        <3>2. ASSUME NEW p \in {"idle", "push"}, job' = [job EXCEPT ![a].sent = 0, ![a].pc = p]
              PROVE  \A b \in Agents : job'[b].pc = "poll" => job[b].pc = "poll"
            <4>1. job'[a].pc = p /\ \A b \in Agents : b # a => job'[b] = job[b]
                BY <1>1, <3>2 DEF Jobs
            <4> QED
                BY <4>1
        <3>3. ASSUME job' = job \/ job' = [job EXCEPT ![a] = Idle]
              PROVE  \A b \in Agents : job'[b].pc = "poll" => job[b].pc = "poll"
            BY <1>1, <3>3 DEF Idle
        <3>4. ASSUME NEW p \in {"drain", "rewrite"}, job' = [job EXCEPT ![a].pc = p]
              PROVE  \A b \in Agents : job'[b].pc = "poll" => job[b].pc = "poll"
            BY <1>1, <3>4 DEF Jobs
        <3>5. ASSUME NEW k, job' = [job EXCEPT ![a].sent = @ + k]
              PROVE  \A b \in Agents : job'[b].pc = "poll" => job[b].pc = "poll"
            BY <1>1, <3>5 DEF Jobs
        <3>6. ASSUME job' = [job EXCEPT ![a].pc = "rewrite", ![a].fresh = {}]
              PROVE  \A b \in Agents : job'[b].pc = "poll" => job[b].pc = "poll"
            BY <1>1, <3>6 DEF Jobs
        <3> QED
            BY <3>1, <3>2, <3>3, <3>4, <3>5, <3>6
    <2> QED
        BY <1>10, <2>1, <2>2
<1>12. CASE MarkOfflinePrinters \/ UNCHANGED vars
    <2>1. UNCHANGED <<now, until, taken, entitled, expires, collector, job>>
        BY <1>12 DEF MarkOfflinePrinters, vars, rowVars, agentVars, historyVars
    <2> QED
        BY <1>10, <2>1
<1> HIDE DEF Agents
<1> QED
    BY <1>2, <1>3, <1>4, <1>5, <1>6, <1>7, <1>8, <1>9, <1>11, <1>12
    DEF PromptNext, CentralNext, CycleNext, FaultNext

\* A reading taken is recorded once, in the period of the agent that took it,
\* kept, or given up for one of Accounted's causes, if a poll is over within its
\* instant (spool.py, runner._may_collect, collector.renew_lease).
THEOREM KeptInPeriod == PromptSpec => []ReadingsKept
<1>1. Init => KeptInv /\ PeriodInv
    <2>1. Init => PeriodInv
        <3>1. \A t \in Nat : ~(t < 0)
            OBVIOUS
        <3>2. 1 + Ttl <= 1 + Ttl
            BY ReadingAssumption
        <3>3. Init => \A a \in Agents : job[a].pc = "idle" /\ until[a] = 0
            BY DEF Init, Idle
        <3> QED
            BY <3>1, <3>2, <3>3 DEF Init, PeriodInv
    <2> QED
        BY <2>1, KeptInit
<1>2. KeptInv /\ PeriodInv /\ [PromptNext]_vars => KeptInv' /\ PeriodInv'
    BY KeptStep, PeriodStep DEF KeptInv
<1>3. KeptInv /\ PeriodInv => ReadingsKept
    <2> SUFFICES ASSUME KeptInv, PeriodInv
                 PROVE  ReadingsKept
        OBVIOUS
    <2>1. \A r \in Readings : r.agent \in Agents /\ r.ts \in Nat
        BY DEF Readings
    <2>2. \A r \in taken : r \in Readings
        BY DEF KeptInv, TypeOK
    <2>3. Accounted /\ RecordedOnce
        <3>1. \A r \in Readings : AgentInv(r.agent)
            BY <2>1 DEF KeptInv
        <3> QED
            BY <2>1, <2>2, <3>1 DEF AgentInv, Accounted, RecordedOnce
    <2>4. OwnPeriod
        <3>1. \A r \in Recorded : r \in Readings /\ r \in taken
            BY <2>1 DEF KeptInv, AgentInv, Recorded
        <3>2. \A r \in Recorded : <<r.agent, r.ts>> \in entitled
            BY <3>1 DEF PeriodInv
        <3>3. \A r \in Recorded, b \in Agents : <<b, r.ts>> \in entitled => b = r.agent
            BY <2>1, <3>1, <3>2 DEF PeriodInv
        <3> QED
            BY <3>3 DEF OwnPeriod
    <2> QED
        BY <2>3, <2>4 DEF ReadingsKept
<1> QED
    BY <1>1, <1>2, <1>3, PTL DEF PromptSpec
=============================================================================
