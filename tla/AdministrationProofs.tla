------------------------ MODULE AdministrationProofs ------------------------
(***************************************************************************)
(* What administration promises, for any number of agents, printers,       *)
(* installs, operators, customers, sites, accounts and people, of the      *)
(* modules as MCAdministration instantiates them:                          *)
(*   - AgentEnrollment: one claim code makes one agent, one agent is one   *)
(*     install;                                                            *)
(*   - RemoteRequests: a request is carried out at most once, a write was  *)
(*     proved possible before it was queued, a printer is shown with a     *)
(*     bounded number of open requests;                                    *)
(*   - DirectorySync: nobody whose listing was cut short is deactivated;   *)
(*   - FleetRegistry: tenancy, one row for an address, one device for a    *)
(*     history, and decisions that stand;                                  *)
(*   - PrinterAssignments: a machine is told its own customer's printers,  *)
(*     and its default by rank;                                            *)
(*   - OperatorAccounts: however many sign-ins overlap, a name and a       *)
(*     source have their budget of failures; while the changes of accounts *)
(*     take turns, every session of an account whose password must be      *)
(*     replaced is a forced one, and an admin is left.                     *)
(***************************************************************************)
EXTENDS MCAdministration, FiniteSetTheorems, WellFoundedInduction, TLAPS

-----------------------------------------------------------------------------
(* Facts about counts and numbers that the proofs below cite.              *)

\* A count does not rise when elements leave.
LEMMA FewerCounted ==
    ASSUME NEW S, IsFiniteSet(S), NEW T \in SUBSET S
    PROVE  Cardinality(T) \in Nat /\ Cardinality(S) \in Nat /\ Cardinality(T) <= Cardinality(S)
BY FS_Subset, FS_CardinalityType

\* ... and falls when one leaves and none comes.
LEMMA OneLessCounted ==
    ASSUME NEW S, IsFiniteSet(S), NEW x \in S, NEW T \in SUBSET (S \ {x})
    PROVE  Cardinality(T) \in Nat /\ Cardinality(S) \in Nat /\ Cardinality(T) + 1 <= Cardinality(S)
<1>1. IsFiniteSet(S \ {x}) /\ Cardinality(S \ {x}) = Cardinality(S) - 1
    BY FS_RemoveElement
<1>2. Cardinality(T) <= Cardinality(S \ {x})
    BY <1>1, FS_Subset
<1>3. IsFiniteSet(T)
    BY <1>1, FS_Subset
<1> QED
    BY <1>1, <1>2, <1>3, FS_CardinalityType

\* One more element counts for one at most.
LEMMA OneMoreCounted ==
    ASSUME NEW S, IsFiniteSet(S), NEW x, NEW T \in SUBSET (S \cup {x})
    PROVE  Cardinality(T) \in Nat /\ Cardinality(S) \in Nat /\ Cardinality(T) <= Cardinality(S) + 1
<1>0. Cardinality(S) \in Nat
    BY FS_CardinalityType
<1>1. IsFiniteSet(S \cup {x}) /\ Cardinality(S \cup {x}) <= Cardinality(S) + 1
    <2>1. /\ IsFiniteSet(S \cup {x})
          /\ Cardinality(S \cup {x}) =
                IF x \in S THEN Cardinality(S) ELSE Cardinality(S) + 1
        BY FS_AddElement
    <2> QED
        BY <1>0, <2>1
<1>2. IsFiniteSet(T) /\ Cardinality(T) <= Cardinality(S \cup {x})
    BY <1>1, FS_Subset
<1> QED
    BY <1>0, <1>1, <1>2, FS_CardinalityType

\* A set of naturals has a least element.
LEMMA LeastNatural ==
    ASSUME NEW S \in SUBSET Nat, S # {}
    PROVE  \E n \in S : \A m \in S : n <= m
<1> DEFINE R == {ss \in Nat \X Nat : ss[1] < ss[2]}
<1>1. IsWellFoundedOn(R, Nat)
    BY NatLessThanWellFounded DEF OpToRel
<1>2. \A m, n \in Nat : m < n => <<m, n>> \in R
    OBVIOUS
<1> HIDE DEF R
<1>3. PICK n \in S : \A m \in S : ~(<<m, n>> \in R)
    BY <1>1, WFMin
<1>4. \A m \in S : m \in Nat /\ n \in Nat /\ ~(m < n)
    BY <1>2, <1>3
<1>5. \A m \in S : n <= m
    BY <1>4
<1> QED
    BY <1>3, <1>5

-----------------------------------------------------------------------------
(* Sums.                                                                   *)

\* The values of f on the members of S, added one after the other.
FirstOf(s) == CHOOSE x \in s : TRUE
Adds(f, S, g) ==
    g = [s \in SUBSET S |-> IF s = {} THEN 0 ELSE f[FirstOf(s)] + g[s \ {FirstOf(s)}]]
SumOver(f, S) == (CHOOSE g : Adds(f, S, g))[S]

\* A step takes one member out.
LEMMA FirstOut ==
    ASSUME NEW S, IsFiniteSet(S), NEW s \in SUBSET S, s # {}
    PROVE  /\ FirstOf(s) \in s /\ s \ {FirstOf(s)} \in SUBSET S
           /\ Cardinality(s) \in Nat /\ Cardinality(s \ {FirstOf(s)}) \in Nat
           /\ Cardinality(s) = Cardinality(s \ {FirstOf(s)}) + 1
<1>1. FirstOf(s) \in s
    BY DEF FirstOf
<1>2. IsFiniteSet(s)
    BY FS_Subset
<1>3. IsFiniteSet(s \ {FirstOf(s)}) /\ Cardinality(s \ {FirstOf(s)}) = Cardinality(s) - 1
    BY <1>1, <1>2, FS_RemoveElement
<1>4. Cardinality(s) \in Nat /\ Cardinality(s \ {FirstOf(s)}) \in Nat
    BY <1>2, <1>3, FS_CardinalityType
<1> QED
    BY <1>1, <1>3, <1>4

\* There is such a function: one for the sets of n members makes one for n + 1.
LEMMA AddsExist ==
    ASSUME NEW S, IsFiniteSet(S), NEW f
    PROVE  \E g : Adds(f, S, g)
<1> DEFINE D(n) == {s \in SUBSET S : Cardinality(s) <= n}
           Upto(h, n) == h = [s \in D(n) |-> IF s = {} THEN 0 ELSE f[FirstOf(s)] + h[s \ {FirstOf(s)}]]
           Bad == {n \in Nat : ~\E h : Upto(h, n)}
<1>0. \A s \in SUBSET S : Cardinality(s) \in Nat
    BY FS_Subset, FS_CardinalityType
<1>1. 0 \notin Bad
    <2>1. Upto([s \in D(0) |-> 0], 0)
        <3>1. \A s \in D(0) : s = {}
            <4>1. \A s \in SUBSET S : Cardinality(s) = 0 => s = {}
                BY FS_Subset, FS_EmptySet
            <4>2. \A s \in D(0) : Cardinality(s) \in Nat /\ Cardinality(s) <= 0
                BY <1>0
            <4> QED
                BY <4>1, <4>2
        <3> HIDE DEF D
        <3> QED
            BY <3>1
    <2> QED
        BY <2>1
<1>2. ASSUME NEW n \in Nat, n \notin Bad
      PROVE  n + 1 \notin Bad
    <2>1. PICK h : Upto(h, n)
        BY <1>2
    <2> DEFINE up == [s \in D(n + 1) |-> IF s = {} THEN 0 ELSE f[FirstOf(s)] + h[s \ {FirstOf(s)}]]
    <2>2. \A s \in D(n + 1) : s # {} => s \ {FirstOf(s)} \in D(n) /\ s \ {FirstOf(s)} \in D(n + 1)
        BY FirstOut
    <2>3. \A s \in D(n) : s \in D(n + 1)
        BY <1>0
    <2> HIDE DEF D
    <2>4. \A s \in D(n) : up[s] = h[s]
        BY <2>1, <2>3
    <2>5. Upto(up, n + 1)
        BY <2>2, <2>4
    <2> QED
        BY <2>5
<1>3. Bad = {}
    <2> SUFFICES ASSUME Bad # {} PROVE FALSE
        OBVIOUS
    <2>1. Bad \in SUBSET Nat
        OBVIOUS
    <2> HIDE DEF Bad
    <2>2. PICK n \in Bad : \A m \in Bad : n <= m
        BY <2>1, LeastNatural
    <2>3. n \in Nat /\ n # 0
        BY <1>1, <2>1
    <2>4. n - 1 \in Nat /\ n - 1 \notin Bad
        BY <2>1, <2>2, <2>3
    <2>5. (n - 1) + 1 \notin Bad
        BY <1>2, <2>4
    <2> QED
        BY <2>2, <2>3, <2>5
<1>4. Cardinality(S) \in Nat
    BY FS_CardinalityType
<1>5. PICK h : Upto(h, Cardinality(S))
    BY <1>3, <1>4
<1>6. D(Cardinality(S)) = SUBSET S
    BY FS_Subset
<1>7. Adds(f, S, h)
    <2> HIDE DEF D
    <2> QED
        BY <1>5, <1>6 DEF Adds
<1> QED
    BY <1>7

\* A set of subsets with which comes every subset whose own proper subsets are
\* all in it, is the whole.
LEMMA SmallestOut ==
    ASSUME NEW S, IsFiniteSet(S), NEW Good,
           \A s \in SUBSET S : (\A t \in SUBSET s : t # s => t \in Good) => s \in Good
    PROVE  SUBSET S \subseteq Good
<1> SUFFICES ASSUME NEW w \in SUBSET S, w \notin Good PROVE FALSE
    OBVIOUS
<1> DEFINE Bad == (SUBSET S) \ Good
           Sizes == {Cardinality(s) : s \in Bad}
<1>0. \A s \in SUBSET S : IsFiniteSet(s) /\ Cardinality(s) \in Nat
    BY FS_Subset, FS_CardinalityType
<1>1. Sizes \in SUBSET Nat /\ Sizes # {}
    BY <1>0
<1>2. PICK n \in Sizes : \A m \in Sizes : n <= m
    <2> HIDE DEF Sizes
    <2> QED
        BY <1>1, LeastNatural
<1>3. PICK s \in Bad : n = Cardinality(s)
    BY <1>2
<1>4. PICK t \in SUBSET s : t # s /\ t \notin Good
    OBVIOUS
<1>5. t \in Bad /\ Cardinality(t) < n /\ Cardinality(t) \in Nat /\ n \in Nat
    BY <1>0, <1>3, <1>4, FS_Subset
<1>6. Cardinality(t) \in Sizes
    BY <1>5
<1> HIDE DEF Sizes, Bad
<1> QED
    BY <1>2, <1>5, <1>6

\* What is added up over a subset does not depend on the set it is taken from.
LEMMA AddsAgree ==
    ASSUME NEW S, IsFiniteSet(S), NEW T \in SUBSET S, NEW f, NEW g, NEW h,
           Adds(f, S, g), Adds(f, T, h)
    PROVE  \A s \in SUBSET T : g[s] = h[s]
<1> DEFINE Good == {s \in SUBSET T : g[s] = h[s]}
<1>1. {} \in Good
    BY DEF Adds
<1>2. IsFiniteSet(T)
    BY FS_Subset
<1>3. ASSUME NEW s \in SUBSET T, s # {}, s \ {FirstOf(s)} \in Good
      PROVE  s \in Good
    BY <1>3 DEF Adds
<1>4. \A s \in SUBSET T : s # {} => FirstOf(s) \in s
    BY DEF FirstOf
<1> HIDE DEF Good
<1>5. ASSUME NEW s \in SUBSET T, \A t \in SUBSET s : t # s => t \in Good
      PROVE  s \in Good
    BY <1>1, <1>3, <1>4, <1>5
<1>6. SUBSET T \subseteq Good
    BY <1>2, <1>5, SmallestOut
<1> QED
    BY <1>6 DEF Good

\* One value is added to the rest.
LEMMA SumStep ==
    ASSUME NEW S, IsFiniteSet(S), NEW f
    PROVE  /\ SumOver(f, {}) = 0
           /\ S # {} => SumOver(f, S) = f[FirstOf(S)] + SumOver(f, S \ {FirstOf(S)})
<1>1. ASSUME NEW s \in SUBSET S PROVE Adds(f, s, CHOOSE g : Adds(f, s, g))
    <2>1. IsFiniteSet(s)
        BY FS_Subset
    <2> QED
        BY <2>1, AddsExist
<1>2. SumOver(f, {}) = 0
    <2> DEFINE g == CHOOSE g : Adds(f, {}, g)
    <2>1. Adds(f, {}, g)
        BY <1>1
    <2> HIDE DEF g
    <2>2. g[{}] = 0
        BY <2>1 DEF Adds
    <2> QED
        BY <2>2 DEF g, SumOver
<1>3. ASSUME S # {}
      PROVE  SumOver(f, S) = f[FirstOf(S)] + SumOver(f, S \ {FirstOf(S)})
    <2> DEFINE T == S \ {FirstOf(S)}
               g == CHOOSE g : Adds(f, S, g)
               h == CHOOSE h : Adds(f, T, h)
    <2>1. Adds(f, S, g) /\ Adds(f, T, h)
        BY <1>1
    <2>2. SumOver(f, S) = g[S] /\ SumOver(f, T) = h[T]
        BY DEF SumOver
    <2>3. T \in SUBSET S
        OBVIOUS
    <2> HIDE DEF g, h
    <2>4. g[S] = f[FirstOf(S)] + g[T]
        BY <1>3, <2>1 DEF Adds
    <2>5. g[T] = h[T]
        BY <2>1, <2>3, AddsAgree
    <2> QED
        BY <2>2, <2>4, <2>5
<1> QED
    BY <1>2, <1>3

\* Naturals add up to one.
LEMMA SumNat ==
    ASSUME NEW S, IsFiniteSet(S), NEW f, \A x \in S : f[x] \in Nat
    PROVE  \A s \in SUBSET S : SumOver(f, s) \in Nat
<1> DEFINE Good == {s \in SUBSET S : SumOver(f, s) \in Nat}
<1>1. SumOver(f, {}) = 0
    BY SumStep
<1>2. ASSUME NEW s \in SUBSET S, \A t \in SUBSET s : t # s => t \in Good, s # {}
      PROVE  SumOver(f, s) \in Nat
    <2>1. IsFiniteSet(s) /\ FirstOf(s) \in s /\ f[FirstOf(s)] \in Nat
        BY <1>2, FS_Subset, FirstOut
    <2>2. SumOver(f, s) = f[FirstOf(s)] + SumOver(f, s \ {FirstOf(s)})
        BY <1>2, <2>1, SumStep
    <2>3. SumOver(f, s \ {FirstOf(s)}) \in Nat
        BY <1>2, <2>1
    <2> QED
        BY <2>1, <2>2, <2>3
<1>3. ASSUME NEW s \in SUBSET S, \A t \in SUBSET s : t # s => t \in Good
      PROVE  s \in Good
    <2>1. CASE s = {}
        BY <1>1, <2>1
    <2>2. CASE s # {}
        BY <1>2, <1>3, <2>2
    <2> QED
        BY <2>1, <2>2
<1> HIDE DEF Good
<1>4. SUBSET S \subseteq Good
    BY <1>3, SmallestOut
<1> QED
    BY <1>4 DEF Good

\* Whichever member is taken out first.
LEMMA SumRemove ==
    ASSUME NEW S, IsFiniteSet(S), NEW f, \A x \in S : f[x] \in Nat
    PROVE  \A s \in SUBSET S : \A x \in s : SumOver(f, s) = f[x] + SumOver(f, s \ {x})
<1> DEFINE Good == {s \in SUBSET S : \A x \in s : SumOver(f, s) = f[x] + SumOver(f, s \ {x})}
<1>0. \A s \in SUBSET S : IsFiniteSet(s) /\ SumOver(f, s) \in Nat
    BY FS_Subset, SumNat
<1>1. ASSUME NEW s \in SUBSET S, \A t \in SUBSET s : t # s => t \in Good, NEW x \in s
      PROVE  SumOver(f, s) = f[x] + SumOver(f, s \ {x})
    <2> DEFINE y == FirstOf(s)
    <2>1. /\ y \in s /\ IsFiniteSet(s)
          /\ SumOver(f, s) = f[y] + SumOver(f, s \ {y})
        BY <1>0, <1>1, FirstOut, SumStep
    <2> HIDE DEF y
    <2>2. CASE x = y
        BY <2>1, <2>2
    <2>3. CASE x # y
        <3>1. SumOver(f, s \ {y}) = f[x] + SumOver(f, (s \ {y}) \ {x})
            BY <1>1, <2>1, <2>3
        <3>2. SumOver(f, s \ {x}) = f[y] + SumOver(f, (s \ {x}) \ {y})
            BY <1>1, <2>1, <2>3
        <3>3. (s \ {y}) \ {x} = (s \ {x}) \ {y} /\ (s \ {y}) \ {x} \in SUBSET S
            OBVIOUS
        <3>4. SumOver(f, (s \ {y}) \ {x}) \in Nat /\ f[x] \in Nat /\ f[y] \in Nat
            BY <1>0, <2>1, <3>3
        <3> DEFINE rest == SumOver(f, (s \ {y}) \ {x})
        <3>5. /\ SumOver(f, s) = f[y] + (f[x] + rest)
              /\ SumOver(f, s \ {x}) = f[y] + rest
            BY <2>1, <3>1, <3>2, <3>3
        <3>6. rest \in Nat /\ f[x] \in Nat /\ f[y] \in Nat
            BY <3>4
        <3> HIDE DEF rest
        <3> QED
            BY <3>5, <3>6
    <2> QED
        BY <2>2, <2>3
<1>2. ASSUME NEW s \in SUBSET S, \A t \in SUBSET s : t # s => t \in Good
      PROVE  s \in Good
    BY <1>1, <1>2
<1> HIDE DEF Good
<1>3. SUBSET S \subseteq Good
    BY <1>2, SmallestOut
<1>4. ASSUME NEW s \in SUBSET S, NEW x \in s
      PROVE  SumOver(f, s) = f[x] + SumOver(f, s \ {x})
    <2>1. s \in Good
        BY <1>3
    <2> QED
        BY <2>1 DEF Good
<1> QED
    BY <1>4, Zenon

\* What counts is what f says of the members.
LEMMA SumSame ==
    ASSUME NEW S, NEW f, NEW g, \A x \in S : f[x] = g[x]
    PROVE  SumOver(f, S) = SumOver(g, S)
<1>1. \A s \in SUBSET S : s # {} => FirstOf(s) \in S
    BY DEF FirstOf
<1>2. \A h : Adds(f, S, h) <=> Adds(g, S, h)
    BY <1>1 DEF Adds
<1>3. (CHOOSE h : Adds(f, S, h)) = CHOOSE h : Adds(g, S, h)
    BY <1>2
<1> QED
    BY <1>3 DEF SumOver

\* The sum of what remains is no greater.
LEMMA SumFewer ==
    ASSUME NEW S, IsFiniteSet(S), NEW f, \A x \in S : f[x] \in Nat, NEW T \in SUBSET S
    PROVE  SumOver(f, T) <= SumOver(f, S)
<1> DEFINE Good == {s \in SUBSET S : \A t \in SUBSET s : SumOver(f, t) <= SumOver(f, s)}
<1>0. \A s \in SUBSET S : SumOver(f, s) \in Nat
    BY SumNat
<1>1. ASSUME NEW s \in SUBSET S, \A t \in SUBSET s : t # s => t \in Good, NEW t \in SUBSET s
      PROVE  SumOver(f, t) <= SumOver(f, s)
    <2>1. CASE t = s
        BY <1>0, <2>1
    <2>2. CASE t # s
        <3>1. PICK x \in s : x \notin t
            BY <2>2
        <3>2. SumOver(f, s) = f[x] + SumOver(f, s \ {x})
            BY SumRemove
        <3>3. SumOver(f, t) <= SumOver(f, s \ {x})
            BY <1>1, <3>1
        <3>4. f[x] \in Nat /\ SumOver(f, t) \in Nat /\ SumOver(f, s \ {x}) \in Nat
            BY <1>0
        <3> QED
            BY <3>2, <3>3, <3>4
    <2> QED
        BY <2>1, <2>2
<1>2. ASSUME NEW s \in SUBSET S, \A t \in SUBSET s : t # s => t \in Good
      PROVE  s \in Good
    BY <1>1, <1>2
<1> HIDE DEF Good
<1>3. SUBSET S \subseteq Good
    BY <1>2, SmallestOut
<1> QED
    BY <1>3 DEF Good

\* Smaller values have a smaller sum.
LEMMA SumLess ==
    ASSUME NEW S, IsFiniteSet(S), NEW f, NEW g,
           \A x \in S : f[x] \in Nat /\ g[x] \in Nat /\ g[x] <= f[x]
    PROVE  SumOver(g, S) <= SumOver(f, S)
<1> DEFINE Good == {s \in SUBSET S : SumOver(g, s) <= SumOver(f, s)}
<1>0. \A s \in SUBSET S : /\ IsFiniteSet(s)
                          /\ SumOver(f, s) \in Nat /\ SumOver(g, s) \in Nat
    BY FS_Subset, SumNat
<1>1. SumOver(g, {}) = 0 /\ SumOver(f, {}) = 0
    BY SumStep
<1>2. ASSUME NEW s \in SUBSET S, \A t \in SUBSET s : t # s => t \in Good, NEW x \in s
      PROVE  SumOver(g, s) <= SumOver(f, s)
    <2>1. /\ SumOver(f, s) = f[x] + SumOver(f, s \ {x})
          /\ SumOver(g, s) = g[x] + SumOver(g, s \ {x})
        BY SumRemove
    <2>2. SumOver(g, s \ {x}) <= SumOver(f, s \ {x})
        BY <1>2
    <2>3. /\ f[x] \in Nat /\ g[x] \in Nat /\ g[x] <= f[x]
          /\ SumOver(f, s \ {x}) \in Nat /\ SumOver(g, s \ {x}) \in Nat
        BY <1>0
    <2> QED
        BY <2>1, <2>2, <2>3
<1>3. ASSUME NEW s \in SUBSET S, \A t \in SUBSET s : t # s => t \in Good
      PROVE  s \in Good
    <2>1. CASE s = {}
        BY <1>1, <2>1
    <2>2. CASE s # {}
        BY <1>2, <1>3, <2>2
    <2> QED
        BY <2>1, <2>2
<1> HIDE DEF Good
<1>4. SUBSET S \subseteq Good
    BY <1>3, SmallestOut
<1> QED
    BY <1>4 DEF Good

\* One value that is one greater makes the sum one greater.
LEMMA SumBumped ==
    ASSUME NEW S, IsFiniteSet(S), NEW f, NEW g, NEW x \in S,
           \A y \in S : f[y] \in Nat /\ g[y] \in Nat /\ (y # x => g[y] <= f[y]),
           g[x] <= f[x] + 1
    PROVE  SumOver(g, S) <= SumOver(f, S) + 1
<1>1. /\ SumOver(f, S) = f[x] + SumOver(f, S \ {x})
      /\ SumOver(g, S) = g[x] + SumOver(g, S \ {x})
    BY SumRemove
<1>2. IsFiniteSet(S \ {x})
    BY FS_Subset
<1>3. SumOver(g, S \ {x}) <= SumOver(f, S \ {x})
    BY <1>2, SumLess
<1>4. SumOver(g, S \ {x}) \in Nat /\ SumOver(f, S \ {x}) \in Nat
    BY SumNat
<1>5. f[x] \in Nat /\ g[x] \in Nat
    OBVIOUS
<1> QED
    BY <1>1, <1>3, <1>4, <1>5

-----------------------------------------------------------------------------
\* The instances count as their importer does.
LEMMA InstancesCount ==
    ASSUME NEW S
    PROVE  /\ Enroll!Cardinality(S) = Cardinality(S)
           /\ Remote!Cardinality(S) = Cardinality(S)
           /\ Remote!IsFiniteSet(S) = IsFiniteSet(S)
BY DEF Enroll!Cardinality, Remote!Cardinality, Cardinality, Remote!IsFiniteSet, IsFiniteSet

-----------------------------------------------------------------------------
(* Enrollment: the inductive invariant.                                    *)

\* A code that made an agent is spent, and made no second one.
CodesSpent ==
    \A c \in Codes :
       redeemed[c] # {} =>
          /\ tokens[c] = None \/ tokens[c].used
          /\ \E a \in Enroll!Ids : redeemed[c] = {a}

\* The keys an install has in its file or is about to write there.
Held(i) == {k \in Enroll!Ids : \/ configs[i] # None /\ configs[i].key = k
                               \/ replies[i] # None /\ replies[i].key = k}

\* Every key held was minted, and no two installs hold the same.
KeysApart ==
    /\ \A i \in Installs : \A k \in Held(i) : k <= minted
    /\ \A i, j \in Installs : i # j => Held(i) \cap Held(j) = {}

EnrollInv == CodesSpent /\ KeysApart

LEMMA EnrollTypes ==
    ASSUME Enroll!TypeOK, [Enroll!Next]_enrollVars
    PROVE  Enroll!TypeOK'
<1> USE AdministrationAssumption DEF Enroll!EnrollmentAssumption, Enroll!TypeOK, Enroll!Ids
<1>1. CASE Enroll!Tick
    BY <1>1 DEF Enroll!Tick
<1>2. ASSUME NEW c \in Codes, NEW s \in Sites, NEW m \in 0..MaxTtl + 1,
             Enroll!MintClaimCode(c, s, m)
      PROVE  Enroll!TypeOK'
    BY <1>2 DEF Enroll!MintClaimCode, Enroll!Ttl, Enroll!TokenRows
<1>3. ASSUME NEW s \in Sites, NEW i \in Installs, Enroll!CreateAgent(s, i)
      PROVE  Enroll!TypeOK'
    BY <1>3 DEF Enroll!CreateAgent, Enroll!AgentRows, Enroll!Credentials
<1>4. ASSUME NEW a \in Enroll!Ids, Enroll!RotateKey(a)
      PROVE  Enroll!TypeOK'
    BY <1>4 DEF Enroll!RotateKey, Enroll!AgentRows
<1>5. ASSUME NEW a \in Enroll!Ids, Enroll!DeleteAgent(a)
      PROVE  Enroll!TypeOK'
    BY <1>5 DEF Enroll!DeleteAgent, Enroll!Disown
<1>6. ASSUME NEW s \in Sites, Enroll!DeleteSite(s)
      PROVE  Enroll!TypeOK'
    BY <1>6 DEF Enroll!DeleteSite, Enroll!Disown
<1>7. ASSUME NEW n \in Networks, NEW a \in Enroll!Ids, Enroll!AssignSubnet(n, a)
      PROVE  Enroll!TypeOK'
    BY <1>7 DEF Enroll!AssignSubnet
<1>8. ASSUME NEW i \in Installs, NEW c \in Codes, NEW b \in BOOLEAN, Enroll!Register(i, c, b)
      PROVE  Enroll!TypeOK'
    <2>0. /\ tokens[c] \in Enroll!TokenRows /\ tokens[c].site \in Sites
          /\ minted' = minted + 1 /\ minted' \in 1..MaxAgents
        BY <1>8 DEF Enroll!Register, Enroll!Redeemable, Enroll!TokenRows
    <2>1. tokens' \in [Codes -> Enroll!TokenRows \cup {None}]
        BY <1>8, <2>0 DEF Enroll!Register, Enroll!TokenRows
    <2>2. agents' \in [1..MaxAgents -> Enroll!AgentRows \cup {None}]
        BY <1>8, <2>0 DEF Enroll!Register, Enroll!AgentRows
    <2>3. owner' \in [Networks -> 1..MaxAgents \cup {None}]
        BY <1>8, <2>0 DEF Enroll!Register, Enroll!Adopt
    <2>4. replies' \in [Installs -> Enroll!Credentials \cup {None}]
        BY <1>8, <2>0 DEF Enroll!Register, Enroll!Credentials
    <2>5. redeemed' \in [Codes -> SUBSET (1..MaxAgents)]
        BY <1>8, <2>0 DEF Enroll!Register
    <2> QED
        BY <1>8, <2>0, <2>1, <2>2, <2>3, <2>4, <2>5 DEF Enroll!Register
<1>9. ASSUME NEW i \in Installs, Enroll!Persist(i) \/ Enroll!CrashBeforePersist(i)
      PROVE  Enroll!TypeOK'
    BY <1>9 DEF Enroll!Persist, Enroll!CrashBeforePersist
<1>10. CASE UNCHANGED enrollVars
    BY <1>10 DEF enrollVars
<1> QED
    BY <1>1, <1>2, <1>3, <1>4, <1>5, <1>6, <1>7, <1>8, <1>9, <1>10 DEF Enroll!Next

\* A code is flipped before anything is created from it, and is never minted
\* again once it made an agent.
LEMMA CodesStep ==
    ASSUME Enroll!TypeOK, CodesSpent, [Enroll!Next]_enrollVars
    PROVE  CodesSpent'
<1> USE AdministrationAssumption DEF Enroll!EnrollmentAssumption, Enroll!TypeOK, Enroll!Ids, CodesSpent
<1>1. CASE UNCHANGED <<tokens, redeemed>>
    BY <1>1
<1>2. ASSUME NEW c \in Codes, NEW s \in Sites, NEW m \in 0..MaxTtl + 1,
             Enroll!MintClaimCode(c, s, m)
      PROVE  CodesSpent'
    BY <1>2 DEF Enroll!MintClaimCode
<1>3. ASSUME NEW s \in Sites, Enroll!DeleteSite(s)
      PROVE  CodesSpent'
    BY <1>3 DEF Enroll!DeleteSite
<1>4. ASSUME NEW i \in Installs, NEW c \in Codes, NEW b \in BOOLEAN, Enroll!Register(i, c, b)
      PROVE  CodesSpent'
    <2>1. redeemed[c] = {} /\ minted + 1 \in 1..MaxAgents /\ minted' = minted + 1
        BY <1>4 DEF Enroll!Register, Enroll!Redeemable
    <2>2. redeemed'[c] = {minted + 1} /\ \A d \in Codes \ {c} : redeemed'[d] = redeemed[d]
        BY <1>4, <2>1 DEF Enroll!Register
    <2>3. tokens[c] \in Enroll!TokenRows
        BY <1>4 DEF Enroll!Register, Enroll!Redeemable
    <2>4. tokens'[c].used /\ \A d \in Codes \ {c} : tokens'[d] = tokens[d]
        BY <1>4, <2>3 DEF Enroll!Register, Enroll!TokenRows
    <2> QED
        BY <2>1, <2>2, <2>4
<1> QED
    <2>1. CASE \/ Enroll!Tick \/ UNCHANGED enrollVars
               \/ \E s \in Sites, i \in Installs : Enroll!CreateAgent(s, i)
               \/ \E a \in Enroll!Ids : Enroll!RotateKey(a) \/ Enroll!DeleteAgent(a)
               \/ \E n \in Networks, a \in Enroll!Ids : Enroll!AssignSubnet(n, a)
               \/ \E i \in Installs : Enroll!Persist(i) \/ Enroll!CrashBeforePersist(i)
        BY <2>1, <1>1 DEF Enroll!Tick, enrollVars, Enroll!CreateAgent, Enroll!RotateKey,
            Enroll!DeleteAgent, Enroll!AssignSubnet, Enroll!Persist, Enroll!CrashBeforePersist
    <2> QED
        BY <2>1, <1>2, <1>3, <1>4 DEF Enroll!Next

\* A key goes to the one install that is answered with it, or that it is
\* pasted into, and moves only within that install.
LEMMA KeysStep ==
    ASSUME Enroll!TypeOK, KeysApart, [Enroll!Next]_enrollVars
    PROVE  KeysApart'
<1> USE AdministrationAssumption DEF Enroll!EnrollmentAssumption, Enroll!TypeOK, Enroll!Ids
<1>0. minted \in Nat /\ minted' \in Nat /\ minted <= minted'
    <2>1. minted \in Nat /\ minted' \in Nat
        BY EnrollTypes
    <2>2. minted' = minted \/ minted' = minted + 1
      BY DEF Enroll!Next, Enroll!Tick, enrollVars, Enroll!CreateAgent, Enroll!RotateKey,
        Enroll!DeleteAgent, Enroll!AssignSubnet, Enroll!Persist, Enroll!CrashBeforePersist,
        Enroll!MintClaimCode, Enroll!DeleteSite, Enroll!Register
    <2> QED
        BY <2>1, <2>2
<1>1. ASSUME \A i \in Installs : Held(i)' \subseteq Held(i)
      PROVE  KeysApart'
    <2>1. \A i \in Installs : \A k \in Held(i)' : k \in Nat /\ k <= minted
        <3>1. \A i \in Installs : Held(i)' \subseteq 1..MaxAgents
            BY DEF Held
        <3>2. \A i \in Installs : \A k \in Held(i) : k <= minted
            BY DEF KeysApart
        <3> QED
            BY <1>1, <3>1, <3>2
    <2>2. \A i \in Installs : \A k \in Held(i)' : k <= minted'
        BY <1>0, <2>1
    <2>3. \A i, j \in Installs : i # j => Held(i)' \cap Held(j)' = {}
        BY <1>1 DEF KeysApart
    <2> QED
        BY <2>2, <2>3 DEF KeysApart
<1>2. ASSUME NEW i \in Installs, minted' = minted + 1,
             Held(i)' \subseteq Held(i) \cup {minted'},
             \A j \in Installs \ {i} : Held(j)' \subseteq Held(j)
      PROVE  KeysApart'
    <2>1. \A j \in Installs : \A k \in Held(j) : k \in Nat /\ k < minted'
        BY <1>2 DEF KeysApart, Held
    <2>2. \A j \in Installs : minted' \notin Held(j)
        BY <2>1, <1>0
    <2>3. \A j \in Installs : \A k \in Held(j)' : k <= minted'
        BY <1>0, <1>2, <2>1
    <2>4. ASSUME NEW j \in Installs, NEW l \in Installs, j # l
          PROVE  Held(j)' \cap Held(l)' = {}
        BY <1>2, <2>2, <2>4 DEF KeysApart
    <2> QED
        BY <2>3, <2>4 DEF KeysApart
<1>3. CASE UNCHANGED <<configs, replies>>
    BY <1>1, <1>3 DEF Held
<1>4. ASSUME NEW s \in Sites, NEW i \in Installs, Enroll!CreateAgent(s, i)
      PROVE  KeysApart'
    BY <1>2, <1>4 DEF Enroll!CreateAgent, Held
<1>5. ASSUME NEW i \in Installs, NEW c \in Codes, NEW b \in BOOLEAN, Enroll!Register(i, c, b)
      PROVE  KeysApart'
    <2>1. minted' = minted + 1 /\ configs' = configs
        BY <1>5 DEF Enroll!Register
    <2>2. \A j \in Installs \ {i} : replies'[j] = replies[j]
        BY <1>5 DEF Enroll!Register
    <2>3. replies'[i] = replies[i] \/ replies'[i].key = minted'
        BY <1>5 DEF Enroll!Register
    <2>4. Held(i)' \subseteq Held(i) \cup {minted'}
        BY <2>1, <2>3 DEF Held
    <2>5. \A j \in Installs \ {i} : Held(j)' \subseteq Held(j)
        BY <2>1, <2>2 DEF Held
    <2> QED
        BY <1>2, <2>1, <2>4, <2>5
<1>6. ASSUME NEW i \in Installs, Enroll!Persist(i) \/ Enroll!CrashBeforePersist(i)
      PROVE  KeysApart'
    BY <1>1, <1>6 DEF Enroll!Persist, Enroll!CrashBeforePersist, Held
<1> QED
    <2>1. CASE \/ Enroll!Tick \/ UNCHANGED enrollVars
               \/ \E c \in Codes, s \in Sites, m \in 0..MaxTtl + 1 : Enroll!MintClaimCode(c, s, m)
               \/ \E a \in Enroll!Ids : Enroll!RotateKey(a) \/ Enroll!DeleteAgent(a)
               \/ \E s \in Sites : Enroll!DeleteSite(s)
               \/ \E n \in Networks, a \in Enroll!Ids : Enroll!AssignSubnet(n, a)
        BY <2>1, <1>3 DEF Enroll!Tick, enrollVars, Enroll!MintClaimCode, Enroll!RotateKey,
            Enroll!DeleteAgent, Enroll!DeleteSite, Enroll!AssignSubnet
    <2> QED
        BY <2>1, <1>4, <1>5, <1>6 DEF Enroll!Next

\* The inductive invariant of enrollment: spent codes and keys held apart,
\* whatever is lost between central and the installs (redeem_claim_token,
\* register_agent, persist_credentials).
THEOREM EnrollmentInvariant == Enroll!Spec => [](Enroll!TypeOK /\ EnrollInv)
<1>1. Enroll!Init => Enroll!TypeOK /\ EnrollInv
    BY AdministrationAssumption DEF Enroll!EnrollmentAssumption, Enroll!Init, Enroll!TypeOK,
        Enroll!Ids, EnrollInv, CodesSpent, KeysApart, Held
<1>2. Enroll!TypeOK /\ EnrollInv /\ [Enroll!Next]_enrollVars => (Enroll!TypeOK /\ EnrollInv)'
    BY EnrollTypes, CodesStep, KeysStep DEF EnrollInv
<1> QED
    BY <1>1, <1>2, PTL DEF Enroll!Spec, Enroll!vars, enrollVars

\* The tables and the files keep their types: expiries stay within the
\* clamped lifetime of a code (mint_claim_token, register_agent).
THEOREM EnrollmentTypes == Enroll!Spec => []Enroll!TypeOK
BY EnrollmentInvariant, PTL

\* One code makes one agent and one agent is one install
\* (redeem_claim_token, persist_credentials).
THEOREM IdentitiesApart == Enroll!Spec => []Enroll!OneIdentity
<1>1. ASSUME Enroll!TypeOK, EnrollInv
      PROVE  Enroll!OneIdentity
    <2>1. ASSUME NEW c \in Codes
          PROVE  Cardinality(redeemed[c]) <= 1
        <3>1. CASE redeemed[c] = {}
            BY <3>1, FS_EmptySet
        <3>2. CASE redeemed[c] # {}
            <4>1. PICK a \in Enroll!Ids : redeemed[c] = {a}
                BY <3>2, <1>1 DEF EnrollInv, CodesSpent
            <4> QED
                BY <4>1, FS_Singleton
        <3> QED
            BY <3>1, <3>2
    <2>2. ASSUME NEW i \in Installs, NEW j \in Installs, i # j,
                 Enroll!Authenticates(i), Enroll!Authenticates(j)
          PROVE  configs[i].agent # configs[j].agent
        <3>1. configs[i].key \in Held(i) /\ configs[j].key \in Held(j)
            BY <1>1, <2>2 DEF Enroll!TypeOK, Enroll!Authenticates, Enroll!Credentials, Held
        <3> QED
            BY <1>1, <2>2, <3>1 DEF EnrollInv, KeysApart, Enroll!Authenticates
    <2> QED
        BY <2>1, <2>2, InstancesCount DEF Enroll!OneIdentity
<1> QED
    BY <1>1, EnrollmentInvariant, PTL

\* Enrolling takes no subnet away from an agent (redeem_claim_token adopts
\* orphans only).
THEOREM OrphansAdopted == Enroll!Spec => Enroll!AdoptsOrphansOnly
<1>1. Enroll!TypeOK /\ [Enroll!Next]_enrollVars
      => [minted' # minted =>
             \A n \in Networks : owner[n] # None => owner'[n] = owner[n]]_enrollVars
    <2> SUFFICES ASSUME Enroll!TypeOK, Enroll!Next, minted' # minted,
                        NEW n \in Networks, owner[n] # None
                 PROVE  owner'[n] = owner[n]
        BY DEF enrollVars
    <2> QED
        BY DEF Enroll!Next, Enroll!Tick, Enroll!CreateAgent, Enroll!RotateKey,
            Enroll!DeleteAgent, Enroll!AssignSubnet, Enroll!Persist, Enroll!CrashBeforePersist,
            Enroll!MintClaimCode, Enroll!DeleteSite, Enroll!Register, Enroll!Adopt, Enroll!TypeOK
<1> QED
    BY <1>1, EnrollmentTypes, PTL DEF Enroll!Spec, Enroll!AdoptsOrphansOnly, Enroll!vars, enrollVars

-----------------------------------------------------------------------------
(* Remote hands: the inductive invariant.                                  *)

\* A request is carried by one command, a pulled command is of the agent that
\* pulled it and is marked sent, and a request that was carried out is in no
\* agent's batch any more.
CommandsInv ==
    /\ \A c \in DOMAIN commands :
          commands[c].request # None => commands[c].request <= Len(requests)
    /\ \A c, d \in DOMAIN commands :
          /\ commands[c].request = commands[d].request
          /\ commands[c].request # None
          => c = d
    /\ \A a \in RemoteAgents : \A c \in batches[a] :
          commands[c].agent = a /\ commands[c].status = "sent"
    /\ \A a \in RemoteAgents :
          answers[a] # None => answers[a].request <= Len(requests)

CarriedInv ==
    \A r \in 1..MaxRequests :
       carried[r] # 0 =>
          /\ carried[r] = 1 /\ r <= Len(requests) /\ r # None
          /\ \A c \in DOMAIN commands :
                commands[c].request = r =>
                   /\ commands[c].status = "sent"
                   /\ \A a \in RemoteAgents : c \notin batches[a]

\* Some answer among the first n requests proved the printer writable.
Proved(p, n) ==
    \E r \in DOMAIN requests :
       r <= n /\ requests[r].printer = p /\ requests[r].verdict = TRUE

\* An open request has no verdict yet, and neither the printer's capability
\* nor a write that was checked or queued is without its proof.
ProofsInv ==
    /\ \A r \in DOMAIN requests :
          requests[r].status \in Remote!Open => requests[r].verdict = None
    /\ \A p \in RemotePrinters :
          printers[p].capability = "writable" => Proved(p, Len(requests))
    /\ \A o \in Operators :
          posts[o] # None /\ posts[o].kind = "write" => Proved(posts[o].printer, Len(requests))
    /\ \A w \in DOMAIN requests :
          requests[w].kind = "write" => Proved(requests[w].printer, w - 1)

\* The open requests of a printer, stale or not, and the operators whose check
\* of that printer passed and is not committed.
Standing(p) == {r \in DOMAIN requests :
                   requests[r].printer = p /\ requests[r].status \in Remote!Open}
Posting(p)  == {o \in Operators : posts[o] # None /\ posts[o].printer = p}

\* Each operator but the last to check has room for what the others may add.
OpenInv ==
    MaxOpen # 0 =>
       \A p \in RemotePrinters :
          Cardinality(Standing(p)) + Cardinality(Posting(p))
             <= MaxOpen + Cardinality(Operators) - 1

RemoteInv == CommandsInv /\ CarriedInv /\ ProofsInv /\ OpenInv

USE DEF Remote!Kinds, Remote!Capabilities, Remote!Open, Remote!Answered

-----------------------------------------------------------------------------
(* What the steps make of the requests.                                    *)

LEMMA AsSequence ==
    ASSUME NEW S, NEW n \in Nat, NEW f \in [1..n -> S]
    PROVE  f \in Seq(S) /\ Len(f) = n
OBVIOUS

\* The time, the rows and the constants as plain facts.
LEMMA RemoteFacts ==
    ASSUME Remote!TypeOK
    PROVE  /\ time \in 0..MaxTime - 1
           /\ requests \in Seq(Remote!RequestRows) /\ Len(requests) \in Nat
           /\ Len(requests) <= MaxRequests /\ MaxRequests \in Nat
           /\ DOMAIN requests = 1..Len(requests)
           /\ commands \in Seq(Remote!CommandRows) /\ Len(commands) \in Nat
           /\ DOMAIN commands = 1..Len(commands)
           /\ None \notin BOOLEAN
           /\ \A r \in DOMAIN requests : requests[r] \in Remote!RequestRows
           /\ \A c \in DOMAIN commands : commands[c] \in Remote!CommandRows
BY AdministrationAssumption DEF Remote!RemoteAssumption, Remote!TypeOK

\* Marking a row expired changes its status alone.
LEMMA RowExpired ==
    ASSUME NEW entry \in Remote!RequestRows, NEW q, q = [entry EXCEPT !.status = "expired"]
    PROVE  /\ q \in Remote!RequestRows
           /\ q.printer = entry.printer /\ q.kind = entry.kind /\ q.created = entry.created
           /\ q.verdict = entry.verdict /\ q.status = "expired"
BY DEF Remote!RequestRows

\* A commit expires rows and appends one, pending and without a verdict.
LEMMA QueueChange ==
    ASSUME Remote!TypeOK, NEW o \in Operators, Remote!QueueRequest(o)
    PROVE  /\ requests' \in Seq(Remote!RequestRows)
           /\ Len(requests') = Len(requests) + 1 /\ Len(requests') <= MaxRequests
           /\ \A r \in DOMAIN requests :
                 \/ requests'[r] = requests[r]
                 \/ /\ r \in posts[o].stale
                    /\ requests'[r] = [requests[r] EXCEPT !.status = "expired"]
           /\ requests'[Len(requests) + 1].printer = posts[o].printer
           /\ requests'[Len(requests) + 1].kind = posts[o].kind
           /\ requests'[Len(requests) + 1].status = "pending"
           /\ requests'[Len(requests) + 1].verdict = None
<1>1. PICK a \in Reach[posts[o].printer] :
         requests' = Append([r \in DOMAIN requests |->
                         IF r \in posts[o].stale
                         THEN [requests[r] EXCEPT !.status = "expired"]
                         ELSE requests[r]],
                        [printer |-> posts[o].printer, agent |-> a,
                         kind |-> posts[o].kind, status |-> "pending",
                         created |-> time, verdict |-> None])
    BY DEF Remote!QueueRequest
<1> DEFINE expired == [r \in DOMAIN requests |->
                         IF r \in posts[o].stale
                         THEN [requests[r] EXCEPT !.status = "expired"]
                         ELSE requests[r]]
           entry == [printer |-> posts[o].printer, agent |-> a,
                   kind |-> posts[o].kind, status |-> "pending",
                   created |-> time, verdict |-> None]
<1>2. posts[o] \in Remote!Posts /\ a \in RemoteAgents
    BY AdministrationAssumption
    DEF Remote!QueueRequest, Remote!TypeOK, Remote!RemoteAssumption, Remote!Posts
<1>3. entry \in Remote!RequestRows
    BY <1>2, RemoteFacts DEF Remote!RequestRows, Remote!Posts
<1>4. /\ entry.printer = posts[o].printer /\ entry.kind = posts[o].kind
      /\ entry.status = "pending" /\ entry.verdict = None
    OBVIOUS
<1>5. \A r \in DOMAIN requests :
         /\ expired[r] \in Remote!RequestRows
         /\ \/ expired[r] = requests[r]
            \/ r \in posts[o].stale /\ expired[r] = [requests[r] EXCEPT !.status = "expired"]
    <2> SUFFICES ASSUME NEW r \in DOMAIN requests
                 PROVE  /\ expired[r] \in Remote!RequestRows
                        /\ \/ expired[r] = requests[r]
                           \/ /\ r \in posts[o].stale
                              /\ expired[r] = [requests[r] EXCEPT !.status = "expired"]
        OBVIOUS
    <2>1. requests[r] \in Remote!RequestRows
        BY RemoteFacts
    <2>2. CASE r \in posts[o].stale
        <3>1. expired[r] = [requests[r] EXCEPT !.status = "expired"]
            BY <2>2
        <3> QED
            BY <2>1, <2>2, <3>1, RowExpired
    <2>3. CASE r \notin posts[o].stale
        BY <2>1, <2>3
    <2> QED
        BY <2>2, <2>3
<1>6. DOMAIN expired = 1..Len(requests) /\ expired = [r \in 1..Len(requests) |-> expired[r]]
    BY RemoteFacts
<1>7. requests' = Append(expired, entry)
    BY <1>1
<1> HIDE DEF expired, entry
<1>8. expired \in [1..Len(requests) -> Remote!RequestRows]
    BY <1>5, <1>6, RemoteFacts
<1>9. expired \in Seq(Remote!RequestRows) /\ Len(expired) = Len(requests)
    BY <1>8, RemoteFacts, AsSequence
<1>10. /\ requests' \in Seq(Remote!RequestRows) /\ Len(requests') = Len(requests) + 1
       /\ requests'[Len(requests) + 1] = entry
       /\ \A r \in 1..Len(requests) : requests'[r] = expired[r]
    BY <1>3, <1>7, <1>9
<1>11. Len(requests) < MaxRequests
    BY DEF Remote!QueueRequest
<1> QED
    BY <1>4, <1>5, <1>10, <1>11, RemoteFacts

\* An answer changes nothing, or one open row and what it says of the printer.
LEMMA AnswerChange ==
    ASSUME Remote!TypeOK, NEW a \in RemoteAgents, Remote!PostResult(a)
    PROVE  /\ requests' \in Seq(Remote!RequestRows) /\ Len(requests') = Len(requests)
           /\ printers' \in [RemotePrinters -> Remote!PrinterRows]
           /\ \A r \in DOMAIN requests :
                 \/ requests'[r] = requests[r]
                 \/ /\ requests[r].status \in Remote!Open
                    /\ requests'[r].status \notin Remote!Open
                    /\ requests'[r].printer = requests[r].printer
                    /\ requests'[r].kind = requests[r].kind
           /\ answers[a].request <= Len(requests) =>
              \A p \in RemotePrinters :
                 \/ printers'[p].capability \in {printers[p].capability, "read_only"}
                 \/ \E r \in DOMAIN requests : 
                       requests'[r].printer = p /\ requests'[r].verdict = TRUE
<1> DEFINE n == answers[a].request
<1>0. /\ answers[a] \in Remote!Answers /\ n \in 1..MaxRequests
      /\ answers[a].ok \in BOOLEAN /\ answers[a].verdict \in BOOLEAN \cup {None}
    BY DEF Remote!PostResult, Remote!TypeOK, Remote!Answers
<1>1. CASE requests[n].status \notin Remote!Open
    BY <1>1, RemoteFacts DEF Remote!PostResult, Remote!TypeOK
<1>2. CASE requests[n].status \in Remote!Open
    <2>1. /\ requests' = [requests EXCEPT
                ![n].status  = IF answers[a].ok THEN "succeeded" ELSE "failed",
                ![n].verdict = answers[a].verdict]
          /\ printers' = IF answers[a].verdict = None THEN printers
                ELSE [printers EXCEPT ![requests[n].printer].capability =
                         IF answers[a].verdict THEN "writable" ELSE "read_only"]
        BY <1>2 DEF Remote!PostResult, Remote!ApplyResult
    <2>2. DOMAIN requests' = DOMAIN requests /\ \A r \in DOMAIN requests \ {n} : requests'[r] = requests[r]
        BY <2>1
    <2>3. n \in DOMAIN requests =>
             /\ requests'[n] \in Remote!RequestRows
             /\ requests'[n].status \notin Remote!Open
             /\ requests'[n].printer = requests[n].printer
             /\ requests'[n].kind = requests[n].kind
             /\ requests'[n].verdict = answers[a].verdict
        <3> SUFFICES ASSUME n \in DOMAIN requests
                     PROVE  /\ requests'[n] \in Remote!RequestRows
                            /\ requests'[n].status \notin Remote!Open
                            /\ requests'[n].printer = requests[n].printer
                            /\ requests'[n].kind = requests[n].kind
                            /\ requests'[n].verdict = answers[a].verdict
            OBVIOUS
        <3>1. requests[n] \in Remote!RequestRows
            BY RemoteFacts
        <3> HIDE DEF n
        <3>2. requests'[n] = [requests[n] EXCEPT
                    !.status  = IF answers[a].ok THEN "succeeded" ELSE "failed",
                    !.verdict = answers[a].verdict]
            BY <2>1
        <3> QED
            BY <1>0, <3>1, <3>2 DEF Remote!RequestRows
    <2>4. requests' \in [1..Len(requests) -> Remote!RequestRows]
        <3>1. requests' = [r \in DOMAIN requests |-> requests'[r]]
            BY <2>1
        <3> HIDE DEF n
        <3> QED
            BY <2>2, <2>3, <3>1, RemoteFacts
    <2>5. requests' \in Seq(Remote!RequestRows) /\ Len(requests') = Len(requests)
        BY <2>4, RemoteFacts, AsSequence
    <2>6. printers' \in [RemotePrinters -> Remote!PrinterRows]
        <3> DEFINE to == IF answers[a].verdict THEN "writable" ELSE "read_only"
                   q  == requests[n].printer
        <3>1. /\ \/ printers' = printers
                 \/ printers' = [printers EXCEPT ![q].capability = to]
              /\ to \in Remote!Capabilities
            BY <2>1
        <3>2. printers \in [RemotePrinters -> Remote!PrinterRows]
            BY DEF Remote!TypeOK
        <3> HIDE DEF to, q
        <3> QED
            BY <3>1, <3>2 DEF Remote!PrinterRows
    <2>7. ASSUME n <= Len(requests), NEW p \in RemotePrinters
          PROVE  \/ printers'[p].capability \in {printers[p].capability, "read_only"}
                 \/ \E r \in DOMAIN requests : 
                       requests'[r].printer = p /\ requests'[r].verdict = TRUE
        <3>1. n \in DOMAIN requests
            BY <1>0, <2>7, RemoteFacts
        <3>2. printers \in [RemotePrinters -> Remote!PrinterRows]
            BY DEF Remote!TypeOK
        <3>3. CASE answers[a].verdict = None \/ p # requests[n].printer
            BY <2>1, <3>2, <3>3
        <3>4. CASE answers[a].verdict = FALSE
            BY <2>1, <3>2, <3>4 DEF Remote!PrinterRows
        <3>5. CASE answers[a].verdict = TRUE /\ p = requests[n].printer
            BY <2>3, <3>1, <3>5
        <3> QED
            BY <1>0, <3>3, <3>4, <3>5
    <2>8. \A r \in DOMAIN requests :
                 \/ requests'[r] = requests[r]
                 \/ /\ requests[r].status \in Remote!Open
                    /\ requests'[r].status \notin Remote!Open
                    /\ requests'[r].printer = requests[r].printer
                    /\ requests'[r].kind = requests[r].kind
        BY <1>2, <2>2, <2>3
    <2> QED
        BY <2>5, <2>6, <2>7, <2>8
<1> QED
    BY <1>1, <1>2

\* The two steps that write requests, and the rest.
LEMMA RequestSteps ==
    ASSUME [Remote!Next]_remoteVars
    PROVE  \/ UNCHANGED requests
           \/ \E o \in Operators : Remote!QueueRequest(o)
           \/ \E a \in RemoteAgents : Remote!PostResult(a)
BY DEF Remote!Next, Remote!OperatorNext, Remote!AgentNext, Remote!PullCommands, Remote!LosePull,
    Remote!DropBatch, Remote!LoseResult, Remote!QueueCommand, Remote!CarryOut, Remote!HandleOther,
    Remote!Tick, remoteVars, Remote!CheckRequest, Remote!PinReadOnly, Remote!SaveSettings

LEMMA RequestTypes ==
    ASSUME Remote!TypeOK, [Remote!Next]_remoteVars
    PROVE  /\ requests' \in Seq(Remote!RequestRows) /\ Len(requests') <= MaxRequests
           /\ Len(requests) <= Len(requests')
<1>1. CASE UNCHANGED requests
    BY <1>1, RemoteFacts
<1>2. CASE \E o \in Operators : Remote!QueueRequest(o)
    BY <1>2, QueueChange, RemoteFacts
<1>3. CASE \E a \in RemoteAgents : Remote!PostResult(a)
    <2>1. requests' \in Seq(Remote!RequestRows) /\ Len(requests') = Len(requests)
        BY <1>3, AnswerChange
    <2> QED
        BY <2>1, RemoteFacts
<1> QED
    BY <1>1, <1>2, <1>3, RequestSteps

\* Pulled commands are marked and stay what they are otherwise.
LEMMA MarkedSent ==
    ASSUME Remote!TypeOK, NEW S, Remote!MarkSent(S)
    PROVE  /\ commands' \in Seq(Remote!CommandRows) /\ Len(commands') = Len(commands)
           /\ \A c \in DOMAIN commands :
                 /\ commands'[c].agent = commands[c].agent
                 /\ commands'[c].request = commands[c].request
                 /\ commands'[c].status \in {commands[c].status, "sent"}
                 /\ c \in S => commands'[c].status = "sent"
<1>1. commands' = [c \in 1..Len(commands) |->
                      IF c \in S THEN [commands[c] EXCEPT !.status = "sent"] ELSE commands[c]]
    BY RemoteFacts DEF Remote!MarkSent
<1>2. \A c \in 1..Len(commands) :
         /\ commands'[c] \in Remote!CommandRows
         /\ commands'[c].agent = commands[c].agent
         /\ commands'[c].request = commands[c].request
         /\ commands'[c].status \in {commands[c].status, "sent"}
         /\ c \in S => commands'[c].status = "sent"
    BY <1>1, RemoteFacts DEF Remote!CommandRows
<1>3. commands' \in [1..Len(commands) -> Remote!CommandRows]
    BY <1>1, <1>2
<1> QED
    BY <1>2, <1>3, RemoteFacts, AsSequence

\* A queued command is pending, the last of the table.
LEMMA CommandQueued ==
    ASSUME Remote!TypeOK, NEW q \in Remote!CommandRows, commands' = Append(commands, q)
    PROVE  /\ commands' \in Seq(Remote!CommandRows) /\ Len(commands') = Len(commands) + 1
           /\ \A c \in DOMAIN commands : commands'[c] = commands[c]
           /\ commands'[Len(commands) + 1] = q
BY RemoteFacts

\* The command a commit queues carries the request it queues.
LEMMA QueueCommandChange ==
    ASSUME Remote!TypeOK, NEW o \in Operators, Remote!QueueRequest(o)
    PROVE  /\ commands' \in Seq(Remote!CommandRows) /\ Len(commands') = Len(commands) + 1
           /\ \A c \in DOMAIN commands : commands'[c] = commands[c]
           /\ commands'[Len(commands) + 1].request = Len(requests) + 1
<1>1. PICK a \in Reach[posts[o].printer] :
         commands' = Append(commands, [agent |-> a, request |-> Len(requests) + 1,
                                       status |-> "pending"])
    BY DEF Remote!QueueRequest
<1>2. posts[o] \in Remote!Posts /\ a \in RemoteAgents
    BY AdministrationAssumption
    DEF Remote!QueueRequest, Remote!TypeOK, Remote!RemoteAssumption, Remote!Posts
<1>3. Len(requests) + 1 \in 1..MaxRequests
    BY RemoteFacts DEF Remote!QueueRequest
<1>4. [agent |-> a, request |-> Len(requests) + 1, status |-> "pending"] \in Remote!CommandRows
    BY <1>2, <1>3 DEF Remote!CommandRows
<1> QED
    BY <1>1, <1>4, CommandQueued

LEMMA CommandTypes ==
    ASSUME Remote!TypeOK, [Remote!Next]_remoteVars
    PROVE  /\ commands' \in Seq(Remote!CommandRows)
           /\ batches' \in [RemoteAgents -> SUBSET (1..Len(commands'))]
<1>0. batches \in [RemoteAgents -> SUBSET (1..Len(commands))]
    BY DEF Remote!TypeOK
<1>1. CASE UNCHANGED <<commands, batches>>
    BY <1>0, <1>1, RemoteFacts
<1>2. ASSUME NEW o \in Operators, Remote!QueueRequest(o)
      PROVE  /\ commands' \in Seq(Remote!CommandRows)
             /\ batches' \in [RemoteAgents -> SUBSET (1..Len(commands'))]
    <2>1. batches' = batches
        BY <1>2 DEF Remote!QueueRequest
    <2> QED
        BY <1>0, <1>2, <2>1, QueueCommandChange, RemoteFacts
<1>3. ASSUME NEW a \in RemoteAgents, Remote!QueueCommand(a)
      PROVE  /\ commands' \in Seq(Remote!CommandRows)
             /\ batches' \in [RemoteAgents -> SUBSET (1..Len(commands'))]
    <2>1. batches' = batches
          /\ commands' = Append(commands, [agent |-> a, request |-> None, status |-> "pending"])
        BY <1>3 DEF Remote!QueueCommand
    <2>2. [agent |-> a, request |-> None, status |-> "pending"] \in Remote!CommandRows
        BY DEF Remote!CommandRows
    <2> QED
        BY <1>0, <2>1, <2>2, CommandQueued, RemoteFacts
<1>4. ASSUME NEW a \in RemoteAgents, Remote!PullCommands(a) \/ Remote!LosePull(a)
      PROVE  /\ commands' \in Seq(Remote!CommandRows)
             /\ batches' \in [RemoteAgents -> SUBSET (1..Len(commands'))]
    <2>1. Remote!MarkSent(Remote!Pending(a))
        BY <1>4 DEF Remote!PullCommands, Remote!LosePull
    <2>2. Remote!Pending(a) \subseteq 1..Len(commands)
        BY RemoteFacts DEF Remote!Pending
    <2>3. batches' \in [RemoteAgents -> SUBSET (1..Len(commands))]
        BY <1>0, <1>4, <2>2 DEF Remote!PullCommands, Remote!LosePull
    <2> QED
        BY <2>1, <2>3, MarkedSent, RemoteFacts
<1>5. ASSUME NEW a \in RemoteAgents, NEW c \in batches[a],
             Remote!CarryOut(a, c) \/ Remote!HandleOther(a, c)
      PROVE  /\ commands' \in Seq(Remote!CommandRows)
             /\ batches' \in [RemoteAgents -> SUBSET (1..Len(commands'))]
    <2>1. commands' = commands /\ batches' = [batches EXCEPT ![a] = @ \ {c}]
        BY <1>5 DEF Remote!CarryOut, Remote!HandleOther
    <2> QED
        BY <1>0, <2>1, RemoteFacts
<1>6. ASSUME NEW a \in RemoteAgents, Remote!DropBatch(a)
      PROVE  /\ commands' \in Seq(Remote!CommandRows)
             /\ batches' \in [RemoteAgents -> SUBSET (1..Len(commands'))]
    BY <1>0, <1>6, RemoteFacts DEF Remote!DropBatch
<1> QED
    <2>1. ASSUME \/ Remote!Tick \/ UNCHANGED remoteVars
                 \/ \E o \in Operators, p \in RemotePrinters, k \in Remote!Kinds :
                       Remote!CheckRequest(o, p, k)
                 \/ \E p \in RemotePrinters, b \in BOOLEAN : Remote!PinReadOnly(p, b)
                 \/ \E e \in BOOLEAN, w \in BOOLEAN : Remote!SaveSettings(e, w)
                 \/ \E a \in RemoteAgents : Remote!PostResult(a) \/ Remote!LoseResult(a)
          PROVE  UNCHANGED <<commands, batches>>
        BY <2>1 DEF Remote!Tick, remoteVars, Remote!CheckRequest, Remote!PinReadOnly,
            Remote!SaveSettings, Remote!PostResult, Remote!LoseResult
    <2> QED
        BY <1>1, <1>2, <1>3, <1>4, <1>5, <1>6, <2>1
        DEF Remote!Next, Remote!OperatorNext, Remote!AgentNext

\* The types are kept.
LEMMA RemoteTypes ==
    ASSUME Remote!TypeOK, CommandsInv, [Remote!Next]_remoteVars
    PROVE  Remote!TypeOK'
<1> DEFINE Others ==
                   /\ time' \in 0..MaxTime - 1
                   /\ settings' \in [enabled : BOOLEAN, writes : BOOLEAN]
                   /\ printers' \in [RemotePrinters -> Remote!PrinterRows]
                   /\ posts' \in [Operators -> Remote!Posts \cup {None}]
                   /\ answers' \in [RemoteAgents -> Remote!Answers \cup {None}]
                   /\ carried' \in [1..MaxRequests -> Nat]
<1>1. CASE Remote!Tick
    BY <1>1, AdministrationAssumption DEF Remote!Tick, Remote!TypeOK, Remote!RemoteAssumption
<1>2. ASSUME NEW o \in Operators, NEW p \in RemotePrinters, NEW k \in Remote!Kinds,
             Remote!CheckRequest(o, p, k)
      PROVE  Others
    <2>1. Remote!Stale(p) \in SUBSET (1..MaxRequests)
        BY RemoteFacts DEF Remote!Stale, Remote!OpenRequests, Remote!Of
    <2>2. [printer |-> p, kind |-> k, stale |-> Remote!Stale(p)] \in Remote!Posts
        BY <2>1 DEF Remote!Posts
    <2> QED
        BY <1>2, <2>2 DEF Remote!CheckRequest, Remote!TypeOK
<1>3. ASSUME NEW o \in Operators, Remote!QueueRequest(o)
      PROVE  Others
    BY <1>3 DEF Remote!QueueRequest, Remote!TypeOK
<1>4. ASSUME NEW p \in RemotePrinters, NEW b \in BOOLEAN, Remote!PinReadOnly(p, b)
      PROVE  Others
    BY <1>4 DEF Remote!PinReadOnly, Remote!TypeOK, Remote!PrinterRows
<1>5. ASSUME NEW e \in BOOLEAN, NEW w \in BOOLEAN, Remote!SaveSettings(e, w)
      PROVE  Others
    BY <1>5 DEF Remote!SaveSettings, Remote!TypeOK
<1>6. ASSUME NEW a \in RemoteAgents,
             Remote!PullCommands(a) \/ Remote!LosePull(a) \/ Remote!QueueCommand(a)
      PROVE  Others
    BY <1>6 DEF Remote!PullCommands, Remote!LosePull, Remote!QueueCommand, Remote!TypeOK
<1>7. ASSUME NEW a \in RemoteAgents, Remote!DropBatch(a) \/ Remote!LoseResult(a)
      PROVE  Others
    BY <1>7 DEF Remote!DropBatch, Remote!LoseResult, Remote!TypeOK
<1>8. ASSUME NEW a \in RemoteAgents, Remote!PostResult(a)
      PROVE  Others
    <2>1. /\ UNCHANGED <<time, settings, posts, carried>>
          /\ answers' = [answers EXCEPT ![a] = None]
        BY <1>8 DEF Remote!PostResult
    <2>2. printers' \in [RemotePrinters -> Remote!PrinterRows]
        BY <1>8, AnswerChange
    <2> QED
        BY <2>1, <2>2 DEF Remote!TypeOK
<1>9. ASSUME NEW a \in RemoteAgents, NEW c \in batches[a], Remote!CarryOut(a, c)
      PROVE  Others
    <2>1. c \in DOMAIN commands /\ commands[c].request \in 1..MaxRequests
        BY <1>9, RemoteFacts DEF Remote!CarryOut, Remote!TypeOK, Remote!CommandRows
    <2> DEFINE r == commands[c].request
    <2>2. PICK result \in Remote!Outcomes(requests[r].kind) :
             /\ answers' = [answers EXCEPT ![a] =
                   [request |-> r, ok |-> result.ok, verdict |-> result.verdict]]
             /\ carried' = [carried EXCEPT ![r] = @ + 1]
        BY <1>9 DEF Remote!CarryOut
    <2>3. result.ok \in BOOLEAN /\ result.verdict \in BOOLEAN \cup {None}
        <3>1. r \in DOMAIN requests
            BY <1>9, <2>1, RemoteFacts DEF CommandsInv, Remote!CarryOut
        <3>2. requests[r].kind \in Remote!Kinds
            BY <3>1, RemoteFacts DEF Remote!RequestRows
        <3> HIDE DEF r
        <3> DEFINE k == requests[r].kind
        <3>3. k = "fetch" => Remote!Outcomes(k) = [ok : BOOLEAN, verdict : {None}]
            BY DEF Remote!Outcomes
        <3>4. k = "probe" => Remote!Outcomes(k) = [ok : {TRUE}, verdict : BOOLEAN]
                                                 \cup [ok : {FALSE}, verdict : {None}]
            BY DEF Remote!Outcomes
        <3>5. k = "write" => Remote!Outcomes(k) = {[ok |-> TRUE, verdict |-> TRUE],
                                                  [ok |-> FALSE, verdict |-> FALSE],
                                                  [ok |-> FALSE, verdict |-> None]}
            BY DEF Remote!Outcomes
        <3> HIDE DEF k
        <3>6. result \in Remote!Outcomes(k)
            BY <2>2 DEF k
        <3>7. CASE k = "fetch"
            <4>1. result \in [ok : BOOLEAN, verdict : {None}]
                BY <3>3, <3>6, <3>7
            <4> QED
                BY <4>1, Zenon
        <3>8. CASE k = "probe"
            BY <3>4, <3>6, <3>8
        <3>9. CASE k = "write"
            <4>1. \/ result = [ok |-> TRUE, verdict |-> TRUE]
                  \/ result = [ok |-> FALSE, verdict |-> FALSE]
                  \/ result = [ok |-> FALSE, verdict |-> None]
                BY <3>5, <3>6, <3>9
            <4>2. CASE result = [ok |-> TRUE, verdict |-> TRUE]
                BY <4>2, Zenon
            <4>3. CASE result = [ok |-> FALSE, verdict |-> FALSE]
                BY <4>3, Zenon
            <4>4. CASE result = [ok |-> FALSE, verdict |-> None]
                BY <4>4, Zenon
            <4> QED
                BY <4>1, <4>2, <4>3, <4>4
        <3> QED
            BY <3>2, <3>7, <3>8, <3>9 DEF k
    <2>4. [request |-> r, ok |-> result.ok, verdict |-> result.verdict] \in Remote!Answers
        BY <2>1, <2>3 DEF Remote!Answers
    <2>5. UNCHANGED <<time, settings, printers, posts>>
        BY <1>9 DEF Remote!CarryOut
    <2> QED
        BY <2>1, <2>2, <2>4, <2>5 DEF Remote!TypeOK
<1>10. ASSUME NEW a \in RemoteAgents, NEW c \in batches[a], Remote!HandleOther(a, c)
       PROVE  Others
    BY <1>10 DEF Remote!HandleOther, Remote!TypeOK
<1>11. CASE UNCHANGED remoteVars
    BY <1>11 DEF remoteVars, Remote!TypeOK
<1>12. CASE Remote!Next
    <2>1. Others \/ Remote!Tick
        BY <1>2, <1>3, <1>4, <1>5, <1>6, <1>7, <1>8, <1>9, <1>10, <1>12
        DEF Remote!Next, Remote!OperatorNext, Remote!AgentNext
    <2> QED
        BY <1>1, <2>1, RequestTypes, CommandTypes DEF Remote!TypeOK
<1> QED
    BY <1>11, <1>12

-----------------------------------------------------------------------------
(* What the steps preserve.                                                *)

\* The steps that touch no command, batch or answer but to forget some.
Quiet == /\ commands' = commands
         /\ \A a \in RemoteAgents : /\ batches'[a] \subseteq batches[a]
                                    /\ answers'[a] \in {answers[a], None}

LEMMA CommandSteps ==
    ASSUME Remote!TypeOK, CommandsInv, [Remote!Next]_remoteVars
    PROVE  \/ Quiet /\ carried' = carried
           \/ \E o \in Operators : Remote!QueueRequest(o)
           \/ \E a \in RemoteAgents : \/ Remote!QueueCommand(a)
                                      \/ Remote!PullCommands(a) \/ Remote!LosePull(a)
           \/ \E a \in RemoteAgents : \E c \in batches[a] : Remote!CarryOut(a, c)
<1> USE DEF Quiet
<1>1. ASSUME NEW a \in RemoteAgents,
             \/ Remote!DropBatch(a) \/ Remote!PostResult(a) \/ Remote!LoseResult(a)
             \/ \E c \in batches[a] : Remote!HandleOther(a, c)
      PROVE  Quiet /\ carried' = carried
    BY <1>1 DEF Remote!DropBatch, Remote!PostResult, Remote!LoseResult, Remote!HandleOther,
        Remote!TypeOK
<1>2. ASSUME \/ Remote!Tick \/ UNCHANGED remoteVars
             \/ \E o \in Operators, p \in RemotePrinters, k \in Remote!Kinds :
                   Remote!CheckRequest(o, p, k)
             \/ \E p \in RemotePrinters, b \in BOOLEAN : Remote!PinReadOnly(p, b)
             \/ \E e \in BOOLEAN, w \in BOOLEAN : Remote!SaveSettings(e, w)
      PROVE  Quiet /\ carried' = carried
    BY <1>2 DEF Remote!Tick, remoteVars, Remote!CheckRequest, Remote!PinReadOnly,
        Remote!SaveSettings
<1> QED
    BY <1>1, <1>2 DEF Remote!Next, Remote!OperatorNext, Remote!AgentNext

\* Every command and batch stays honest: a request's command is queued with
\* the request, and only what was marked is handed out.
LEMMA CommandsStep ==
    ASSUME Remote!TypeOK, CommandsInv, [Remote!Next]_remoteVars
    PROVE  CommandsInv'
<1> USE DEF CommandsInv
<1>0. /\ Len(requests) \in Nat /\ Len(requests') \in Nat /\ Len(requests) <= Len(requests')
      /\ DOMAIN commands = 1..Len(commands) /\ Len(commands) \in Nat
      /\ \A a \in RemoteAgents : batches[a] \subseteq DOMAIN commands
      /\ \A c \in DOMAIN commands :
            commands[c].request # None => commands[c].request \in Nat
      /\ \A a \in RemoteAgents : answers[a] # None => answers[a].request \in Nat
    BY RemoteFacts, RequestTypes DEF Remote!TypeOK, Remote!CommandRows, Remote!Answers
<1>1. CASE Quiet
    <2>1. \A a \in RemoteAgents : answers'[a] # None => answers'[a].request <= Len(requests')
        BY <1>0, <1>1 DEF Quiet
    <2>2. \A c \in DOMAIN commands' :
              commands'[c].request # None => commands'[c].request <= Len(requests')
        BY <1>0, <1>1 DEF Quiet
    <2> QED
        BY <1>1, <2>1, <2>2 DEF Quiet
<1>2. ASSUME NEW o \in Operators, Remote!QueueRequest(o)
      PROVE  CommandsInv'
    <2>1. /\ Len(commands') = Len(commands) + 1 /\ DOMAIN commands' = 1..Len(commands')
          /\ \A c \in DOMAIN commands : commands'[c] = commands[c]
          /\ commands'[Len(commands) + 1].request = Len(requests) + 1
          /\ Len(requests') = Len(requests) + 1
          /\ batches' = batches /\ answers' = answers
        BY <1>2, QueueCommandChange, QueueChange DEF Remote!QueueRequest
    <2> DEFINE n == Len(commands) + 1
    <2>2. DOMAIN commands' = DOMAIN commands \cup {n} /\ n \notin DOMAIN commands
        BY <1>0, <2>1
    <2>3. \A c \in DOMAIN commands' :
              commands'[c].request # None => commands'[c].request <= Len(requests')
        BY <1>0, <2>1, <2>2
    <2>4. \A c \in DOMAIN commands :
              commands[c].request # None => commands[c].request # Len(requests) + 1
        BY <1>0
    <2>5. ASSUME NEW c \in DOMAIN commands', NEW d \in DOMAIN commands',
                 commands'[c].request = commands'[d].request, commands'[c].request # None
          PROVE  c = d
        BY <2>1, <2>2, <2>4, <2>5
    <2>6. \A a \in RemoteAgents : \A c \in batches'[a] :
              commands'[c].agent = a /\ commands'[c].status = "sent"
        BY <1>0, <2>1
    <2>7. \A a \in RemoteAgents : answers'[a] # None => answers'[a].request <= Len(requests')
        BY <1>0, <2>1
    <2> QED
        BY <2>3, <2>5, <2>6, <2>7
<1>3. ASSUME NEW a \in RemoteAgents, Remote!QueueCommand(a)
      PROVE  CommandsInv'
    <2>1. [agent |-> a, request |-> None, status |-> "pending"] \in Remote!CommandRows
        BY DEF Remote!CommandRows
    <2>2. /\ Len(commands') = Len(commands) + 1 /\ DOMAIN commands' = 1..Len(commands')
          /\ \A c \in DOMAIN commands : commands'[c] = commands[c]
          /\ commands'[Len(commands) + 1].request = None
          /\ requests' = requests /\ batches' = batches /\ answers' = answers
        BY <1>3, <2>1, CommandQueued DEF Remote!QueueCommand
    <2>3. DOMAIN commands' = DOMAIN commands \cup {Len(commands) + 1}
        BY <1>0, <2>2
    <2> QED
        BY <1>0, <2>2, <2>3
<1>4. ASSUME NEW a \in RemoteAgents, Remote!PullCommands(a) \/ Remote!LosePull(a)
      PROVE  CommandsInv'
    <2> DEFINE S == Remote!Pending(a)
    <2>1. /\ Len(commands') = Len(commands) /\ DOMAIN commands' = DOMAIN commands
          /\ \A c \in DOMAIN commands :
                /\ commands'[c].agent = commands[c].agent
                /\ commands'[c].request = commands[c].request
                /\ commands'[c].status \in {commands[c].status, "sent"}
                /\ c \in S => commands'[c].status = "sent"
        BY <1>0, <1>4, MarkedSent DEF Remote!PullCommands, Remote!LosePull
    <2>2. requests' = requests /\ answers' = answers
        BY <1>4 DEF Remote!PullCommands, Remote!LosePull
    <2>3. batches'[a] \subseteq batches[a] \cup S /\ \A b \in RemoteAgents \ {a} : batches'[b] = batches[b]
        BY <1>4 DEF Remote!PullCommands, Remote!LosePull, Remote!TypeOK
    <2>4. \A c \in S : c \in DOMAIN commands /\ commands[c].agent = a
        BY DEF Remote!Pending
    <2> HIDE DEF S
    <2>5. \A b \in RemoteAgents : \A c \in batches'[b] :
              commands'[c].agent = b /\ commands'[c].status = "sent"
        BY <1>0, <2>1, <2>3, <2>4
    <2> QED
        BY <2>1, <2>2, <2>5
<1>5. ASSUME NEW a \in RemoteAgents, NEW c \in batches[a], Remote!CarryOut(a, c)
      PROVE  CommandsInv'
    <2>1. /\ commands[c].request # None /\ commands' = commands /\ requests' = requests
          /\ batches' = [batches EXCEPT ![a] = @ \ {c}]
          /\ answers'[a].request = commands[c].request
          /\ \A b \in RemoteAgents \ {a} : answers'[b] = answers[b]
        BY <1>5 DEF Remote!CarryOut, Remote!TypeOK
    <2>2. \A b \in RemoteAgents : batches'[b] \subseteq batches[b]
        BY <2>1 DEF Remote!TypeOK
    <2> QED
        BY <1>0, <2>1, <2>2
<1> QED
    BY <1>1, <1>2, <1>3, <1>4, <1>5, CommandSteps

\* A request that was carried out stays out of every batch, so nothing
\* carries it out again.
LEMMA CarriedStep ==
    ASSUME Remote!TypeOK, CommandsInv, CarriedInv, [Remote!Next]_remoteVars
    PROVE  CarriedInv'
<1> USE DEF CarriedInv
<1>0. /\ Len(requests) \in Nat /\ Len(requests') \in Nat /\ Len(requests) <= Len(requests')
      /\ DOMAIN commands = 1..Len(commands) /\ Len(commands) \in Nat
      /\ \A a \in RemoteAgents : batches[a] \subseteq DOMAIN commands
      /\ MaxRequests \in Nat
      /\ carried \in [1..MaxRequests -> Nat]
    BY RemoteFacts, RequestTypes DEF Remote!TypeOK
<1>1. CASE Quiet /\ carried' = carried
    BY <1>0, <1>1 DEF Quiet
<1>2. ASSUME NEW o \in Operators, Remote!QueueRequest(o)
      PROVE  CarriedInv'
    <2>1. /\ DOMAIN commands' = 1..Len(commands) + 1
          /\ \A c \in DOMAIN commands : commands'[c] = commands[c]
          /\ commands'[Len(commands) + 1].request = Len(requests) + 1
          /\ batches' = batches /\ carried' = carried
        BY <1>2, QueueCommandChange DEF Remote!QueueRequest
    <2>2. DOMAIN commands' = DOMAIN commands \cup {Len(commands) + 1}
        BY <1>0, <2>1
    <2>3. \A r \in 1..MaxRequests : r <= Len(requests) => r # Len(requests) + 1 /\ r <= Len(requests')
        BY <1>0
    <2>4. ASSUME NEW r \in 1..MaxRequests, carried'[r] # 0
          PROVE  /\ carried'[r] = 1 /\ r <= Len(requests') /\ r # None
                 /\ \A d \in DOMAIN commands' :
                       commands'[d].request = r =>
                          /\ commands'[d].status = "sent"
                          /\ \A b \in RemoteAgents : d \notin batches'[b]
        <3>1. /\ carried[r] = 1 /\ r <= Len(requests) /\ r # None
              /\ \A d \in DOMAIN commands :
                    commands[d].request = r =>
                       /\ commands[d].status = "sent"
                       /\ \A b \in RemoteAgents : d \notin batches[b]
            BY <2>1, <2>4
        <3>2. r # Len(requests) + 1 /\ r <= Len(requests')
            BY <2>3, <3>1
        <3> QED
            BY <2>1, <2>2, <3>1, <3>2
    <2> QED
        BY <2>4
<1>3. ASSUME NEW a \in RemoteAgents, Remote!QueueCommand(a)
      PROVE  CarriedInv'
    <2>1. [agent |-> a, request |-> None, status |-> "pending"] \in Remote!CommandRows
        BY DEF Remote!CommandRows
    <2>2. /\ DOMAIN commands' = 1..Len(commands) + 1
          /\ \A c \in DOMAIN commands : commands'[c] = commands[c]
          /\ commands'[Len(commands) + 1].request = None
          /\ requests' = requests /\ batches' = batches /\ carried' = carried
        BY <1>3, <2>1, CommandQueued DEF Remote!QueueCommand
    <2>3. DOMAIN commands' = DOMAIN commands \cup {Len(commands) + 1}
        BY <1>0, <2>2
    <2> QED
        BY <1>0, <2>2, <2>3
<1>4. ASSUME NEW a \in RemoteAgents, Remote!PullCommands(a) \/ Remote!LosePull(a)
      PROVE  CarriedInv'
    <2> DEFINE S == Remote!Pending(a)
    <2>1. /\ DOMAIN commands' = DOMAIN commands
          /\ \A c \in DOMAIN commands :
                /\ commands'[c].request = commands[c].request
                /\ commands'[c].status \in {commands[c].status, "sent"}
        BY <1>0, <1>4, MarkedSent DEF Remote!PullCommands, Remote!LosePull
    <2>2. requests' = requests /\ carried' = carried
        BY <1>4 DEF Remote!PullCommands, Remote!LosePull
    <2>3. \A b \in RemoteAgents : batches'[b] \subseteq batches[b] \cup S
        BY <1>4 DEF Remote!PullCommands, Remote!LosePull, Remote!TypeOK
    <2>4. \A c \in S : commands[c].status # "sent"
        BY DEF Remote!Pending
    <2> HIDE DEF S
    <2> QED
        BY <2>1, <2>2, <2>3, <2>4
<1>5. ASSUME NEW a \in RemoteAgents, NEW c \in batches[a], Remote!CarryOut(a, c)
      PROVE  CarriedInv'
    <2> DEFINE r == commands[c].request
    <2>1. /\ r # None /\ commands' = commands /\ requests' = requests
          /\ batches' = [batches EXCEPT ![a] = @ \ {c}]
          /\ carried' = [carried EXCEPT ![r] = @ + 1]
        BY <1>5 DEF Remote!CarryOut
    <2>2. /\ c \in DOMAIN commands /\ r \in 1..MaxRequests /\ r <= Len(requests)
          /\ commands[c].agent = a /\ commands[c].status = "sent"
        BY <1>0, <2>1, RemoteFacts DEF Remote!CommandRows, CommandsInv
    <2>3. carried[r] = 0 /\ \A d \in DOMAIN commands : commands[d].request = r => d = c
        BY <1>0, <2>1, <2>2 DEF CommandsInv
    <2>4. /\ carried'[r] = 1 /\ \A q \in 1..MaxRequests \ {r} : carried'[q] = carried[q]
          /\ \A b \in RemoteAgents : batches'[b] \subseteq batches[b]
          /\ c \notin batches'[a]
        BY <1>0, <2>1, <2>2, <2>3 DEF Remote!TypeOK
    <2>5. \A b \in RemoteAgents : c \notin batches'[b]
        BY <2>2, <2>4 DEF CommandsInv
    <2> HIDE DEF r
    <2>6. ASSUME NEW q \in 1..MaxRequests, carried'[q] # 0
          PROVE  /\ carried'[q] = 1 /\ q <= Len(requests') /\ q # None
                 /\ \A d \in DOMAIN commands' :
                       commands'[d].request = q =>
                          /\ commands'[d].status = "sent"
                          /\ \A b \in RemoteAgents : d \notin batches'[b]
        <3>1. CASE q = r
            BY <2>1, <2>2, <2>3, <2>4, <2>5, <3>1
        <3>2. CASE q # r
            BY <2>1, <2>4, <2>6, <3>2
        <3> QED
            BY <3>1, <3>2
    <2> QED
        BY <2>6
<1> QED
    BY <1>1, <1>2, <1>3, <1>4, <1>5, CommandSteps

\* A commit leaves of an old row everything but the status, which it may set
\* to expired.
LEMMA QueueKeeps ==
    ASSUME Remote!TypeOK, NEW o \in Operators, Remote!QueueRequest(o)
    PROVE  \A r \in DOMAIN requests :
              /\ requests'[r].printer = requests[r].printer
              /\ requests'[r].kind = requests[r].kind
              /\ requests'[r].created = requests[r].created
              /\ requests'[r].verdict = requests[r].verdict
              /\ requests'[r].status \in {requests[r].status, "expired"}
<1> TAKE r \in DOMAIN requests
<1>1. requests[r] \in Remote!RequestRows
    BY RemoteFacts
<1>2. CASE requests'[r] = requests[r]
    BY <1>2
<1>3. CASE requests'[r] = [requests[r] EXCEPT !.status = "expired"]
    BY <1>1, <1>3, RowExpired
<1> QED
    BY <1>2, <1>3, QueueChange

\* What proves a printer writable stays recorded.
LEMMA VerdictsKept ==
    ASSUME Remote!TypeOK, ProofsInv, [Remote!Next]_remoteVars
    PROVE  \A r \in DOMAIN requests :
              requests[r].verdict = TRUE =>
                 /\ r \in DOMAIN requests'
                 /\ requests'[r].printer = requests[r].printer
                 /\ requests'[r].verdict = TRUE
<1>0. /\ DOMAIN requests = 1..Len(requests) /\ Len(requests) \in Nat
      /\ DOMAIN requests' = 1..Len(requests') /\ Len(requests') \in Nat
      /\ Len(requests) <= Len(requests')
      /\ \A r \in DOMAIN requests : requests[r].verdict = TRUE => requests[r].status \notin Remote!Open
    <2>1. /\ DOMAIN requests = 1..Len(requests) /\ Len(requests) \in Nat
          /\ DOMAIN requests' = 1..Len(requests') /\ Len(requests') \in Nat
          /\ Len(requests) <= Len(requests')
        BY RemoteFacts, RequestTypes
    <2>2. None # TRUE
        BY RemoteFacts
    <2>3. \A r \in DOMAIN requests : requests[r].status \in Remote!Open => requests[r].verdict = None
        BY DEF ProofsInv
    <2> QED
        BY <2>1, <2>2, <2>3
<1>1. CASE UNCHANGED requests
    BY <1>1
<1>2. CASE \E o \in Operators : Remote!QueueRequest(o)
    BY <1>0, <1>2, QueueKeeps
<1>3. CASE \E a \in RemoteAgents : Remote!PostResult(a)
    BY <1>0, <1>3, AnswerChange
<1> QED
    BY <1>1, <1>2, <1>3, RequestSteps

\* No write without its proof: a capability says writable only after an
\* answer said so, and a write is queued only by a check that read it.
LEMMA ProofsStep ==
    ASSUME Remote!TypeOK, CommandsInv, ProofsInv, [Remote!Next]_remoteVars
    PROVE  ProofsInv'
<1>0. /\ DOMAIN requests = 1..Len(requests) /\ Len(requests) \in Nat
      /\ DOMAIN requests' = 1..Len(requests') /\ Len(requests') \in Nat
      /\ Len(requests) <= Len(requests')
    BY RemoteFacts, RequestTypes
<1>1. \A q \in RemotePrinters : \A n \in Nat : Proved(q, n) =>
         \E r \in DOMAIN requests' :
            r <= n /\ requests'[r].printer = q /\ requests'[r].verdict = TRUE
    BY VerdictsKept DEF Proved
<1>2. \A q \in RemotePrinters : Proved(q, Len(requests)) =>
         \E r \in DOMAIN requests' :
            r <= Len(requests') /\ requests'[r].printer = q /\ requests'[r].verdict = TRUE
    <2>1. \A r \in DOMAIN requests' : r <= Len(requests')
        BY <1>0
    <2> QED
        BY <1>0, <1>1, <2>1
<1> DEFINE Closed == \A r \in DOMAIN requests' :
                        requests'[r].status \in Remote!Open => requests'[r].verdict = None
           Able   == \A q \in RemotePrinters :
                        printers'[q].capability = "writable" =>
                        \E r \in DOMAIN requests' :
                           r <= Len(requests') /\ requests'[r].printer = q /\ requests'[r].verdict = TRUE
           Asked  == \A o \in Operators :
                        posts'[o] # None /\ posts'[o].kind = "write" =>
                        \E r \in DOMAIN requests' :
                           /\ r <= Len(requests') /\ requests'[r].printer = posts'[o].printer
                           /\ requests'[r].verdict = TRUE
           Backed == \A w \in DOMAIN requests' :
                        requests'[w].kind = "write" =>
                        \E r \in DOMAIN requests' :
                           /\ r <= w - 1 /\ requests'[r].printer = requests'[w].printer
                           /\ requests'[r].verdict = TRUE
<1>3. Closed /\ Able /\ Asked /\ Backed => ProofsInv'
    BY DEF ProofsInv, Proved
<1>4. \A w \in DOMAIN requests : requests[w].printer \in RemotePrinters /\ w - 1 \in Nat
    BY <1>0, RemoteFacts DEF Remote!RequestRows
<1>5. \A o \in Operators : posts[o] # None => posts[o].printer \in RemotePrinters
    BY DEF Remote!TypeOK, Remote!Posts
<1>6. ASSUME requests' = requests
      PROVE  Closed /\ Backed
    BY <1>1, <1>4, <1>6 DEF ProofsInv
<1>7. ASSUME \A o \in Operators : posts'[o] \in {posts[o], None}
      PROVE  Asked
    BY <1>2, <1>5, <1>7 DEF ProofsInv
<1>8. ASSUME \A q \in RemotePrinters : printers'[q].capability = printers[q].capability
      PROVE  Able
    BY <1>2, <1>8 DEF ProofsInv
<1>9. ASSUME NEW o \in Operators, NEW q \in RemotePrinters, NEW k \in Remote!Kinds,
             Remote!CheckRequest(o, q, k)
      PROVE  ProofsInv'
    <2>1. /\ requests' = requests /\ printers' = printers
          /\ posts'[o].printer = q /\ posts'[o].kind = k
          /\ \A u \in Operators \ {o} : posts'[u] = posts[u]
          /\ k = "write" => printers[q].capability = "writable"
        BY <1>9 DEF Remote!CheckRequest, Remote!WritesAllowed, Remote!TypeOK
    <2>2. Asked
        <3> TAKE u \in Operators
        <3>1. CASE u = o
            BY <1>2, <2>1, <3>1 DEF ProofsInv
        <3>2. CASE u # o
            BY <1>2, <1>5, <2>1, <3>2 DEF ProofsInv
        <3> QED
            BY <3>1, <3>2
    <2> HIDE DEF Asked, Able, Backed, Closed
    <2> QED
        BY <1>3, <1>6, <1>8, <2>1, <2>2
<1>10. ASSUME NEW o \in Operators, Remote!QueueRequest(o)
       PROVE  ProofsInv'
    <2> DEFINE m == Len(requests) + 1
    <2>1. /\ Len(requests') = m /\ DOMAIN requests' = DOMAIN requests \cup {m}
          /\ requests'[m].printer = posts[o].printer
          /\ requests'[m].kind = posts[o].kind
          /\ requests'[m].status = "pending"
          /\ requests'[m].verdict = None
        <3>1. /\ Len(requests') = m
              /\ requests'[m].printer = posts[o].printer
              /\ requests'[m].kind = posts[o].kind
              /\ requests'[m].status = "pending"
              /\ requests'[m].verdict = None
            BY <1>10, QueueChange
        <3>2. DOMAIN requests' = DOMAIN requests \cup {m}
            BY <1>0, <3>1
        <3> QED
            BY <3>1, <3>2
    <2>2. posts[o] # None /\ printers' = printers /\ \A u \in Operators : posts'[u] \in {posts[u], None}
        BY <1>10 DEF Remote!QueueRequest, Remote!TypeOK
    <2>3. Closed
        <3> TAKE r \in DOMAIN requests'
        <3>1. CASE r = m
            BY <2>1, <3>1
        <3>2. CASE r \in DOMAIN requests
            BY <1>10, <3>2, QueueKeeps DEF ProofsInv
        <3> QED
            BY <2>1, <3>1, <3>2
    <2>4. Backed
        <3> TAKE w \in DOMAIN requests'
        <3>1. CASE w = m
            <4>1. m - 1 = Len(requests) /\ Len(requests) \in Nat
                BY <1>0
            <4>2. posts[o].kind = "write" => Proved(posts[o].printer, Len(requests))
                BY <2>2 DEF ProofsInv
            <4>3. posts[o].printer \in RemotePrinters
                BY <1>5, <2>2
            <4> HIDE DEF m
            <4> QED
                BY <1>1, <2>1, <3>1, <4>1, <4>2, <4>3
        <3>2. CASE w \in DOMAIN requests
            <4>1. requests'[w].kind = requests[w].kind /\ requests'[w].printer = requests[w].printer
                BY <1>10, <3>2, QueueKeeps
            <4>2. requests[w].printer \in RemotePrinters /\ w - 1 \in Nat
                BY <1>4, <3>2
            <4>3. requests[w].kind = "write" => Proved(requests[w].printer, w - 1)
                BY <3>2 DEF ProofsInv
            <4> QED
                BY <1>1, <4>1, <4>2, <4>3
        <3> QED
            BY <2>1, <3>1, <3>2
    <2> HIDE DEF Asked, Able, Backed, Closed
    <2> QED
        BY <1>3, <1>7, <1>8, <2>2, <2>3, <2>4
<1>11. ASSUME NEW a \in RemoteAgents, Remote!PostResult(a)
       PROVE  ProofsInv'
    <2>1. /\ Len(requests') = Len(requests) /\ DOMAIN requests' = DOMAIN requests
          /\ \A r \in DOMAIN requests :
                 \/ requests'[r] = requests[r]
                 \/ /\ requests'[r].status \notin Remote!Open
                    /\ requests'[r].printer = requests[r].printer
                    /\ requests'[r].kind = requests[r].kind
        BY <1>0, <1>11, AnswerChange
    <2>2. posts' = posts
        BY <1>11 DEF Remote!PostResult
    <2>3. \A q \in RemotePrinters :
                 \/ printers'[q].capability \in {printers[q].capability, "read_only"}
                 \/ \E r \in DOMAIN requests : 
                       requests'[r].printer = q /\ requests'[r].verdict = TRUE
        <3>1. answers[a].request <= Len(requests)
            BY <1>11 DEF Remote!PostResult, CommandsInv
        <3> QED
            BY <1>11, <3>1, AnswerChange
    <2>4. Closed
        BY <2>1 DEF ProofsInv
    <2>5. Backed
        BY <1>1, <1>4, <2>1 DEF ProofsInv
    <2>6. Able
        <3>1. \A r \in DOMAIN requests' : r <= Len(requests')
            BY <1>0
        <3>2. \A q \in RemotePrinters : printers[q].capability = "writable" => Proved(q, Len(requests))
            BY DEF ProofsInv
        <3> QED
            BY <1>2, <2>1, <2>3, <3>1, <3>2
    <2> HIDE DEF Asked, Able, Backed, Closed
    <2> QED
        BY <1>3, <1>7, <2>2, <2>4, <2>5, <2>6
<1>12. ASSUME UNCHANGED <<requests, posts>>,
              \A q \in RemotePrinters : printers'[q].capability = printers[q].capability
       PROVE  ProofsInv'
    <2> HIDE DEF Asked, Able, Backed, Closed
    <2> QED
        BY <1>3, <1>6, <1>7, <1>8, <1>12
<1> HIDE DEF Asked, Able, Backed, Closed
<1>13. ASSUME NEW q \in RemotePrinters, NEW b \in BOOLEAN, Remote!PinReadOnly(q, b)
       PROVE  ProofsInv'
    <2>1. UNCHANGED <<requests, posts>> /\ \A r \in RemotePrinters : printers'[r].capability = printers[r].capability
        BY <1>13 DEF Remote!PinReadOnly, Remote!TypeOK, Remote!PrinterRows
    <2> QED
        BY <1>12, <2>1
<1>14. ASSUME NEW a \in RemoteAgents,
              \/ Remote!PullCommands(a) \/ Remote!LosePull(a) \/ Remote!DropBatch(a)
              \/ Remote!LoseResult(a) \/ Remote!QueueCommand(a)
              \/ \E c \in batches[a] : Remote!CarryOut(a, c) \/ Remote!HandleOther(a, c)
       PROVE  UNCHANGED <<requests, posts, printers>>
    BY <1>14 DEF Remote!PullCommands, Remote!LosePull, Remote!DropBatch, Remote!LoseResult,
        Remote!QueueCommand, Remote!CarryOut, Remote!HandleOther
<1>15. ASSUME \/ Remote!Tick \/ UNCHANGED remoteVars
              \/ \E e \in BOOLEAN, w \in BOOLEAN : Remote!SaveSettings(e, w)
       PROVE  UNCHANGED <<requests, posts, printers>>
    BY <1>15 DEF Remote!Tick, remoteVars, Remote!SaveSettings
<1> QED
    BY <1>9, <1>10, <1>11, <1>12, <1>13, <1>14, <1>15
    DEF Remote!Next, Remote!OperatorNext, Remote!AgentNext

\* The open requests of a printer, and who is posting to it, are finite sets.
LEMMA OpenCounted ==
    ASSUME Remote!TypeOK, NEW p
    PROVE  /\ IsFiniteSet(Standing(p)) /\ IsFiniteSet(Posting(p)) /\ IsFiniteSet(Operators)
           /\ Cardinality(Standing(p)) \in Nat /\ Cardinality(Posting(p)) \in Nat
           /\ Cardinality(Operators) \in Nat
           /\ Cardinality(Posting(p)) <= Cardinality(Operators)
           /\ MaxOpen \in Nat
<1>1. IsFiniteSet(Operators) /\ MaxOpen \in Nat
    BY AdministrationAssumption, InstancesCount DEF Remote!RemoteAssumption
<1>2. IsFiniteSet(1..Len(requests))
    BY RemoteFacts, FS_Interval
<1>3. Standing(p) \subseteq 1..Len(requests) /\ Posting(p) \subseteq Operators
    BY RemoteFacts DEF Standing, Posting
<1>4. IsFiniteSet(Standing(p)) /\ IsFiniteSet(Posting(p))
    BY <1>1, <1>2, <1>3, FS_Subset
<1> QED
    BY <1>1, <1>3, <1>4, FewerCounted, FS_CardinalityType

\* The bound survives any step that neither adds a row nor checks a POST.
LEMMA OpenKept ==
    ASSUME Remote!TypeOK, OpenInv, NEW p, p \in RemotePrinters,
           Standing(p)' \subseteq Standing(p), Posting(p)' \subseteq Posting(p), MaxOpen # 0
    PROVE  Cardinality(Standing(p)') + Cardinality(Posting(p)') <= MaxOpen + Cardinality(Operators) - 1
<1>1. Cardinality(Standing(p)') \in Nat /\ Cardinality(Standing(p)') <= Cardinality(Standing(p))
    BY OpenCounted, FewerCounted
<1>2. Cardinality(Posting(p)') \in Nat /\ Cardinality(Posting(p)') <= Cardinality(Posting(p))
    BY OpenCounted, FewerCounted
<1>3. Cardinality(Standing(p)) + Cardinality(Posting(p)) <= MaxOpen + Cardinality(Operators) - 1
    BY DEF OpenInv
<1>4. /\ Cardinality(Standing(p)) \in Nat /\ Cardinality(Posting(p)) \in Nat
      /\ Cardinality(Operators) \in Nat /\ MaxOpen \in Nat
    BY OpenCounted
<1> QED
    BY <1>1, <1>2, <1>3, <1>4

LEMMA OpenStep ==
    ASSUME Remote!TypeOK, OpenInv, [Remote!Next]_remoteVars
    PROVE  OpenInv'
<1> SUFFICES ASSUME MaxOpen # 0, NEW p \in RemotePrinters
             PROVE  Cardinality(Standing(p)') + Cardinality(Posting(p)')
                       <= MaxOpen + Cardinality(Operators) - 1
    BY DEF OpenInv
<1> DEFINE Goal == Cardinality(Standing(p)') + Cardinality(Posting(p)')
                      <= MaxOpen + Cardinality(Operators) - 1
<1>0. Remote!TypeOK /\ DOMAIN requests = 1..Len(requests) /\ Len(requests) \in Nat
    BY RemoteFacts
<1>1. ASSUME Standing(p)' \subseteq Standing(p), Posting(p)' \subseteq Posting(p)
      PROVE  Goal
    BY <1>1, OpenKept
<1>2. ASSUME requests' = requests, posts' = posts
      PROVE  Goal
    BY <1>1, <1>2 DEF Standing, Posting
<1>3. CASE Remote!Tick
    BY <1>2, <1>3 DEF Remote!Tick
<1>4. ASSUME NEW o \in Operators, NEW q \in RemotePrinters, NEW k \in Remote!Kinds,
             Remote!CheckRequest(o, q, k)
      PROVE  Goal
    <2>1. /\ requests' = requests
          /\ posts'[o].printer = q /\ \A u \in Operators \ {o} : posts'[u] = posts[u]
        BY <1>4 DEF Remote!CheckRequest, Remote!TypeOK
    <2>2. Standing(p)' = Standing(p)
        BY <2>1 DEF Standing
    <2>3. CASE p # q
        BY <1>1, <2>1, <2>2, <2>3 DEF Posting
    <2>4. CASE p = q
        <3>1. Cardinality(Standing(p)) < MaxOpen
            <4>1. Remote!Cardinality(Remote!OpenRequests(p)) < MaxOpen
                BY <1>4, <2>4 DEF Remote!CheckRequest, Remote!WithinRate
            <4> QED
                BY <4>1, InstancesCount DEF Standing, Remote!OpenRequests, Remote!Of
        <3>2. Posting(p)' \subseteq Operators
            BY DEF Posting
        <3>3. Cardinality(Posting(p)') \in Nat /\ Cardinality(Posting(p)') <= Cardinality(Operators)
            BY <3>2, OpenCounted, FewerCounted
        <3>4. /\ Cardinality(Standing(p)) \in Nat /\ Cardinality(Operators) \in Nat /\ MaxOpen \in Nat
            BY OpenCounted
        <3> QED
            BY <2>2, <3>1, <3>3, <3>4
    <2> QED
        BY <2>3, <2>4
<1>5. ASSUME NEW o \in Operators, Remote!QueueRequest(o)
      PROVE  Goal
    <2> DEFINE m == Len(requests) + 1
    <2>1. Len(requests') = m /\ requests' \in Seq(Remote!RequestRows)
          /\ requests'[m].printer = posts[o].printer
        BY <1>5, QueueChange
    <2>2. DOMAIN requests' = DOMAIN requests \cup {m}
        BY <1>0, <2>1
    <2>3. /\ posts[o] # None /\ posts'[o] = None
          /\ \A u \in Operators \ {o} : posts'[u] = posts[u]
        BY <1>5 DEF Remote!QueueRequest, Remote!TypeOK
    <2>4. \A r \in DOMAIN requests : r \in Standing(p)' => r \in Standing(p)
        <3> TAKE r \in DOMAIN requests
        <3>1. /\ requests'[r].printer = requests[r].printer
              /\ requests'[r].status \in {requests[r].status, "expired"}
            BY <1>5, QueueKeeps
        <3> QED
            BY <3>1 DEF Standing, Remote!Open
    <2> HIDE DEF m
    <2>5. CASE posts[o].printer # p
        <3>1. Standing(p)' \subseteq Standing(p)
            BY <2>1, <2>2, <2>4, <2>5 DEF Standing
        <3>2. Posting(p)' \subseteq Posting(p)
            BY <2>3 DEF Posting
        <3> QED
            BY <1>1, <3>1, <3>2
    <2>6. CASE posts[o].printer = p
        <3>1. Standing(p)' \subseteq Standing(p) \cup {m}
            BY <2>2, <2>4 DEF Standing
        <3>2. o \in Posting(p) /\ Posting(p)' \subseteq Posting(p) \ {o}
            BY <2>3, <2>6 DEF Posting
        <3>3. /\ Cardinality(Standing(p)') \in Nat
              /\ Cardinality(Standing(p)') <= Cardinality(Standing(p)) + 1
            BY <3>1, OpenCounted, OneMoreCounted
        <3>4. /\ Cardinality(Posting(p)') \in Nat
              /\ Cardinality(Posting(p)') + 1 <= Cardinality(Posting(p))
            BY <3>2, OpenCounted, OneLessCounted
        <3>5. /\ Cardinality(Standing(p)) \in Nat /\ Cardinality(Posting(p)) \in Nat
              /\ Cardinality(Operators) \in Nat /\ MaxOpen \in Nat
            BY OpenCounted
        <3>6. Cardinality(Standing(p)) + Cardinality(Posting(p)) <= MaxOpen + Cardinality(Operators) - 1
            BY DEF OpenInv
        <3> QED
            BY <3>3, <3>4, <3>5, <3>6
    <2> QED
        BY <2>5, <2>6
<1>6. ASSUME NEW a \in RemoteAgents, Remote!PostResult(a)
      PROVE  Goal
    <2>1. /\ Len(requests') = Len(requests) /\ requests' \in Seq(Remote!RequestRows)
          /\ \A r \in DOMAIN requests :
                 requests'[r] = requests[r] \/ requests'[r].status \notin Remote!Open
        BY <1>6, AnswerChange
    <2>2. DOMAIN requests' = DOMAIN requests
        BY <1>0, <2>1
    <2>3. posts' = posts
        BY <1>6 DEF Remote!PostResult
    <2>4. Standing(p)' \subseteq Standing(p)
        BY <2>1, <2>2, <2>3 DEF Standing
    <2> QED
        BY <1>1, <2>3, <2>4 DEF Posting
<1>7. ASSUME NEW a \in RemoteAgents,
             \/ Remote!PullCommands(a) \/ Remote!LosePull(a) \/ Remote!DropBatch(a)
             \/ Remote!LoseResult(a) \/ Remote!QueueCommand(a)
             \/ \E c \in batches[a] : Remote!CarryOut(a, c) \/ Remote!HandleOther(a, c)
      PROVE  UNCHANGED <<requests, posts>>
    BY <1>7 DEF Remote!PullCommands, Remote!LosePull, Remote!DropBatch, Remote!LoseResult,
        Remote!QueueCommand, Remote!CarryOut, Remote!HandleOther
<1>8. ASSUME \/ UNCHANGED remoteVars
             \/ \E q \in RemotePrinters, b \in BOOLEAN : Remote!PinReadOnly(q, b)
             \/ \E e \in BOOLEAN, w \in BOOLEAN : Remote!SaveSettings(e, w)
      PROVE  UNCHANGED <<requests, posts>>
    BY <1>8 DEF remoteVars, Remote!SaveSettings, Remote!PinReadOnly
<1> HIDE DEF Goal
<1>9. CASE UNCHANGED remoteVars
    BY <1>2, <1>8, <1>9 DEF Goal
<1>10. CASE Remote!OperatorNext
    BY <1>2, <1>4, <1>5, <1>7, <1>8, <1>10 DEF Remote!OperatorNext, Goal
<1>11. CASE Remote!AgentNext
    BY <1>2, <1>6, <1>7, <1>11 DEF Remote!AgentNext, Goal
<1> QED
    BY <1>3, <1>9, <1>10, <1>11 DEF Remote!Next, Goal

-----------------------------------------------------------------------------
(* The theorems about remote hands.                                        *)

\* The inductive invariant of remote hands: honest commands, requests carried
\* out once, writes backed by answers and printers within their rate, with any
\* operator between its check and its commit and any pull, batch or answer
\* lost (remote.py, get_commands, handle_remote, apply_remote_result).
THEOREM RemoteInvariant == Remote!Spec => [](Remote!TypeOK /\ RemoteInv)
<1>1. Remote!Init => Remote!TypeOK /\ RemoteInv
    <2> SUFFICES ASSUME Remote!Init PROVE Remote!TypeOK /\ RemoteInv
        OBVIOUS
    <2>1. Remote!TypeOK
        BY AdministrationAssumption DEF Remote!Init, Remote!TypeOK, Remote!RemoteAssumption,
            Remote!PrinterRows
    <2>2. DOMAIN requests = {} /\ DOMAIN commands = {}
        BY DEF Remote!Init
    <2>3. CommandsInv /\ CarriedInv
        BY <2>2 DEF Remote!Init, CommandsInv, CarriedInv
    <2>4. ProofsInv
        BY <2>2 DEF Remote!Init, ProofsInv
    <2>5. OpenInv
        <3> SUFFICES ASSUME MaxOpen # 0, NEW p \in RemotePrinters
                     PROVE  Cardinality(Standing(p)) + Cardinality(Posting(p))
                               <= MaxOpen + Cardinality(Operators) - 1
            BY DEF OpenInv
        <3>1. Standing(p) = {} /\ Posting(p) = {}
            BY <2>2 DEF Remote!Init, Standing, Posting
        <3>2. Cardinality({}) = 0
            BY FS_EmptySet
        <3>3. Cardinality(Operators) \in Nat /\ MaxOpen \in Nat
            BY <2>1, OpenCounted
        <3> QED
            BY <3>1, <3>2, <3>3
    <2> QED
        BY <2>1, <2>3, <2>4, <2>5 DEF RemoteInv
<1>2. Remote!TypeOK /\ RemoteInv /\ [Remote!Next]_remoteVars => (Remote!TypeOK /\ RemoteInv)'
    BY RemoteTypes, CommandsStep, CarriedStep, ProofsStep, OpenStep DEF RemoteInv
<1> QED
    BY <1>1, <1>2, PTL DEF Remote!Spec, Remote!vars, remoteVars

\* The tables of remote hands keep their types: whatever the POSTs, pulls and
\* answers do, every row is of a printer, an agent and a status there is.
THEOREM RemoteTypesKept == Remote!Spec => []Remote!TypeOK
BY RemoteInvariant, PTL

\* No request is carried out twice (get_commands, handle_remote).
THEOREM CarriedOnce == Remote!Spec => []Remote!AtMostOnce
<1>1. ASSUME Remote!TypeOK, RemoteInv
      PROVE  Remote!AtMostOnce
    <2> SUFFICES ASSUME NEW r \in 1..MaxRequests
                 PROVE  carried[r] <= 1
        BY DEF Remote!AtMostOnce
    <2> QED
        BY <1>1 DEF RemoteInv, CarriedInv
<1> QED
    BY <1>1, RemoteInvariant, PTL

\* A write was queued only on a printer some earlier request had proved
\* writable (writes_allowed, apply_remote_result).
THEOREM WritesWereProven == Remote!Spec => []Remote!WritesProven
<1>1. ASSUME Remote!TypeOK, RemoteInv
      PROVE  Remote!WritesProven
    <2> SUFFICES ASSUME NEW w \in DOMAIN requests, requests[w].kind = "write"
                 PROVE  \E r \in 1..(w - 1) : /\ requests[r].printer = requests[w].printer
                                              /\ requests[r].verdict = TRUE
        BY DEF Remote!WritesProven
    <2>1. PICK r \in DOMAIN requests : /\ r <= w - 1 /\ requests[r].printer = requests[w].printer
                                       /\ requests[r].verdict = TRUE
        BY <1>1 DEF RemoteInv, ProofsInv, Proved
    <2>2. w \in Nat /\ r \in Nat /\ 1 <= r
        BY <1>1, RemoteFacts
    <2>3. r \in 1..(w - 1)
        BY <2>1, <2>2
    <2> QED
        BY <2>1, <2>3
<1> QED
    BY <1>1, RemoteInvariant, PTL

\* However many operators press at once, a printer has no more requests open
\* than the cap and one for each operator but the first (check_rate_limit
\* reads before the commit).
THEOREM OpenWithinRate == Remote!Spec => []Remote!OpenBounded
<1>1. ASSUME Remote!TypeOK, RemoteInv
      PROVE  Remote!OpenBounded
    <2> SUFFICES ASSUME MaxOpen # 0, NEW p \in RemotePrinters
                 PROVE  Cardinality(Standing(p)) <= MaxOpen + Cardinality(Operators) - 1
        BY InstancesCount DEF Remote!OpenBounded, Remote!OpenRequests, Remote!Of, Standing
    <2>1. Cardinality(Standing(p)) + Cardinality(Posting(p)) <= MaxOpen + Cardinality(Operators) - 1
        BY <1>1 DEF RemoteInv, OpenInv
    <2>2. /\ Cardinality(Standing(p)) \in Nat /\ Cardinality(Posting(p)) \in Nat
          /\ Cardinality(Operators) \in Nat /\ MaxOpen \in Nat
        BY <1>1, OpenCounted
    <2> QED
        BY <2>1, <2>2
<1> QED
    BY <1>1, RemoteInvariant, PTL

\* A settled request stays as it is, but for a POST that read it while it was
\* open and writes it expired (post_remote_result, expire_stale).
THEOREM SettledStays == Remote!Spec => Remote!AnswersSettle
<1> DEFINE Settles == \A r \in DOMAIN requests :
                         requests[r].status \notin Remote!Open =>
                            \/ requests'[r] = requests[r]
                            \/ \E o \in Operators :
                                  /\ posts[o] # None /\ r \in posts[o].stale
                                  /\ requests'[r] = [requests[r] EXCEPT !.status = "expired"]
<1>1. Remote!TypeOK /\ [Remote!Next]_remoteVars => [Settles]_remoteVars
    <2> SUFFICES ASSUME Remote!TypeOK, [Remote!Next]_remoteVars
                 PROVE  Settles
        OBVIOUS
    <2>1. CASE UNCHANGED requests
        BY <2>1
    <2>2. ASSUME NEW o \in Operators, Remote!QueueRequest(o)
          PROVE  Settles
        <3>1. posts[o] # None
            BY <2>2 DEF Remote!QueueRequest
        <3> QED
            BY <2>2, <3>1, QueueChange
    <2>3. ASSUME NEW a \in RemoteAgents, Remote!PostResult(a)
          PROVE  Settles
        BY <2>3, AnswerChange
    <2> QED
        BY <2>1, <2>2, <2>3, RequestSteps
<1> QED
    BY <1>1, RemoteTypesKept, PTL DEF Remote!Spec, Remote!AnswersSettle, Remote!vars, remoteVars

\* An agent writes to a printer once, by proof and within its rate, and an
\* installation has one identity: what the run checks of the agents together
\* (remote.py, api/enrollment.py).
THEOREM AgentsKeptInBounds == Remote!Spec /\ Enroll!Spec => []AgentsBound
<1>1. Remote!AtMostOnce /\ Remote!WritesProven /\ Remote!OpenBounded /\ Enroll!OneIdentity
      => AgentsBound
    BY DEF AgentsBound, Of
<1> QED
    BY <1>1, CarriedOnce, WritesWereProven, OpenWithinRate, IdentitiesApart, PTL

-----------------------------------------------------------------------------
(* The directory: who may be deactivated.                                  *)

\* A run holds what the directory held when it fetched, of the people it saw,
\* and it saw all of them when it says it is complete.
SnapshotsInv ==
    /\ DOMAIN fetched = Runners /\ DOMAIN synced = Clients
    /\ \A r \in Runners : fetched[r] # None =>
          /\ fetched[r].client \in Clients
          /\ \A d \in DirectoryIds :
                /\ d \in DOMAIN fetched[r].users => fetched[r].users[d] = fetched[r].truth[d]
                /\ fetched[r].complete /\ fetched[r].truth[d] # None => d \in DOMAIN fetched[r].users

LEMMA FetchHonest ==
    ASSUME SnapshotsInv, NEW r \in Runners, NEW c \in Clients, NEW S, NEW reached, NEW some,
           Directory!Fetch(r, c, S, reached, some)
    PROVE  SnapshotsInv'
<1>1. /\ fetched' = [fetched EXCEPT ![r] =
            [client |-> c, users |-> [d \in S |-> directory[c][d]],
             complete |-> S = Directory!Present(c) /\ reached, grouped |-> reached,
             team |-> some, truth |-> directory[c]]]
      /\ synced' = synced
    BY DEF Directory!Fetch
<1>2. \A x \in Runners \ {r} : fetched'[x] = fetched[x]
    BY <1>1 DEF SnapshotsInv
<1>3. /\ fetched'[r].client = c /\ fetched'[r].users = [d \in S |-> directory[c][d]]
      /\ fetched'[r].complete = (S = Directory!Present(c) /\ reached)
      /\ fetched'[r].truth = directory[c]
    BY <1>1 DEF SnapshotsInv
<1>4. \A d \in DirectoryIds :
         /\ d \in DOMAIN fetched'[r].users => fetched'[r].users[d] = fetched'[r].truth[d]
         /\ fetched'[r].complete /\ fetched'[r].truth[d] # None => d \in DOMAIN fetched'[r].users
    BY <1>3 DEF Directory!Present
<1> QED
    BY <1>1, <1>2, <1>3, <1>4 DEF SnapshotsInv

LEMMA SnapshotsStep ==
    ASSUME SnapshotsInv, [Directory!Next]_directoryVars
    PROVE  SnapshotsInv'
<1>1. CASE UNCHANGED <<fetched, synced>>
    BY <1>1 DEF SnapshotsInv
<1>2. ASSUME NEW c \in Clients, NEW d \in DirectoryIds, Directory!SetActive(c, d)
      PROVE  SnapshotsInv'
    BY <1>2 DEF Directory!SetActive, SnapshotsInv
<1>3. ASSUME NEW r \in Runners, Directory!Apply(r) \/ Directory!ApplyRaises(r)
      PROVE  SnapshotsInv'
    <2>1. fetched' = [fetched EXCEPT ![r] = None] /\ DOMAIN synced' = DOMAIN synced
        BY <1>3 DEF Directory!Apply, Directory!ApplyRaises
    <2>2. fetched'[r] = None /\ \A x \in Runners \ {r} : fetched'[x] = fetched[x]
        BY <2>1 DEF SnapshotsInv
    <2> QED
        BY <2>1, <2>2 DEF SnapshotsInv
<1>4. ASSUME \/ UNCHANGED directoryVars
             \/ \E c \in Clients, d \in DirectoryIds, e \in Directory!Entry \cup {None} :
                   Directory!ChangeEntry(c, d, e)
             \/ \E c \in Clients, S \in SUBSET DirectoryIds :
                   Directory!ChangeTeam(c, S) \/ Directory!EditMembers(c, S)
             \/ \E c \in Clients, e \in Addresses : Directory!AddPerson(c, e)
             \/ \E c \in Clients : Directory!SaveConnection(c) \/ Directory!DeleteConnection(c)
             \/ \E cs \in SUBSET Clients : Directory!StartCycle(cs)
             \/ \E r \in Runners, c \in Clients : Directory!FetchFails(r, c)
      PROVE  UNCHANGED <<fetched, synced>>
    BY <1>4 DEF directoryVars, Directory!ChangeEntry, Directory!ChangeTeam, Directory!EditMembers,
        Directory!AddPerson, Directory!SaveConnection, Directory!DeleteConnection,
        Directory!StartCycle, Directory!FetchFails
<1> QED
    BY <1>1, <1>2, <1>3, <1>4, FetchHonest DEF Directory!Next

\* Nobody the directory held, active, when a run fetched is deactivated by
\* that run, also when the listing was cut short (sync_directory: absence
\* counts only when complete).
THEOREM NobodyDropped == Directory!Spec => Directory!NobodyDroppedUnseen
<1> DEFINE Kept == \A r \in Runners, d \in DirectoryIds :
              fetched[r] # None /\ fetched'[r] = None =>
                LET s == fetched[r]
                    before == synced[s.client][d]
                    after  == synced'[s.client][d]
                IN  (before # None /\ before.active /\ s.truth[d] # None /\ s.truth[d].active)
                       => after.active
<1>1. Directory!Init => SnapshotsInv
    BY DEF Directory!Init, SnapshotsInv
<1>2. SnapshotsInv /\ [Directory!Next]_directoryVars => SnapshotsInv'
    BY SnapshotsStep
<1>3. SnapshotsInv /\ [Directory!Next]_directoryVars => [Kept]_directoryVars
    <2> SUFFICES ASSUME SnapshotsInv, [Directory!Next]_directoryVars,
                        NEW r \in Runners, NEW d \in DirectoryIds,
                        fetched[r] # None, fetched'[r] = None,
                        synced[fetched[r].client][d] # None,
                        synced[fetched[r].client][d].active,
                        fetched[r].truth[d] # None, fetched[r].truth[d].active
                 PROVE  synced'[fetched[r].client][d].active
        OBVIOUS
    <2>1. CASE synced' = synced
        BY <2>1
    <2>2. ASSUME NEW x \in Runners, Directory!Apply(x)
          PROVE  synced'[fetched[r].client][d].active
        <3>1. x = r
            BY <2>2 DEF Directory!Apply, SnapshotsInv
        <3> DEFINE s == fetched[r]
        <3>2. synced' = [synced EXCEPT ![s.client] = Directory!Applied(s)]
            BY <2>2, <3>1 DEF Directory!Apply
        <3>3. synced'[s.client] = Directory!Applied(s)
            BY <3>2 DEF SnapshotsInv
        <3>4. CASE d \in DOMAIN s.users
            <4>1. Directory!Applied(s)[d] = s.users[d] /\ s.users[d] = s.truth[d]
                BY <3>4 DEF Directory!Applied, SnapshotsInv
            <4> QED
                BY <3>3, <4>1
        <3>5. CASE d \notin DOMAIN s.users
            <4>1. ~s.complete
                BY <3>5 DEF SnapshotsInv
            <4>2. Directory!Applied(s)[d] = synced[s.client][d]
                BY <3>5, <4>1 DEF Directory!Applied
            <4> QED
                BY <3>3, <4>2
        <3> QED
            BY <3>4, <3>5
    <2>3. ASSUME NEW c \in Clients, NEW e \in DirectoryIds, Directory!SetActive(c, e)
          PROVE  FALSE
        BY <2>3 DEF Directory!SetActive
    <2>4. ASSUME ~\E x \in Runners : Directory!Apply(x),
                 ~\E c \in Clients, e \in DirectoryIds : Directory!SetActive(c, e)
          PROVE  synced' = synced
        BY <2>4 DEF Directory!Next, directoryVars, Directory!ChangeEntry, Directory!ChangeTeam,
            Directory!EditMembers, Directory!AddPerson, Directory!SaveConnection,
            Directory!DeleteConnection, Directory!StartCycle, Directory!FetchFails,
            Directory!Fetch, Directory!ApplyRaises
    <2> QED
        BY <2>1, <2>2, <2>3, <2>4
<1> QED
    BY <1>1, <1>2, <1>3, PTL DEF Directory!Spec, Directory!NobodyDroppedUnseen, Directory!vars,
        directoryVars

-----------------------------------------------------------------------------
(* The fleet: the inductive invariant.                                     *)

\* A site's client exists; a printer's client is its site's; no site has two
\* rows for one address; and what was heard of a row came under its serial.
SitesOwned ==
    \A s \in Sites : client[s] # None => client[s] \in clients

PrintersPlaced ==
    \A i \in Fleet!Stored : client[row[i].site] = row[i].client /\ row[i].client \in clients

AddressesApart ==
    \A i, j \in Fleet!Stored : row[i].site = row[j].site /\ row[i].ip = row[j].ip => i = j

SerialsHeard ==
    \A i \in Entries :
       heard[i] # {} => /\ row[i] # None /\ row[i].serial # None
                        /\ heard[i] = {row[i].serial}

FleetInv == SitesOwned /\ PrintersPlaced /\ AddressesApart /\ SerialsHeard

LEMMA FleetFacts ==
    ASSUME Fleet!TypeOK
    PROVE  /\ row \in [Entries -> Fleet!PrinterRows \cup {None}]
           /\ Fleet!Stored \subseteq Entries
           /\ \A i \in Fleet!Stored : row[i] \in Fleet!PrinterRows
           /\ None \notin Clients /\ None \notin Fleet!PrinterRows
           /\ SeatOf \in [Agents -> Sites]
           /\ client \in [Sites -> Clients \cup {None}]
           /\ heard \in [Entries -> SUBSET Devices]
BY AdministrationAssumption DEF Fleet!FleetAssumption, Fleet!TypeOK, Fleet!Stored

\* Row i is written, with every column of its type, and no other.
Written(i) ==
    /\ row' \in [Entries -> Fleet!PrinterRows \cup {None}]
    /\ row'[i] \in Fleet!PrinterRows
    /\ \A j \in Entries \ {i} : row'[j] = row[j]

\* A write that leaves the row's tenancy right, and its address free of other
\* rows, keeps the fleet's tenancy.
LEMMA WrittenKeepsTenancy ==
    ASSUME Fleet!TypeOK, SitesOwned, PrintersPlaced, AddressesApart,
           NEW i \in Entries, Written(i), client' = client, clients' = clients,
           client[row'[i].site] = row'[i].client, row'[i].client \in clients,
           \A j \in Fleet!Stored \ {i} : ~(row[j].site = row'[i].site /\ row[j].ip = row'[i].ip)
    PROVE  SitesOwned' /\ PrintersPlaced' /\ AddressesApart'
<1>1. Fleet!Stored' = Fleet!Stored \cup {i}
    BY FleetFacts DEF Written, Fleet!Stored
<1>2. SitesOwned'
    BY DEF SitesOwned
<1>3. PrintersPlaced'
    <2>1. ASSUME NEW j \in Fleet!Stored'
          PROVE  client'[row'[j].site] = row'[j].client /\ row'[j].client \in clients'
        <3>1. CASE j = i
            BY <3>1
        <3>2. CASE j # i
            BY <1>1, <2>1, <3>2, FleetFacts DEF PrintersPlaced, Written
        <3> QED
            BY <3>1, <3>2
    <2> QED
        BY <2>1 DEF PrintersPlaced
<1>4. AddressesApart'
    <2>1. ASSUME NEW j \in Fleet!Stored', NEW k \in Fleet!Stored',
                 row'[j].site = row'[k].site, row'[j].ip = row'[k].ip
          PROVE  j = k
        <3>1. CASE j = i /\ k # i
            BY <1>1, <2>1, <3>1, FleetFacts DEF Written
        <3>2. CASE k = i /\ j # i
            BY <1>1, <2>1, <3>2, FleetFacts DEF Written
        <3>3. CASE j # i /\ k # i
            BY <1>1, <2>1, <3>3, FleetFacts DEF AddressesApart, Written
        <3> QED
            BY <3>1, <3>2, <3>3
    <2> QED
        BY <2>1 DEF AddressesApart
<1> QED
    BY <1>2, <1>3, <1>4

\* A write that changes no serial that was heard under keeps the histories.
LEMMA WrittenKeepsHistories ==
    ASSUME Fleet!TypeOK, SerialsHeard, NEW i \in Entries, Written(i), heard' = heard,
           heard[i] # {} => row'[i].serial = row[i].serial
    PROVE  SerialsHeard'
<1> SUFFICES ASSUME NEW j \in Entries, heard'[j] # {}
             PROVE  /\ row'[j] # None /\ row'[j].serial # None
                    /\ heard'[j] = {row'[j].serial}
    BY DEF SerialsHeard
<1> QED
    BY FleetFacts DEF SerialsHeard, Written

-----------------------------------------------------------------------------
(* What discovery, readings and operators write.                           *)

\* The columns of a row are what they are.
LEMMA RowColumns ==
    ASSUME NEW q \in Fleet!PrinterRows
    PROVE  /\ q.client \in Clients /\ q.site \in Sites /\ q.ip \in Fleet!Ips
           /\ q.serial \in Devices \cup {None} /\ q.state \in Fleet!States
BY DEF Fleet!PrinterRows

\* A known row that is found again gets its missing serial, follows a free
\* address, and keeps the rest.
LEMMA RefreshedRow ==
    ASSUME Fleet!TypeOK, NEW i \in Fleet!Stored, NEW ip \in Fleet!Ips,
           NEW serial \in Devices \cup {None}, row' = Fleet!Refreshed(i, ip, serial)
    PROVE  /\ Written(i) /\ i \in Entries /\ row[i] # None
           /\ row'[i].client = row[i].client /\ row'[i].site = row[i].site
           /\ row'[i].state = row[i].state
           /\ row'[i].serial = IF row[i].serial = None THEN serial ELSE row[i].serial
           /\ \/ row'[i].ip = row[i].ip
              \/ row'[i].ip = ip /\ Fleet!At(row[i].site, ip) = {}
<1> DEFINE sn == IF row[i].serial = None THEN serial ELSE row[i].serial
           to == IF Fleet!Follows(i, ip) THEN ip ELSE row[i].ip
<1>1. row[i] \in Fleet!PrinterRows /\ i \in Entries /\ row[i] # None
    BY FleetFacts
<1>2. row' = [row EXCEPT ![i].serial = sn, ![i].ip = to]
    BY DEF Fleet!Refreshed
<1>3. sn \in Devices \cup {None} /\ to \in Fleet!Ips
    BY <1>1, RowColumns
<1>4. to = row[i].ip \/ (to = ip /\ Fleet!At(row[i].site, ip) = {})
    BY DEF Fleet!Follows
<1> HIDE DEF to
<1>5. row'[i] = [row[i] EXCEPT !.serial = sn, !.ip = to]
    BY <1>1, <1>2, FleetFacts
<1>6. /\ row'[i] \in Fleet!PrinterRows
      /\ row'[i].client = row[i].client /\ row'[i].site = row[i].site
      /\ row'[i].state = row[i].state /\ row'[i].serial = sn /\ row'[i].ip = to
    <2> HIDE DEF sn
    <2> QED
        BY <1>1, <1>3, <1>5 DEF Fleet!PrinterRows
<1>7. Written(i)
    <2> HIDE DEF sn
    <2>1. row \in [Entries -> Fleet!PrinterRows \cup {None}]
        BY FleetFacts
    <2>2. row' = [j \in Entries |-> row'[j]] /\ \A j \in Entries \ {i} : row'[j] = row[j]
        BY <1>2, <2>1
    <2>3. row' \in [Entries -> Fleet!PrinterRows \cup {None}]
        BY <1>6, <2>1, <2>2
    <2> QED
        BY <1>6, <2>2, <2>3 DEF Written
<1> QED
    BY <1>1, <1>4, <1>6, <1>7

\* A row that is new takes its client from its site, and an address no row of
\* the site has.
LEMMA NewRow ==
    ASSUME Fleet!TypeOK, NEW i \in Entries, NEW a \in Agents, NEW s \in Sites \cup {None},
           NEW ip \in Fleet!Ips, NEW serial \in Devices \cup {None},
           Fleet!NewAt(i, a, s, ip, serial)
    PROVE  /\ Written(i) /\ row[i] = None
           /\ client[row'[i].site] = row'[i].client /\ client[row'[i].site] # None
           /\ row'[i].site = IF s = None THEN SeatOf[a] ELSE s
           /\ row'[i].ip = ip /\ Fleet!At(row'[i].site, ip) = {}
           /\ row'[i].state = IF Fleet!Trusts(s) THEN "approved" ELSE "pending"
<1> DEFINE home == IF s = None THEN SeatOf[a] ELSE s
           st   == IF Fleet!Trusts(s) THEN "approved" ELSE "pending"
           q    == [client |-> client[home], site |-> home, ip |-> ip, serial |-> serial,
                    state |-> st]
<1>1. /\ row[i] = None /\ client[home] # None /\ Fleet!At(home, ip) = {}
      /\ row' = [row EXCEPT ![i] = q]
    BY DEF Fleet!NewAt
<1>2. home \in Sites /\ st \in Fleet!States
    BY FleetFacts DEF Fleet!States
<1> HIDE DEF home, st
<1>3. client[home] \in Clients
    BY <1>1, <1>2, FleetFacts
<1>4. q \in Fleet!PrinterRows
    BY <1>2, <1>3 DEF Fleet!PrinterRows
<1>5. /\ q.client = client[home] /\ q.site = home /\ q.ip = ip /\ q.state = st
    OBVIOUS
<1> HIDE DEF q
<1>6. row'[i] = q /\ Written(i)
    BY <1>1, <1>4, FleetFacts DEF Written
<1> QED
    BY <1>1, <1>5, <1>6 DEF home, st

\* Only stored rows of the given sites are found, and none whose serial is
\* another's.
LEMMA FoundStored ==
    ASSUME NEW sites_, NEW ip, NEW serial, NEW i \in Fleet!Found(sites_, ip, serial)
    PROVE  /\ i \in Fleet!Stored /\ row[i].site \in sites_
           /\ serial # None /\ row[i].serial # None => row[i].serial = serial
BY DEF Fleet!Found, Fleet!Contradicts

LEMMA DeviceAddress ==
    ASSUME Fleet!TypeOK, NEW d \in Devices
    PROVE  Fleet!IpOf(d) \in Fleet!Ips
BY DEF Fleet!TypeOK, Fleet!IpOf, Fleet!Ips

\* What a report of discovery does: a known row refreshed, or a new one.
LEMMA DiscoverChange ==
    ASSUME Fleet!TypeOK, NEW a \in Agents, NEW d \in Devices, NEW e \in Devices \cup {None},
           NEW named \in BOOLEAN, Fleet!Discover(a, d, e, named)
    PROVE  /\ UNCHANGED <<client, clients, bypass, registered, subnet, device, page, heard>>
           /\ \/ \E i \in Fleet!Stored : row' = Fleet!Refreshed(i, Fleet!IpOf(d), e)
              \/ \E i \in Entries, s \in Fleet!Subnets \cup {None} :
                    Fleet!NewAt(i, a, s, Fleet!IpOf(d), e)
<1>1. UNCHANGED <<client, clients, bypass, registered, subnet, device, page, heard>>
    BY DEF Fleet!Discover, Fleet!placeVars
<1> DEFINE cidr == Lan[device[d][1]]
           subs == IF named THEN Fleet!SubnetsNamed(a, cidr) ELSE {}
           known == Fleet!Found(Fleet!Served(a), Fleet!IpOf(d), e)
<1>2. \/ \E i \in known : row' = Fleet!Refreshed(i, Fleet!IpOf(d), e)
      \/ \E i \in Entries, s \in IF subs = {} THEN {None} ELSE subs :
            Fleet!NewAt(i, a, s, Fleet!IpOf(d), e)
    BY DEF Fleet!Discover
<1>3. known \subseteq Fleet!Stored
    BY FoundStored
<1>4. (IF subs = {} THEN {None} ELSE subs) \subseteq Fleet!Subnets \cup {None}
    BY DEF Fleet!SubnetsNamed
<1> HIDE DEF known, subs
<1> QED
    BY <1>1, <1>2, <1>3, <1>4

\* A reading credits its serial to a row that has none, or that one.
LEMMA PushChange ==
    ASSUME Fleet!TypeOK, NEW a \in Agents, NEW t \in Fleet!Stored, NEW d \in Devices,
           NEW e \in Devices \cup {None}, Fleet!Push(a, t, d, e)
    PROVE  /\ UNCHANGED <<client, clients, bypass, registered, subnet, device, page>>
           /\ \E i \in Fleet!Stored :
                 /\ Written(i) /\ row'[i].client = row[i].client /\ row'[i].site = row[i].site
                 /\ row'[i].ip = row[i].ip /\ row'[i].state = row[i].state
                 /\ row'[i].serial = IF e = None THEN row[i].serial ELSE e
                 /\ e # None /\ row[i].serial # None => row[i].serial = e
                 /\ heard' = [heard EXCEPT ![i] = @ \cup ({e} \ {None})]
<1>1. UNCHANGED <<client, clients, bypass, registered, subnet, device, page>>
    BY DEF Fleet!Push, Fleet!placeVars
<1>2. PICK i \in Fleet!Found(Fleet!Served(a), row[t].ip, e) :
         /\ row' = [row EXCEPT ![i].serial = IF e = None THEN @ ELSE e]
         /\ heard' = [heard EXCEPT ![i] = @ \cup ({e} \ {None})]
    BY DEF Fleet!Push
<1>3. i \in Fleet!Stored /\ (e # None /\ row[i].serial # None => row[i].serial = e)
    BY FoundStored
<1>4. row[i] \in Fleet!PrinterRows /\ i \in Entries /\ row[i] # None
    BY <1>3, FleetFacts
<1> DEFINE sn == IF e = None THEN row[i].serial ELSE e
<1>5. row'[i] = [row[i] EXCEPT !.serial = sn]
    BY <1>2, <1>4, FleetFacts
<1>6. sn \in Devices \cup {None}
    BY <1>4, RowColumns
<1>7. /\ row'[i] \in Fleet!PrinterRows
      /\ row'[i].client = row[i].client /\ row'[i].site = row[i].site
      /\ row'[i].ip = row[i].ip /\ row'[i].state = row[i].state /\ row'[i].serial = sn
    <2> HIDE DEF sn
    <2> QED
        BY <1>4, <1>5, <1>6 DEF Fleet!PrinterRows
<1>8. Written(i)
    <2>1. row \in [Entries -> Fleet!PrinterRows \cup {None}]
        BY FleetFacts
    <2>2. row' = [j \in Entries |-> row'[j]] /\ \A j \in Entries \ {i} : row'[j] = row[j]
        BY <1>2, <2>1
    <2>3. row' \in [Entries -> Fleet!PrinterRows \cup {None}]
        BY <1>7, <2>1, <2>2
    <2> QED
        BY <1>7, <2>2, <2>3 DEF Written
<1> QED
    BY <1>1, <1>2, <1>3, <1>7, <1>8

LEMMA CreateChange ==
    ASSUME Fleet!TypeOK, NEW i \in Entries, NEW c \in Clients, NEW s \in Sites,
           NEW ip \in Fleet!Ips, NEW e \in Devices \cup {None},
           Fleet!CreatePrinter(i, c, s, ip, e)
    PROVE  /\ UNCHANGED <<client, clients, bypass, registered, subnet, device, page, heard>>
           /\ Written(i) /\ row[i] = None
           /\ client[row'[i].site] = row'[i].client /\ row'[i].client \in clients
           /\ Fleet!At(row'[i].site, row'[i].ip) = {}
<1> DEFINE q == [client |-> c, site |-> s, ip |-> ip, serial |-> e, state |-> "approved"]
<1>1. /\ UNCHANGED <<client, clients, bypass, registered, subnet, device, page, heard>>
      /\ row' = [row EXCEPT ![i] = q]
      /\ row[i] = None /\ client[s] = c /\ c \in clients /\ Fleet!At(s, ip) = {}
    BY DEF Fleet!CreatePrinter, Fleet!SiteBelongs, Fleet!placeVars
<1>2. q \in Fleet!PrinterRows
    BY DEF Fleet!PrinterRows, Fleet!States
<1>3. q.client = c /\ q.site = s /\ q.ip = ip
    OBVIOUS
<1> HIDE DEF q
<1>4. row'[i] = q /\ Written(i)
    BY <1>1, <1>2, FleetFacts DEF Written
<1> QED
    BY <1>1, <1>3, <1>4

LEMMA UpdateChange ==
    ASSUME Fleet!TypeOK, NEW i \in Entries, NEW s \in Sites,
           NEW ip \in Fleet!Ips, NEW e \in Devices \cup {None}, NEW b \in BOOLEAN,
           Fleet!UpdatePrinter(i, s, ip, e, b)
    PROVE  /\ UNCHANGED <<client, clients, bypass, registered, subnet, device, page>>
           /\ Written(i) /\ row[i] # None
           /\ row'[i].client = row[i].client /\ client[row'[i].site] = row'[i].client
           /\ row'[i].serial = e
           /\ Fleet!At(row'[i].site, row'[i].ip) \subseteq {i}
           /\ heard' = IF e = row[i].serial THEN heard ELSE [heard EXCEPT ![i] = {}]
<1> DEFINE st == IF b THEN "approved" ELSE row[i].state
<1>1. /\ UNCHANGED <<client, clients, bypass, registered, subnet, device, page>>
      /\ row' = [row EXCEPT ![i].site = s, ![i].ip = ip, ![i].serial = e,
                            ![i].state = IF b THEN "approved" ELSE @]
      /\ i \in Fleet!Stored /\ client[s] = row[i].client
      /\ Fleet!At(s, ip) \subseteq {i}
      /\ heard' = IF e = row[i].serial THEN heard ELSE [heard EXCEPT ![i] = {}]
    BY DEF Fleet!UpdatePrinter, Fleet!SiteBelongs, Fleet!placeVars
<1>2. row[i] \in Fleet!PrinterRows /\ row[i] # None
    BY <1>1, FleetFacts
<1>3. st \in Fleet!States
    BY <1>2, RowColumns DEF Fleet!States
<1>4. row'[i] = [row[i] EXCEPT !.site = s, !.ip = ip, !.serial = e, !.state = st]
    BY <1>1, <1>2, FleetFacts
<1>5. /\ row'[i] \in Fleet!PrinterRows
      /\ row'[i].client = row[i].client /\ row'[i].site = s /\ row'[i].ip = ip
      /\ row'[i].serial = e
    <2> HIDE DEF st
    <2> QED
        BY <1>2, <1>3, <1>4 DEF Fleet!PrinterRows
<1>6. Written(i)
    <2>1. row \in [Entries -> Fleet!PrinterRows \cup {None}]
        BY FleetFacts
    <2>2. row' = [j \in Entries |-> row'[j]] /\ \A j \in Entries \ {i} : row'[j] = row[j]
        BY <1>1, <2>1
    <2>3. row' \in [Entries -> Fleet!PrinterRows \cup {None}]
        BY <1>5, <2>1, <2>2
    <2> QED
        BY <1>5, <2>2, <2>3 DEF Written
<1> QED
    BY <1>1, <1>2, <1>5, <1>6

\* Decisions, one at a time or in bulk, change states and nothing else.
Judged == /\ row' \in [Entries -> Fleet!PrinterRows \cup {None}]
          /\ \A i \in Entries :
                /\ row[i] = None => row'[i] = None
                /\ row[i] # None => /\ row'[i] # None
                                    /\ row'[i].client = row[i].client
                                    /\ row'[i].site = row[i].site /\ row'[i].ip = row[i].ip
                                    /\ row'[i].serial = row[i].serial

LEMMA StateSet ==
    ASSUME Fleet!TypeOK, NEW st \in Fleet!States, NEW S \in SUBSET Fleet!Stored,
           row' = [i \in Entries |-> IF i \in S THEN [row[i] EXCEPT !.state = st] ELSE row[i]]
    PROVE  Judged
<1>1. ASSUME NEW i \in S
      PROVE  /\ row'[i] \in Fleet!PrinterRows
             /\ row'[i].client = row[i].client
             /\ row'[i].site = row[i].site /\ row'[i].ip = row[i].ip
             /\ row'[i].serial = row[i].serial
    <2>1. row[i] \in Fleet!PrinterRows /\ i \in Entries
        BY FleetFacts
    <2>2. row'[i] = [row[i] EXCEPT !.state = st]
        BY <2>1
    <2> QED
        BY <2>1, <2>2 DEF Fleet!PrinterRows
<1>2. \A i \in Entries \ S : row'[i] = row[i]
    OBVIOUS
<1>3. \A i \in S : row[i] # None
    BY DEF Fleet!Stored
<1> QED
    BY <1>1, <1>2, <1>3, FleetFacts DEF Judged

LEMMA DecisionChange ==
    ASSUME Fleet!TypeOK,
           \/ \E i \in Entries, st \in Fleet!States : Fleet!Decide(i, st)
           \/ \E st \in Fleet!States : Fleet!ApprovalBulk(st)
    PROVE  Judged /\ UNCHANGED <<client, clients, bypass, registered, subnet, device, page, heard>>
<1>1. ASSUME NEW i \in Entries, NEW st \in Fleet!States, Fleet!Decide(i, st)
      PROVE  Judged /\ UNCHANGED <<client, clients, bypass, registered, subnet, device, page, heard>>
    <2>1. /\ i \in Fleet!Stored /\ row' = [row EXCEPT ![i].state = st]
          /\ UNCHANGED <<client, clients, bypass, registered, subnet, device, page, heard>>
        BY <1>1 DEF Fleet!Decide, Fleet!placeVars
    <2>2. row' = [j \in Entries |-> IF j \in {i} THEN [row[j] EXCEPT !.state = st] ELSE row[j]]
        BY <2>1, FleetFacts
    <2> QED
        BY <2>1, <2>2, StateSet
<1>2. ASSUME NEW st \in Fleet!States, Fleet!ApprovalBulk(st)
      PROVE  Judged /\ UNCHANGED <<client, clients, bypass, registered, subnet, device, page, heard>>
    <2> DEFINE S == {i \in page \cap Fleet!Stored : Fleet!StillPending(i)}
    <2>1. UNCHANGED <<client, clients, bypass, registered, subnet, device, page, heard>>
        BY <1>2 DEF Fleet!ApprovalBulk, Fleet!placeVars
    <2>2. row' = [i \in Entries |-> IF i \in S THEN [row[i] EXCEPT !.state = st] ELSE row[i]]
        BY <1>2 DEF Fleet!ApprovalBulk
    <2>3. S \in SUBSET Fleet!Stored
        OBVIOUS
    <2> HIDE DEF S
    <2> QED
        BY <2>1, <2>2, <2>3, StateSet
<1> QED
    BY <1>1, <1>2

LEMMA DeleteChange ==
    ASSUME Fleet!TypeOK, NEW i \in Entries, Fleet!DeletePrinter(i)
    PROVE  /\ UNCHANGED <<client, clients, bypass, registered, subnet, device, page>>
           /\ row' = [row EXCEPT ![i] = None] /\ heard' = [heard EXCEPT ![i] = {}]
BY DEF Fleet!DeletePrinter, Fleet!placeVars

-----------------------------------------------------------------------------
(* Sites, subnets and agents: what setting them up and taking them down      *)
(* leaves.                                                                   *)

\* No place goes that a printer is in, and none changes hands.
LEMMA PlacesKept ==
    ASSUME Fleet!TypeOK, SitesOwned, PrintersPlaced, Fleet!PlaceStep
    PROVE  /\ row' = row /\ device' = device /\ page' = page /\ heard' = heard
           /\ SitesOwned'
           /\ \A i \in Fleet!Stored : /\ client'[row[i].site] = client[row[i].site]
                                      /\ row[i].client \in clients'
<1> USE FleetFacts
<1>0. \A i \in Fleet!Stored : row[i].site \in Sites /\ row[i].client \in Clients
    BY RowColumns
<1> DEFINE Goal == /\ row' = row /\ device' = device /\ page' = page /\ heard' = heard
                   /\ SitesOwned'
                   /\ \A i \in Fleet!Stored : /\ client'[row[i].site] = client[row[i].site]
                                              /\ row[i].client \in clients'
<1>1. ASSUME NEW c \in Clients, Fleet!CreateClient(c)
      PROVE  Goal
    BY <1>1 DEF Fleet!CreateClient, SitesOwned, PrintersPlaced
<1>2. ASSUME NEW c \in Clients, NEW s \in Sites, Fleet!CreateSite(c, s)
      PROVE  Goal
    BY <1>0, <1>2 DEF Fleet!CreateSite, SitesOwned, PrintersPlaced
<1>3. ASSUME NEW c \in Clients, NEW s \in Sites, NEW skip \in BOOLEAN, NEW t \in BOOLEAN,
             Fleet!Onboard(c, s, skip, t)
      PROVE  Goal
    BY <1>0, <1>3 DEF Fleet!Onboard, SitesOwned, PrintersPlaced
<1>4. ASSUME NEW c \in Clients, Fleet!DeleteClient(c)
      PROVE  Goal
    <2>1. /\ row' = row /\ device' = device /\ page' = page /\ heard' = heard
          /\ clients' = clients \ {c}
          /\ client' = [s \in Sites |-> IF client[s] = c THEN None ELSE client[s]]
        BY <1>4 DEF Fleet!DeleteClient, Fleet!Remove
    <2>2. \A i \in Fleet!Stored : row[i].client # c
        BY <1>4 DEF Fleet!DeleteClient, Fleet!Blockers
    <2> QED
        BY <1>0, <2>1, <2>2 DEF SitesOwned, PrintersPlaced
<1>5. ASSUME NEW x \in Sites, Fleet!DeleteSite(x)
      PROVE  Goal
    <2>1. /\ row' = row /\ device' = device /\ page' = page /\ heard' = heard
          /\ clients' = clients
          /\ client' = [s \in Sites |-> IF s = x THEN None ELSE client[s]]
        BY <1>5 DEF Fleet!DeleteSite, Fleet!Remove
    <2>2. \A i \in Fleet!Stored : row[i].site # x
        BY <1>5 DEF Fleet!DeleteSite, Fleet!Blockers
    <2> QED
        BY <1>0, <2>1, <2>2 DEF SitesOwned, PrintersPlaced
<1>6. ASSUME \/ \E s \in Sites : \/ Fleet!SetBypass(s) \/ Fleet!ClearBypass(s)
                                 \/ Fleet!DeleteSubnet(s)
             \/ \E a \in Agents : Fleet!Register(a)
             \/ \E a \in Agents, s \in Sites, t \in BOOLEAN : Fleet!AddSubnet(a, s, t)
             \/ \E s \in Sites, a \in Agents, b \in Agents \cup {None}, t \in BOOLEAN :
                   Fleet!UpdateSubnet(s, a, b, t)
             \/ \E s \in Sites, a \in Agents : Fleet!TakeOver(s, a)
      PROVE  UNCHANGED <<row, device, page, heard, client, clients>>
    BY <1>6 DEF Fleet!SetBypass, Fleet!ClearBypass, Fleet!DeleteSubnet, Fleet!Register,
        Fleet!AddSubnet, Fleet!UpdateSubnet, Fleet!TakeOver
<1>7. ASSUME UNCHANGED <<row, device, page, heard, client, clients>>
      PROVE  Goal
    BY <1>7 DEF SitesOwned, PrintersPlaced
<1> HIDE DEF Goal
<1>8. Goal
    BY <1>1, <1>2, <1>3, <1>4, <1>5, <1>6, <1>7 DEF Fleet!PlaceStep
<1> QED
    BY <1>8 DEF Goal

\* The tables of the places keep their types.
LEMMA PlaceTypes ==
    ASSUME Fleet!TypeOK, Fleet!PlaceStep
    PROVE  /\ client' \in [Sites -> Clients \cup {None}] /\ clients' \subseteq Clients
           /\ bypass' \subseteq Sites /\ registered' \subseteq Agents
           /\ subnet' \in [Sites -> Fleet!SubnetRows \cup {None}]
<1> DEFINE Goal == /\ client' \in [Sites -> Clients \cup {None}] /\ clients' \subseteq Clients
                   /\ bypass' \subseteq Sites /\ registered' \subseteq Agents
                   /\ subnet' \in [Sites -> Fleet!SubnetRows \cup {None}]
<1>0. /\ client \in [Sites -> Clients \cup {None}] /\ clients \subseteq Clients
      /\ bypass \subseteq Sites /\ registered \subseteq Agents
      /\ subnet \in [Sites -> Fleet!SubnetRows \cup {None}]
    BY DEF Fleet!TypeOK
<1>1. \A t \in BOOLEAN : Fleet!NoHands(t) \in Fleet!SubnetRows
    BY DEF Fleet!NoHands, Fleet!SubnetRows
<1>2. ASSUME NEW gone \in SUBSET Sites, Fleet!Remove(gone)
      PROVE  /\ client' \in [Sites -> Clients \cup {None}]
             /\ bypass' \subseteq Sites /\ registered' \subseteq Agents
             /\ subnet' \in [Sites -> Fleet!SubnetRows \cup {None}]
    BY <1>0, <1>2 DEF Fleet!Remove, Fleet!SubnetRows, Fleet!Subnets
<1>3. ASSUME NEW c \in Clients, Fleet!CreateClient(c) \/ Fleet!DeleteClient(c)
      PROVE  Goal
    <2>1. CASE Fleet!CreateClient(c)
        BY <1>0, <2>1 DEF Fleet!CreateClient
    <2>2. CASE Fleet!DeleteClient(c)
        <3>1. {s \in Sites : client[s] = c} \in SUBSET Sites
            OBVIOUS
        <3> QED
            BY <1>0, <1>2, <2>2, <3>1 DEF Fleet!DeleteClient
    <2> QED
        BY <1>3, <2>1, <2>2
<1>4. ASSUME NEW c \in Clients, NEW s \in Sites, Fleet!CreateSite(c, s)
      PROVE  Goal
    BY <1>0, <1>4 DEF Fleet!CreateSite
<1>5. ASSUME NEW c \in Clients, NEW s \in Sites, NEW skip \in BOOLEAN, NEW t \in BOOLEAN,
             Fleet!Onboard(c, s, skip, t)
      PROVE  Goal
    BY <1>0, <1>1, <1>5 DEF Fleet!Onboard
<1>6. ASSUME NEW s \in Sites,
             Fleet!SetBypass(s) \/ Fleet!ClearBypass(s) \/ Fleet!DeleteSubnet(s)
      PROVE  Goal
    BY <1>0, <1>6 DEF Fleet!SetBypass, Fleet!ClearBypass, Fleet!DeleteSubnet
<1>7. ASSUME NEW s \in Sites, Fleet!DeleteSite(s)
      PROVE  Goal
    BY <1>0, <1>2, <1>7 DEF Fleet!DeleteSite
<1>8. ASSUME NEW a \in Agents, Fleet!Register(a)
      PROVE  Goal
    <2>1. \A s \in Fleet!Subnets :
             [subnet[s] EXCEPT !.agent = IF @ = None THEN a ELSE @] \in Fleet!SubnetRows
        BY <1>0 DEF Fleet!Subnets, Fleet!SubnetRows
    <2> QED
        BY <1>0, <1>8, <2>1 DEF Fleet!Register
<1>9. ASSUME NEW a \in Agents, NEW s \in Sites, NEW t \in BOOLEAN, Fleet!AddSubnet(a, s, t)
      PROVE  Goal
    <2>1. [Fleet!NoHands(t) EXCEPT !.agent = a] \in Fleet!SubnetRows
        BY <1>1 DEF Fleet!SubnetRows
    <2> QED
        BY <1>0, <1>9, <2>1 DEF Fleet!AddSubnet
<1>10. ASSUME NEW s \in Sites, NEW a \in Agents, NEW b \in Agents \cup {None}, NEW t \in BOOLEAN,
              Fleet!UpdateSubnet(s, a, b, t)
       PROVE  Goal
    <2> DEFINE h == IF b = None THEN None
                    ELSE IF subnet[s].standby = None THEN subnet[s].agent ELSE subnet[s].holder
    <2>1. subnet[s] \in Fleet!SubnetRows
        BY <1>0, <1>10 DEF Fleet!UpdateSubnet
    <2>2. h \in Agents \cup {None}
        BY <2>1 DEF Fleet!SubnetRows
    <2>3. subnet' = [subnet EXCEPT ![s] =
             [agent |-> a, standby |-> b, trusted |-> t, holder |-> h]]
          /\ UNCHANGED <<client, clients, bypass, registered>>
        BY <1>10 DEF Fleet!UpdateSubnet
    <2>4. [agent |-> a, standby |-> b, trusted |-> t, holder |-> h] \in Fleet!SubnetRows
        <3> HIDE DEF h
        <3> QED
            BY <2>2 DEF Fleet!SubnetRows
    <2> HIDE DEF h
    <2> QED
        BY <1>0, <2>3, <2>4
<1>11. ASSUME NEW s \in Sites, NEW a \in Agents, Fleet!TakeOver(s, a)
       PROVE  Goal
    <2>1. subnet[s] \in Fleet!SubnetRows
        BY <1>0, <1>11 DEF Fleet!TakeOver, Fleet!Subnets
    <2>2. subnet' = [subnet EXCEPT ![s] = [subnet[s] EXCEPT !.holder = a]]
          /\ UNCHANGED <<client, clients, bypass, registered>>
        BY <1>0, <1>11 DEF Fleet!TakeOver
    <2>3. [subnet[s] EXCEPT !.holder = a] \in Fleet!SubnetRows
        BY <2>1 DEF Fleet!SubnetRows
    <2> QED
        BY <1>0, <2>2, <2>3
<1> HIDE DEF Goal
<1>12. Goal
    BY <1>3, <1>4, <1>5, <1>6, <1>7, <1>8, <1>9, <1>10, <1>11 DEF Fleet!PlaceStep
<1> QED
    BY <1>12 DEF Goal

\* Tenancy and histories, action by action.
LEMMA FleetStepKept ==
    ASSUME Fleet!TypeOK, FleetInv, [Fleet!Next]_fleetVars
    PROVE  Fleet!TypeOK' /\ FleetInv'
<1> DEFINE Tables == /\ client' = client /\ clients' = clients /\ bypass' = bypass
                     /\ registered' = registered /\ subnet' = subnet
           Goal   == Fleet!TypeOK' /\ FleetInv'
<1>0. /\ SitesOwned /\ PrintersPlaced /\ AddressesApart /\ SerialsHeard
      /\ row \in [Entries -> Fleet!PrinterRows \cup {None}]
      /\ heard \in [Entries -> SUBSET Devices] /\ Fleet!Stored \subseteq Entries
      /\ page \subseteq Entries /\ device \in [Devices -> Sites \X Hosts]
    BY FleetFacts DEF FleetInv, Fleet!TypeOK
<1>1. ASSUME Tables, row' \in [Entries -> Fleet!PrinterRows \cup {None}],
             device' \in [Devices -> Sites \X Hosts], page' \subseteq Entries,
             heard' \in [Entries -> SUBSET Devices]
      PROVE  Fleet!TypeOK'
    BY <1>1 DEF Fleet!TypeOK
<1>2. ASSUME NEW i \in Entries, Written(i), Tables, UNCHANGED <<device, page, heard>>,
             client[row'[i].site] = row'[i].client, row'[i].client \in clients,
             \A j \in Fleet!Stored \ {i} : ~(row[j].site = row'[i].site /\ row[j].ip = row'[i].ip),
             heard[i] # {} => row'[i].serial = row[i].serial
      PROVE  Goal
    <2>1. Fleet!TypeOK'
        BY <1>0, <1>1, <1>2 DEF Written
    <2>2. SitesOwned' /\ PrintersPlaced' /\ AddressesApart'
        BY <1>0, <1>2, WrittenKeepsTenancy
    <2>3. SerialsHeard'
        BY <1>0, <1>2, WrittenKeepsHistories
    <2> QED
        BY <2>1, <2>2, <2>3 DEF FleetInv
<1>3. \A i \in Entries : row[i] = None => heard[i] = {}
    BY <1>0 DEF SerialsHeard
<1>4. \A t \in Sites, ip \in Fleet!Ips, j \in Fleet!Stored :
         row[j].site = t /\ row[j].ip = ip => j \in Fleet!At(t, ip)
    BY DEF Fleet!At
<1>5. CASE UNCHANGED fleetVars
    BY <1>5 DEF fleetVars, Fleet!TypeOK, FleetInv, SitesOwned, PrintersPlaced, AddressesApart,
        SerialsHeard, Fleet!Stored
<1>6. CASE Fleet!PlaceStep
    <2>1. /\ row' = row /\ device' = device /\ page' = page /\ heard' = heard
          /\ SitesOwned'
          /\ \A i \in Fleet!Stored : /\ client'[row[i].site] = client[row[i].site]
                                     /\ row[i].client \in clients'
        BY <1>0, <1>6, PlacesKept
    <2>2. Fleet!TypeOK'
        BY <1>0, <1>6, <2>1, PlaceTypes DEF Fleet!TypeOK
    <2>3. Fleet!Stored' = Fleet!Stored
        BY <2>1 DEF Fleet!Stored
    <2>4. PrintersPlaced' /\ AddressesApart' /\ SerialsHeard'
        BY <1>0, <2>1, <2>3 DEF PrintersPlaced, AddressesApart, SerialsHeard
    <2> QED
        BY <2>1, <2>2, <2>4 DEF FleetInv
<1>7. ASSUME NEW d \in Devices, NEW s \in Sites, NEW h \in Hosts, Fleet!Move(d, s, h)
      PROVE  Goal
    <2>1. Tables /\ row' = row /\ page' = page /\ heard' = heard
          /\ device' \in [Devices -> Sites \X Hosts]
        BY <1>0, <1>7 DEF Fleet!Move, Fleet!placeVars
    <2>2. Fleet!TypeOK'
        BY <1>0, <1>1, <2>1
    <2>3. Fleet!Stored' = Fleet!Stored
        BY <2>1 DEF Fleet!Stored
    <2> QED
        BY <2>1, <2>2, <2>3 DEF FleetInv, SitesOwned, PrintersPlaced, AddressesApart, SerialsHeard
<1>8. ASSUME NEW a \in Agents, NEW d \in Devices, NEW e \in Devices \cup {None},
             NEW named \in BOOLEAN, Fleet!Discover(a, d, e, named)
      PROVE  Goal
    <2>1. Tables /\ UNCHANGED <<device, page, heard>>
        BY <1>8, DiscoverChange
    <2>2. Fleet!IpOf(d) \in Fleet!Ips
        BY DeviceAddress
    <2>3. ASSUME NEW i \in Fleet!Stored, row' = Fleet!Refreshed(i, Fleet!IpOf(d), e)
          PROVE  Goal
        <3>1. /\ Written(i) /\ i \in Entries /\ row[i] # None
              /\ row'[i].client = row[i].client /\ row'[i].site = row[i].site
              /\ row'[i].serial = IF row[i].serial = None THEN e ELSE row[i].serial
              /\ \/ row'[i].ip = row[i].ip
                 \/ row'[i].ip = Fleet!IpOf(d) /\ Fleet!At(row[i].site, Fleet!IpOf(d)) = {}
            BY <2>2, <2>3, RefreshedRow
        <3>2. client[row'[i].site] = row'[i].client /\ row'[i].client \in clients
            BY <1>0, <3>1 DEF PrintersPlaced
        <3>3. heard[i] # {} => row'[i].serial = row[i].serial
            BY <1>0, <3>1 DEF SerialsHeard
        <3>4. row[i].site \in Sites
            BY FleetFacts, RowColumns
        <3>5. \A j \in Fleet!Stored \ {i} : ~(row[j].site = row'[i].site /\ row[j].ip = row'[i].ip)
            BY <1>0, <1>4, <2>2, <3>1, <3>4 DEF AddressesApart
        <3> QED
            BY <1>2, <2>1, <3>1, <3>2, <3>3, <3>5
    <2>4. ASSUME NEW i \in Entries, NEW s \in Fleet!Subnets \cup {None},
                 Fleet!NewAt(i, a, s, Fleet!IpOf(d), e)
          PROVE  Goal
        <3>1. s \in Sites \cup {None}
            BY DEF Fleet!Subnets
        <3>2. /\ Written(i) /\ row[i] = None
              /\ client[row'[i].site] = row'[i].client /\ client[row'[i].site] # None
              /\ row'[i].ip = Fleet!IpOf(d) /\ Fleet!At(row'[i].site, Fleet!IpOf(d)) = {}
            <4>1. ASSUME NEW ip \in Fleet!Ips, Fleet!NewAt(i, a, s, ip, e)
                  PROVE  /\ Written(i) /\ row[i] = None
                         /\ client[row'[i].site] = row'[i].client
                         /\ client[row'[i].site] # None
                         /\ row'[i].ip = ip /\ Fleet!At(row'[i].site, ip) = {}
                BY <3>1, <4>1, NewRow
            <4> QED
                BY <2>2, <2>4, <4>1
        <3>3. row'[i].site \in Sites
            BY <3>2, RowColumns DEF Written
        <3>4. row'[i].client \in clients
            BY <1>0, <3>2, <3>3 DEF SitesOwned
        <3>5. \A j \in Fleet!Stored \ {i} : ~(row[j].site = row'[i].site /\ row[j].ip = row'[i].ip)
            BY <1>4, <2>2, <3>2, <3>3
        <3> QED
            BY <1>2, <1>3, <2>1, <3>2, <3>4, <3>5
    <2> QED
        BY <1>8, <2>3, <2>4, DiscoverChange
<1>9. ASSUME NEW a \in Agents, NEW t \in Fleet!Stored, NEW d \in Devices,
             NEW e \in Devices \cup {None}, Fleet!Push(a, t, d, e)
      PROVE  Goal
    <2>1. Tables /\ UNCHANGED <<device, page>>
        BY <1>9, PushChange
    <2>2. PICK i \in Fleet!Stored :
             /\ Written(i) /\ row'[i].client = row[i].client /\ row'[i].site = row[i].site
             /\ row'[i].ip = row[i].ip
             /\ row'[i].serial = IF e = None THEN row[i].serial ELSE e
             /\ e # None /\ row[i].serial # None => row[i].serial = e
             /\ heard' = [heard EXCEPT ![i] = @ \cup ({e} \ {None})]
        BY <1>9, PushChange
    <2>3. heard' \in [Entries -> SUBSET Devices]
        BY <1>0, <2>2
    <2>4. Fleet!TypeOK'
        BY <1>0, <1>1, <2>1, <2>2, <2>3 DEF Written
    <2>5. client[row'[i].site] = row'[i].client /\ row'[i].client \in clients
        BY <1>0, <2>2 DEF PrintersPlaced
    <2>6. \A j \in Fleet!Stored \ {i} : ~(row[j].site = row'[i].site /\ row[j].ip = row'[i].ip)
        BY <1>0, <2>2 DEF AddressesApart
    <2>7. SitesOwned' /\ PrintersPlaced' /\ AddressesApart'
        BY <1>0, <2>1, <2>2, <2>5, <2>6, WrittenKeepsTenancy
    <2>8. SerialsHeard'
        <3>1. ASSUME NEW j \in Entries, heard'[j] # {}
              PROVE  /\ row'[j] # None /\ row'[j].serial # None
                     /\ heard'[j] = {row'[j].serial}
            <4>1. CASE j # i
                BY <1>0, <2>2, <3>1, <4>1 DEF SerialsHeard, Written
            <4>2. CASE j = i /\ e = None
                BY <1>0, <2>2, <3>1, <4>2, FleetFacts DEF SerialsHeard, Written
            <4>3. CASE j = i /\ e # None
                <5>1. heard[i] \subseteq {e}
                    BY <1>0, <2>2, <4>3 DEF SerialsHeard
                <5>2. heard'[i] = {e} /\ row'[i].serial = e /\ row'[i] # None
                    BY <1>0, <2>2, <4>3, <5>1, FleetFacts DEF Written
                <5> QED
                    BY <4>3, <5>2
            <4> QED
                BY <4>1, <4>2, <4>3
        <3> QED
            BY <3>1 DEF SerialsHeard
    <2> QED
        BY <2>4, <2>7, <2>8 DEF FleetInv
<1>10. ASSUME NEW i \in Entries, NEW c \in Clients, NEW s \in Sites, NEW ip \in Fleet!Ips,
              NEW e \in Devices \cup {None}, Fleet!CreatePrinter(i, c, s, ip, e)
       PROVE  Goal
    <2>1. /\ Tables /\ UNCHANGED <<device, page, heard>>
          /\ Written(i) /\ row[i] = None
          /\ client[row'[i].site] = row'[i].client /\ row'[i].client \in clients
          /\ Fleet!At(row'[i].site, row'[i].ip) = {}
        BY <1>10, CreateChange
    <2>2. row'[i].site \in Sites /\ row'[i].ip \in Fleet!Ips
        BY <2>1, RowColumns DEF Written
    <2>3. \A j \in Fleet!Stored \ {i} : ~(row[j].site = row'[i].site /\ row[j].ip = row'[i].ip)
        BY <1>4, <2>1, <2>2
    <2> QED
        BY <1>2, <1>3, <2>1, <2>3
<1>11. ASSUME NEW i \in Entries, NEW s \in Sites, NEW ip \in Fleet!Ips,
              NEW e \in Devices \cup {None}, NEW b \in BOOLEAN, Fleet!UpdatePrinter(i, s, ip, e, b)
       PROVE  Goal
    <2>1. /\ Tables /\ UNCHANGED <<device, page>>
          /\ Written(i) /\ row[i] # None
          /\ row'[i].client = row[i].client /\ client[row'[i].site] = row'[i].client
          /\ row'[i].serial = e
          /\ Fleet!At(row'[i].site, row'[i].ip) \subseteq {i}
          /\ heard' = IF e = row[i].serial THEN heard ELSE [heard EXCEPT ![i] = {}]
        BY <1>11, UpdateChange
    <2>2. row'[i].site \in Sites /\ row'[i].ip \in Fleet!Ips
        BY <2>1, RowColumns DEF Written
    <2>3. \A j \in Fleet!Stored \ {i} : ~(row[j].site = row'[i].site /\ row[j].ip = row'[i].ip)
        BY <1>4, <2>1, <2>2
    <2>4. row'[i].client \in clients
        BY <1>0, <2>1 DEF PrintersPlaced, Fleet!Stored
    <2>5. SitesOwned' /\ PrintersPlaced' /\ AddressesApart'
        BY <1>0, <2>1, <2>3, <2>4, WrittenKeepsTenancy
    <2>6. CASE e = row[i].serial
        BY <1>2, <2>1, <2>3, <2>4, <2>6
    <2>7. CASE e # row[i].serial
        <3>1. heard' = [heard EXCEPT ![i] = {}]
            BY <2>1, <2>7
        <3>2. Fleet!TypeOK'
            BY <1>0, <1>1, <2>1, <3>1 DEF Written
        <3>3. SerialsHeard'
            BY <1>0, <2>1, <3>1 DEF SerialsHeard, Written
        <3> QED
            BY <2>5, <3>2, <3>3 DEF FleetInv
    <2> QED
        BY <2>6, <2>7
<1>12. ASSUME NEW i \in Entries, Fleet!DeletePrinter(i)
       PROVE  Goal
    <2>1. /\ Tables /\ UNCHANGED <<device, page>>
          /\ row' = [row EXCEPT ![i] = None] /\ heard' = [heard EXCEPT ![i] = {}]
        BY <1>12, DeleteChange
    <2>2. Fleet!TypeOK'
        BY <1>0, <1>1, <2>1
    <2>3. /\ Fleet!Stored' \subseteq Fleet!Stored
          /\ \A j \in Fleet!Stored' : row'[j] = row[j]
        BY <1>0, <2>1 DEF Fleet!Stored
    <2>4. SitesOwned' /\ PrintersPlaced' /\ AddressesApart'
        BY <1>0, <2>1, <2>3 DEF SitesOwned, PrintersPlaced, AddressesApart
    <2>5. SerialsHeard'
        BY <1>0, <2>1 DEF SerialsHeard
    <2> QED
        BY <2>2, <2>4, <2>5 DEF FleetInv
<1>13. ASSUME \/ \E i \in Entries, st \in Fleet!States : Fleet!Decide(i, st)
              \/ \E st \in Fleet!States : Fleet!ApprovalBulk(st)
       PROVE  Goal
    <2>1. Judged /\ Tables /\ UNCHANGED <<device, page, heard>>
        BY <1>13, DecisionChange
    <2>2. Fleet!TypeOK'
        BY <1>0, <1>1, <2>1 DEF Judged
    <2>3. /\ Fleet!Stored' = Fleet!Stored
          /\ \A j \in Fleet!Stored : /\ row'[j].client = row[j].client
                                     /\ row'[j].site = row[j].site /\ row'[j].ip = row[j].ip
        BY <1>0, <2>1 DEF Fleet!Stored, Judged
    <2>4. SitesOwned' /\ PrintersPlaced' /\ AddressesApart'
        BY <1>0, <2>1, <2>3 DEF SitesOwned, PrintersPlaced, AddressesApart
    <2>5. SerialsHeard'
        BY <1>0, <2>1 DEF SerialsHeard, Judged
    <2> QED
        BY <2>2, <2>4, <2>5 DEF FleetInv
<1>14. CASE Fleet!OpenApprovals
    <2>1. /\ Tables /\ row' = row /\ device' = device /\ heard' = heard
          /\ page' \subseteq Fleet!Stored
        BY <1>14 DEF Fleet!OpenApprovals, Fleet!placeVars
    <2>2. Fleet!TypeOK'
        BY <1>0, <1>1, <2>1
    <2>3. Fleet!Stored' = Fleet!Stored
        BY <2>1 DEF Fleet!Stored
    <2> QED
        BY <2>1, <2>2, <2>3 DEF FleetInv, SitesOwned, PrintersPlaced, AddressesApart, SerialsHeard
<1> HIDE DEF Goal
<1>15. CASE Fleet!DeviceStep
    BY <1>7, <1>8, <1>9, <1>15 DEF Fleet!DeviceStep, Goal
<1>16. CASE Fleet!OperatorStep
    BY <1>10, <1>11, <1>12, <1>13, <1>14, <1>16 DEF Fleet!OperatorStep, Goal
<1> QED
    BY <1>5, <1>6, <1>15, <1>16 DEF Fleet!Next

\* The inductive invariant of the fleet.
THEOREM FleetInvariant == Fleet!Spec => [](Fleet!TypeOK /\ FleetInv)
<1>1. Fleet!Init => Fleet!TypeOK /\ FleetInv
    BY DEF Fleet!Init, Fleet!TypeOK, FleetInv, SitesOwned, PrintersPlaced, AddressesApart,
        SerialsHeard, Fleet!Stored
<1>2. Fleet!TypeOK /\ FleetInv /\ [Fleet!Next]_fleetVars => (Fleet!TypeOK /\ FleetInv)'
    BY FleetStepKept
<1> QED
    BY <1>1, <1>2, PTL DEF Fleet!Spec, Fleet!vars, fleetVars

\* Every value of the fleet's variables is of its type.
THEOREM FleetTypesKept == Fleet!Spec => []Fleet!TypeOK
BY FleetInvariant, PTL

LEMMA FleetCounts ==
    ASSUME NEW S
    PROVE  Fleet!Cardinality(S) = Cardinality(S)
BY DEF Fleet!Cardinality, Cardinality

\* A printer's client and its site's agree, the site exists, and no site has
\* two rows for one address, whatever is moved, deleted or found
\* (find_printer_in_sites, create_printer, update_printer, delete_client).
THEOREM TenancyKept == Fleet!Spec => []Fleet!TenancyAgrees
<1>1. Fleet!TypeOK /\ FleetInv => Fleet!TenancyAgrees
    <2> SUFFICES ASSUME Fleet!TypeOK, FleetInv, NEW i \in Fleet!Stored
                 PROVE  /\ client[row[i].site] = row[i].client
                        /\ row[i].client \in clients
                        /\ Fleet!Cardinality(Fleet!At(row[i].site, row[i].ip)) = 1
        BY DEF Fleet!TenancyAgrees
    <2>1. Fleet!At(row[i].site, row[i].ip) = {i}
        BY DEF FleetInv, AddressesApart, Fleet!At
    <2>2. Cardinality({i}) = 1
        BY FS_Singleton
    <2>3. Fleet!Cardinality(Fleet!At(row[i].site, row[i].ip)) = 1
        BY <2>1, <2>2, FleetCounts
    <2> QED
        BY <2>3 DEF FleetInv, PrintersPlaced
<1> QED
    BY <1>1, FleetInvariant, PTL

\* A row's readings are one device's: no second device that gives its serial is
\* ever credited to it (find_printer_in_sites, apply_reading).
THEOREM HistoriesKeptApart == Fleet!Spec => []Fleet!HistoriesApart
<1>1. Fleet!TypeOK /\ FleetInv => Fleet!HistoriesApart
    <2> SUFFICES ASSUME Fleet!TypeOK, FleetInv, NEW i \in Entries
                 PROVE  Fleet!Cardinality(heard[i]) <= 1
        BY DEF Fleet!HistoriesApart
    <2>1. CASE heard[i] = {}
        BY <2>1, FS_EmptySet, FleetCounts
    <2>2. CASE heard[i] # {}
        <3>1. heard[i] = {row[i].serial}
            BY <2>2 DEF FleetInv, SerialsHeard
        <3>2. Cardinality({row[i].serial}) = 1
            BY FS_Singleton
        <3>3. Fleet!Cardinality(heard[i]) = 1
            BY <3>1, <3>2, FleetCounts
        <3> QED
            BY <3>3
    <2> QED
        BY <2>1, <2>2
<1> QED
    BY <1>1, FleetInvariant, PTL

\* Discovery and readings approve nothing that a trusted subnet did not let in,
\* and leave what is decided as it is.
LEMMA DevicesDecideNothing ==
    ASSUME Fleet!TypeOK, Fleet!DeviceStep, NEW i \in Entries, row'[i] # row[i]
    PROVE  /\ row[i] # None => row'[i].state = row[i].state
           /\ row[i] = None /\ row'[i].state = "approved"
                 => row'[i].site \in Fleet!Subnets /\ subnet[row'[i].site].trusted
<1> DEFINE Goal == /\ row[i] # None => row'[i].state = row[i].state
                   /\ row[i] = None /\ row'[i].state = "approved"
                         => row'[i].site \in Fleet!Subnets /\ subnet[row'[i].site].trusted
<1>1. ASSUME NEW d \in Devices, NEW s \in Sites, NEW h \in Hosts, Fleet!Move(d, s, h)
      PROVE  Goal
    BY <1>1 DEF Fleet!Move
<1>2. ASSUME NEW a \in Agents, NEW d \in Devices, NEW e \in Devices \cup {None},
             NEW named \in BOOLEAN, Fleet!Discover(a, d, e, named)
      PROVE  Goal
    <2>1. Fleet!IpOf(d) \in Fleet!Ips
        BY DeviceAddress
    <2>2. ASSUME NEW k \in Fleet!Stored, row' = Fleet!Refreshed(k, Fleet!IpOf(d), e)
          PROVE  Goal
        <3>1. Written(k) /\ k \in Entries /\ row[k] # None /\ row'[k].state = row[k].state
            BY <2>1, <2>2, RefreshedRow
        <3>2. k = i
            BY <3>1 DEF Written
        <3> QED
            BY <3>1, <3>2
    <2>3. ASSUME NEW k \in Entries, NEW s \in Fleet!Subnets \cup {None},
                 NEW ip \in Fleet!Ips, Fleet!NewAt(k, a, s, ip, e)
          PROVE  Goal
        <3>1. s \in Sites \cup {None}
            BY DEF Fleet!Subnets
        <3>2. /\ Written(k) /\ row[k] = None
              /\ row'[k].site = IF s = None THEN SeatOf[a] ELSE s
              /\ row'[k].state = IF Fleet!Trusts(s) THEN "approved" ELSE "pending"
            BY <2>3, <3>1, NewRow
        <3>3. k = i
            BY <3>2 DEF Written
        <3>4. row'[k].state = "approved" => s # None /\ subnet[s].trusted
            BY <3>2 DEF Fleet!Trusts
        <3> QED
            BY <3>2, <3>3, <3>4
    <2> HIDE DEF Goal
    <2> QED
        BY <1>2, <2>1, <2>2, <2>3, DiscoverChange
<1>3. ASSUME NEW a \in Agents, NEW t \in Fleet!Stored, NEW d \in Devices,
             NEW e \in Devices \cup {None}, Fleet!Push(a, t, d, e)
      PROVE  Goal
    <2>1. PICK k \in Fleet!Stored : Written(k) /\ row'[k].state = row[k].state
        BY <1>3, PushChange
    <2>2. k = i /\ row[k] # None
        BY <2>1, FleetFacts DEF Written, Fleet!Stored
    <2> QED
        BY <2>1, <2>2
<1> HIDE DEF Goal
<1>4. Goal
    BY <1>1, <1>2, <1>3 DEF Fleet!DeviceStep
<1> QED
    BY <1>4 DEF Goal

\* Nothing enters the fleet by itself but what a trusted subnet let in, no
\* decision is undone by discovery, and a page rendered earlier flips nothing
\* in bulk that was decided since (post_discovered, approvals_bulk).
THEOREM DecisionsKept == Fleet!Spec => Fleet!DecisionsKept
<1> DEFINE Kept == \A i \in {j \in Entries : row[j] # row'[j] /\ row'[j] # None} :
          /\ row[i] = None /\ row'[i].state = "approved" /\ Fleet!DeviceStep
                => row'[i].site \in Fleet!Subnets /\ subnet[row'[i].site].trusted
          /\ row[i] # None => row'[i].state = row[i].state \/ ~Fleet!DeviceStep
          /\ row[i] # None => row[i].state = "pending"
                \/ ~(\E st \in Fleet!States : Fleet!ApprovalBulk(st))
<1>1. Fleet!TypeOK => Kept
    <2> SUFFICES ASSUME Fleet!TypeOK, NEW i \in Entries, row[i] # row'[i]
                 PROVE  /\ row[i] = None /\ row'[i].state = "approved" /\ Fleet!DeviceStep
                              => row'[i].site \in Fleet!Subnets /\ subnet[row'[i].site].trusted
                        /\ row[i] # None => row'[i].state = row[i].state \/ ~Fleet!DeviceStep
                        /\ row[i] # None => row[i].state = "pending"
                              \/ ~(\E st \in Fleet!States : Fleet!ApprovalBulk(st))
        OBVIOUS
    <2>1. ASSUME NEW st \in Fleet!States, Fleet!ApprovalBulk(st)
          PROVE  row[i].state = "pending"
        BY <2>1 DEF Fleet!ApprovalBulk, Fleet!StillPending
    <2> QED
        BY <2>1, DevicesDecideNothing
<1> QED
    BY <1>1, FleetTypesKept, PTL DEF Fleet!Spec, Fleet!DecisionsKept, Fleet!vars, fleetVars

\* What was decided stands: nobody is dropped unseen, an answer is final, an
\* owned subnet stays its agent's, and approvals are people's.
THEOREM WhatWasDecidedStands ==
    Directory!Spec /\ Remote!Spec /\ Enroll!Spec /\ Fleet!Spec => DecisionsStand
BY NobodyDropped, SettledStays, OrphansAdopted, DecisionsKept DEF DecisionsStand

-----------------------------------------------------------------------------
(* Assignments: whose printers a machine is told.                          *)

\* Whatever is assigned or belongs to a group is its own customer's.
OwnersInv ==
    /\ \A t \in Assigning!Targets, p \in Printers :
          assigned[t][p] # None => ClientOf[p] = ClientOf[t]
    /\ \A g \in Groups : \A u \in memberOf[g] : ClientOf[u] = ClientOf[g]

LEMMA OwnersStep ==
    ASSUME Assigning!TypeOK, OwnersInv, [Assigning!Next]_assignVars
    PROVE  Assigning!TypeOK' /\ OwnersInv'
<1> USE DEF Assigning!TypeOK, OwnersInv, Assigning!Targets
<1> DEFINE Goal == Assigning!TypeOK' /\ OwnersInv'
<1>1. CASE UNCHANGED assignVars
    BY <1>1 DEF assignVars
<1>2. ASSUME NEW p \in Printers, NEW t \in Assigning!Targets, NEW b \in BOOLEAN \cup {None},
             assigned' = [assigned EXCEPT ![t][p] = b], b # None => ClientOf[p] = ClientOf[t],
             UNCHANGED <<memberOf, activeRows, defaultWins>>
      PROVE  Goal
    <2>1. /\ assigned'[t] = [assigned[t] EXCEPT ![p] = b]
          /\ \A x \in Assigning!Targets \ {t} : assigned'[x] = assigned[x]
        BY <1>2
    <2>2. /\ assigned'[t] \in [Printers -> BOOLEAN \cup {None}]
          /\ assigned'[t][p] = b /\ \A q \in Printers \ {p} : assigned'[t][q] = assigned[t][q]
        BY <1>2, <2>1
    <2>3. Assigning!TypeOK'
        BY <1>2, <2>1, <2>2
    <2> QED
        BY <1>2, <2>1, <2>2, <2>3
<1>3. ASSUME NEW p \in Printers, NEW t \in Assigning!Targets, NEW b \in BOOLEAN,
             Assigning!Assign(p, t, b)
      PROVE  Goal
    BY <1>2, <1>3 DEF Assigning!Assign
<1>4. ASSUME NEW p \in Printers, NEW t \in Assigning!Targets, Assigning!Unassign(p, t)
      PROVE  Goal
    BY <1>2, <1>4 DEF Assigning!Unassign
<1>5. ASSUME NEW p \in Printers, Assigning!DeletePrinter(p)
      PROVE  Goal
    BY <1>5 DEF Assigning!DeletePrinter
<1>6. ASSUME NEW g \in Groups, NEW us \in SUBSET People, Assigning!SyncGroupMembers(g, us)
      PROVE  Goal
    BY <1>6 DEF Assigning!SyncGroupMembers
<1>7. ASSUME NEW x \in People \cup Machines, NEW b \in BOOLEAN, Assigning!SetActive(x, b)
      PROVE  Goal
    BY <1>7 DEF Assigning!SetActive
<1>8. ASSUME NEW m \in Machines, NEW b \in BOOLEAN, Assigning!SetDefaultWins(m, b)
      PROVE  Goal
    BY <1>8 DEF Assigning!SetDefaultWins
<1> QED
    BY <1>1, <1>3, <1>4, <1>5, <1>6, <1>7, <1>8 DEF Assigning!Next

\* The inductive invariant of the assignments.
THEOREM AssignInvariant == Assigning!Spec => [](Assigning!TypeOK /\ OwnersInv)
<1>1. Assigning!Init => Assigning!TypeOK /\ OwnersInv
    BY DEF Assigning!Init, Assigning!TypeOK, OwnersInv
<1>2. Assigning!TypeOK /\ OwnersInv /\ [Assigning!Next]_assignVars
      => (Assigning!TypeOK /\ OwnersInv)'
    BY OwnersStep
<1> QED
    BY <1>1, <1>2, PTL DEF Assigning!Spec, Assigning!vars, assignVars

\* The lowest of a set of numbers is its least member.
LEMMA LowestIs ==
    ASSUME NEW S \in SUBSET Nat, NEW n \in S, \A k \in S : n <= k
    PROVE  Assigning!Lowest(S) = n
<1>1. \A x \in S : (\A k \in S : x <= k) => x = n
    OBVIOUS
<1> QED
    BY <1>1 DEF Assigning!Lowest

LEMMA LowestIsMember ==
    ASSUME NEW S \in SUBSET Nat, S # {}
    PROVE  Assigning!Lowest(S) \in S
BY LeastNatural DEF Assigning!Lowest

\* What the layers of the resolver hand out, and what of it is flagged.
GroupHeld(u)       == UNION {Assigning!Held(g) : g \in {g \in Groups : u \in memberOf[g]}}
GroupFlagged(u)    == UNION {Assigning!Flagged(g) : g \in {g \in Groups : u \in memberOf[g]}}
SeatHeld(u, m)     == IF Assigning!Counted(u, m) = None THEN {}
                      ELSE Assigning!Held(Assigning!Counted(u, m))
SeatFlagged(u, m)  == IF Assigning!Counted(u, m) = None THEN {}
                      ELSE Assigning!Flagged(Assigning!Counted(u, m))
SeatWins(u, m)     == /\ Assigning!Counted(u, m) # None
                      /\ Assigning!Counted(u, m) \in defaultWins

\* What of it counts for the default, the more specific layers left out.
OwnCounted(u, m)  == IF SeatWins(u, m) THEN Assigning!Flagged(u) \ SeatHeld(u, m)
                     ELSE Assigning!Flagged(u)
SeatCounted(u, m) == IF SeatWins(u, m) THEN SeatFlagged(u, m)
                     ELSE SeatFlagged(u, m) \ Assigning!Held(u)
Inherited(u, m)   == GroupFlagged(u) \ (Assigning!Held(u) \cup SeatHeld(u, m))

\* The default among three sets of flagged printers, in that order.
DefaultOf(first, second, third) ==
    IF first # {} THEN Assigning!Lowest(first)
    ELSE IF second # {} THEN Assigning!Lowest(second)
    ELSE IF third # {} THEN Assigning!Lowest(third) ELSE None

\* The resolver's ranking of a set of layers: a printer counts in the first
\* layer that hands it out.
RankIn(layers, p)    == Assigning!Lowest({l.rank : l \in {k \in layers : p \in k.held}})
HandedOut(layers)    == UNION {l.held : l \in layers}
CandidatesIn(layers) ==
    {p \in HandedOut(layers) : \E l \in layers : l.rank = RankIn(layers, p) /\ p \in l.flagged}
BestIn(layers)       ==
    {p \in CandidatesIn(layers) : \A q \in CandidatesIn(layers) : RankIn(layers, p) <= RankIn(layers, q)}
DefaultIn(layers)    ==
    IF CandidatesIn(layers) = {} THEN None ELSE Assigning!Lowest(BestIn(layers))

\* Three layers, the first outranking the others.
Layered(h0, f0, h1, f1, h2, f2) == {[held |-> h0, flagged |-> f0, rank |-> 0],
                                    [held |-> h1, flagged |-> f1, rank |-> 1],
                                    [held |-> h2, flagged |-> f2, rank |-> 2]}

\* Sets of printers, and of those the flagged ones.
Flags(h, f) == h \subseteq Nat /\ f \subseteq h

LEMMA Ranked ==
    ASSUME NEW h0, NEW f0, NEW h1, NEW f1, NEW h2, NEW f2,
           Flags(h0, f0), Flags(h1, f1), Flags(h2, f2),
           NEW second, second = f1 \ h0, NEW third, third = f2 \ (h0 \cup h1)
    PROVE  /\ HandedOut(Layered(h0, f0, h1, f1, h2, f2)) = h0 \cup h1 \cup h2
           /\ DefaultIn(Layered(h0, f0, h1, f1, h2, f2)) = DefaultOf(f0, second, third)
<1> DEFINE layers == Layered(h0, f0, h1, f1, h2, f2)
<1> DEFINE l0 == [held |-> h0, flagged |-> f0, rank |-> 0]
           l1 == [held |-> h1, flagged |-> f1, rank |-> 1]
           l2 == [held |-> h2, flagged |-> f2, rank |-> 2]
           candidates == CandidatesIn(layers)
           best == BestIn(layers)
<1>0. /\ h0 \subseteq Nat /\ f0 \subseteq h0 /\ h1 \subseteq Nat /\ f1 \subseteq h1
      /\ h2 \subseteq Nat /\ f2 \subseteq h2
    BY DEF Flags
<1>1. /\ l0.held = h0 /\ l0.flagged = f0 /\ l0.rank = 0
      /\ l1.held = h1 /\ l1.flagged = f1 /\ l1.rank = 1
      /\ l2.held = h2 /\ l2.flagged = f2 /\ l2.rank = 2
    OBVIOUS
<1>2. layers = {l0, l1, l2}
    BY DEF Layered
<1> HIDE DEF l0, l1, l2, layers
<1>3. HandedOut(layers) = h0 \cup h1 \cup h2
    BY <1>1, <1>2 DEF HandedOut
<1>4. ASSUME NEW p, NEW n \in Nat,
             \/ p \in h0 /\ n = 0
             \/ p \in h1 \ h0 /\ n = 1
             \/ p \in h2 \ (h0 \cup h1) /\ n = 2
      PROVE  RankIn(layers, p) = n
    <2> DEFINE S == {l.rank : l \in {k \in layers : p \in k.held}}
    <2>1. S \in SUBSET Nat /\ n \in S /\ \A x \in S : n <= x
        BY <1>0, <1>1, <1>2, <1>4
    <2>2. RankIn(layers, p) = Assigning!Lowest(S)
        BY DEF RankIn
    <2> HIDE DEF S
    <2> QED
        BY <2>1, <2>2, LowestIs
<1>5. /\ \A p \in h0 : RankIn(layers, p) = 0
      /\ \A p \in h1 \ h0 : RankIn(layers, p) = 1
      /\ \A p \in h2 \ (h0 \cup h1) : RankIn(layers, p) = 2
    BY <1>4
<1>6. \A p : p \in candidates <=> /\ p \in HandedOut(layers)
                                  /\ \E l \in {l0, l1, l2} : l.rank = RankIn(layers, p) /\ p \in l.flagged
    BY <1>2 DEF CandidatesIn
<1> HIDE DEF candidates
<1>7. candidates = f0 \cup second \cup third
    <2>1. \A p \in h0 : p \in candidates <=> p \in f0
        BY <1>0, <1>1, <1>3, <1>5, <1>6
    <2>2. \A p \in h1 \ h0 : p \in candidates <=> p \in f1
        BY <1>0, <1>1, <1>3, <1>5, <1>6
    <2>3. \A p \in h2 \ (h0 \cup h1) : p \in candidates <=> p \in f2
        BY <1>0, <1>1, <1>3, <1>5, <1>6
    <2>4. \A p \in candidates : p \in h0 \cup h1 \cup h2
        BY <1>0, <1>3, <1>6
    <2> QED
        BY <1>0, <2>1, <2>2, <2>3, <2>4
<1>8. /\ \A p \in f0 : RankIn(layers, p) = 0
      /\ \A p \in second : RankIn(layers, p) = 1
      /\ \A p \in third : RankIn(layers, p) = 2
    BY <1>0, <1>5
<1>9. /\ best = {p \in candidates : \A q \in candidates : RankIn(layers, p) <= RankIn(layers, q)}
      /\ DefaultIn(layers) = IF candidates = {} THEN None ELSE Assigning!Lowest(best)
    BY DEF candidates, BestIn, DefaultIn
<1> HIDE DEF best
\* The candidates of the least rank are the best.
<1>10. ASSUME NEW F \in SUBSET candidates, F # {}, NEW n \in Nat,
              \A p \in F : RankIn(layers, p) = n,
              \A p \in candidates \ F : RankIn(layers, p) \in Nat /\ n < RankIn(layers, p)
       PROVE  best = F /\ candidates # {}
    <2>1. \A p \in F : \A q \in candidates : RankIn(layers, p) <= RankIn(layers, q)
        <3> TAKE p \in F
        <3> TAKE q \in candidates
        <3>1. CASE q \in F
            <4>1. RankIn(layers, p) = n /\ RankIn(layers, q) = n
                BY <1>10, <3>1
            <4>2. n <= n
                OBVIOUS
            <4> QED
                BY <4>1, <4>2
        <3>2. CASE q \notin F
            BY <1>10, <3>2
        <3> QED
            BY <3>1, <3>2
    <2>2. ASSUME NEW p \in candidates \ F
          PROVE  \E q \in candidates : ~(RankIn(layers, p) <= RankIn(layers, q))
        <3>1. PICK q \in F : TRUE
            BY <1>10
        <3>2. /\ RankIn(layers, q) = n /\ RankIn(layers, p) \in Nat
              /\ n < RankIn(layers, p)
            BY <1>10
        <3> QED
            BY <3>1, <3>2
    <2> QED
        BY <1>9, <1>10, <2>1, <2>2
<1>11. CASE f0 # {}
    <2>1. best = f0 /\ candidates # {}
        <3>1. \A p \in candidates \ f0 : RankIn(layers, p) \in {1, 2}
            BY <1>0, <1>7, <1>8
        <3>2. f0 \in SUBSET candidates
            BY <1>0, <1>7
        <3>3. \A p \in candidates \ f0 : RankIn(layers, p) \in Nat /\ 0 < RankIn(layers, p)
            <4>1. \A r \in {1, 2} : r \in Nat /\ 0 < r
                OBVIOUS
            <4> QED
                BY <3>1, <4>1
        <3> QED
            BY <1>8, <1>10, <1>11, <3>2, <3>3
    <2>2. DefaultIn(layers) = DefaultOf(f0, second, third)
        BY <1>9, <1>11, <2>1 DEF DefaultOf
    <2> QED
        BY <1>3, <2>2 DEF layers
<1>12. CASE f0 = {} /\ second # {}
    <2>1. best = second /\ candidates # {}
        <3>1. \A p \in candidates \ second : RankIn(layers, p) = 2
            BY <1>0, <1>7, <1>8, <1>12
        <3>2. second \in SUBSET candidates
            BY <1>0, <1>7
        <3>3. \A p \in candidates \ second : RankIn(layers, p) \in Nat /\ 1 < RankIn(layers, p)
            BY <3>1
        <3> QED
            BY <1>8, <1>10, <1>12, <3>2, <3>3
    <2>2. DefaultIn(layers) = DefaultOf(f0, second, third)
        BY <1>9, <1>12, <2>1 DEF DefaultOf
    <2> QED
        BY <1>3, <2>2 DEF layers
<1>13. CASE f0 = {} /\ second = {}
    <2>1. candidates = third
        BY <1>0, <1>7, <1>13
    <2>2. candidates # {} => best = candidates
        BY <1>8, <1>10, <2>1
    <2>3. DefaultIn(layers) = DefaultOf(f0, second, third)
        BY <1>9, <1>13, <2>1, <2>2 DEF DefaultOf
    <2> QED
        BY <1>3, <2>3 DEF layers
<1> QED
    BY <1>11, <1>12, <1>13 DEF layers

\* What the resolver answers: everything a layer hands out, and the default by
\* rank; a kiosk's own layer comes before the person's.
LEMMA Answered ==
    ASSUME Assigning!TypeOK, NEW u \in People \cap activeRows, NEW m
    PROVE  /\ Assigning!EffectivePrinters(u, m).printers
                 = GroupHeld(u) \cup SeatHeld(u, m) \cup Assigning!Held(u)
           /\ Assigning!EffectivePrinters(u, m).default =
                 IF SeatWins(u, m)
                 THEN DefaultOf(SeatCounted(u, m), OwnCounted(u, m), Inherited(u, m))
                 ELSE DefaultOf(OwnCounted(u, m), SeatCounted(u, m), Inherited(u, m))
<1> DEFINE L(a, b) == {[held |-> GroupHeld(u), flagged |-> GroupFlagged(u), rank |-> 2],
                       [held |-> SeatHeld(u, m), flagged |-> SeatFlagged(u, m), rank |-> a],
                       [held |-> Assigning!Held(u), flagged |-> Assigning!Flagged(u), rank |-> b]}
<1>1. Assigning!EffectivePrinters(u, m) =
         Assigning!Resolved(HandedOut(Assigning!Layers(u, m)), DefaultIn(Assigning!Layers(u, m)))
    BY DEF Assigning!EffectivePrinters, HandedOut, DefaultIn, CandidatesIn, BestIn, RankIn
<1>2. /\ Assigning!EffectivePrinters(u, m).printers = HandedOut(Assigning!Layers(u, m))
      /\ Assigning!EffectivePrinters(u, m).default = DefaultIn(Assigning!Layers(u, m))
    BY <1>1 DEF Assigning!Resolved
<1>3. Assigning!Layers(u, m) = IF SeatWins(u, m) THEN L(0, 1) ELSE L(1, 0)
    BY DEF Assigning!Layers, GroupHeld, GroupFlagged, SeatHeld, SeatFlagged, SeatWins
<1>4. \A t : Assigning!Flagged(t) \subseteq Assigning!Held(t) /\ Assigning!Held(t) \subseteq Nat
    BY AdministrationAssumption DEF Assigning!OwnersAssumption, Assigning!Flagged, Assigning!Held
<1>5. /\ GroupHeld(u) \in SUBSET Nat /\ GroupFlagged(u) \in SUBSET GroupHeld(u)
      /\ SeatHeld(u, m) \in SUBSET Nat /\ SeatFlagged(u, m) \in SUBSET SeatHeld(u, m)
    BY <1>4 DEF GroupHeld, GroupFlagged, SeatHeld, SeatFlagged
<1> DEFINE layers == Assigning!Layers(u, m)
           gh == GroupHeld(u)
           gf == GroupFlagged(u)
           sh == SeatHeld(u, m)
           sf == SeatFlagged(u, m)
           uh == Assigning!Held(u)
           uf == Assigning!Flagged(u)
<1>6. Flags(gh, gf) /\ Flags(sh, sf) /\ Flags(uh, uf)
    BY <1>4, <1>5 DEF Flags
<1>7. layers = IF SeatWins(u, m) THEN Layered(sh, sf, uh, uf, gh, gf)
                               ELSE Layered(uh, uf, sh, sf, gh, gf)
    BY <1>3 DEF Layered
<1>8. /\ Inherited(u, m) = gf \ (uh \cup sh) /\ Inherited(u, m) = gf \ (sh \cup uh)
      /\ SeatWins(u, m) => SeatCounted(u, m) = sf /\ OwnCounted(u, m) = uf \ sh
      /\ ~SeatWins(u, m) => SeatCounted(u, m) = sf \ uh /\ OwnCounted(u, m) = uf
    BY DEF Inherited, SeatCounted, OwnCounted
<1> HIDE DEF layers, gh, gf, sh, sf, uh, uf
<1>9. CASE SeatWins(u, m)
    <2>1. /\ HandedOut(Layered(sh, sf, uh, uf, gh, gf)) = sh \cup uh \cup gh
          /\ DefaultIn(Layered(sh, sf, uh, uf, gh, gf))
                = DefaultOf(sf, OwnCounted(u, m), Inherited(u, m))
        BY <1>6, <1>8, <1>9, Ranked
    <2>2. layers = Layered(sh, sf, uh, uf, gh, gf) /\ SeatCounted(u, m) = sf
        BY <1>7, <1>8, <1>9
    <2>3. HandedOut(layers) = gh \cup sh \cup uh
        BY <2>1, <2>2
    <2>4. DefaultIn(layers) = DefaultOf(SeatCounted(u, m), OwnCounted(u, m), Inherited(u, m))
        BY <2>1, <2>2
    <2> QED
        BY <1>2, <1>9, <2>3, <2>4 DEF layers, gh, sh, uh
<1>10. CASE ~SeatWins(u, m)
    <2>1. /\ HandedOut(Layered(uh, uf, sh, sf, gh, gf)) = uh \cup sh \cup gh
          /\ DefaultIn(Layered(uh, uf, sh, sf, gh, gf))
                = DefaultOf(uf, SeatCounted(u, m), Inherited(u, m))
        <3>1. SeatCounted(u, m) = sf \ uh /\ Inherited(u, m) = gf \ (uh \cup sh)
            BY <1>8, <1>10
        <3> QED
            BY <1>6, <3>1, Ranked, SMTT(30)
    <2>2. layers = Layered(uh, uf, sh, sf, gh, gf) /\ OwnCounted(u, m) = uf
        BY <1>7, <1>8, <1>10
    <2>3. HandedOut(layers) = gh \cup sh \cup uh
        BY <2>1, <2>2
    <2>4. DefaultIn(layers) = DefaultOf(OwnCounted(u, m), SeatCounted(u, m), Inherited(u, m))
        BY <2>1, <2>2
    <2> QED
        BY <1>2, <1>10, <2>3, <2>4 DEF layers, gh, sh, uh
<1> QED
    BY <1>9, <1>10

\* A machine is only told printers of its own customer, and a default among
\* them, whoever signs in to it and whatever was assigned, joined or retired
\* before (machine_assignments, effective_printers_for, sync_group_members).
THEOREM OwnTenantTold == Assigning!Spec => []Assigning!OwnTenantOnly
<1>1. ASSUME Assigning!TypeOK, OwnersInv, NEW m \in Machines, NEW u \in People \cup {None}
      PROVE  /\ \A p \in Assigning!MachineAssignments(m, u).printers : ClientOf[p] = ClientOf[m]
             /\ Assigning!MachineAssignments(m, u).default # None
                   => Assigning!MachineAssignments(m, u).default
                         \in Assigning!MachineAssignments(m, u).printers
    <2> DEFINE told == Assigning!MachineAssignments(m, u)
               Goal == /\ \A p \in told.printers : ClientOf[p] = ClientOf[m]
                       /\ told.default # None => told.default \in told.printers
    <2>1. \A t : /\ Assigning!Flagged(t) \in SUBSET Nat
                 /\ Assigning!Held(t) \in SUBSET Nat
                 /\ Assigning!Flagged(t) \subseteq Assigning!Held(t)
        BY AdministrationAssumption
            DEF Assigning!OwnersAssumption, Assigning!Flagged, Assigning!Held
    <2>2. \A t \in Assigning!Targets : \A p \in Assigning!Held(t) : ClientOf[p] = ClientOf[t]
        BY <1>1 DEF OwnersInv, Assigning!Held
    <2>3. CASE u # None /\ ClientOf[u] = ClientOf[m] /\ u \in activeRows
        <3>1. told = Assigning!EffectivePrinters(u, m) /\ u \in People \cap activeRows
            BY <2>3 DEF Assigning!MachineAssignments
        <3> DEFINE gh == GroupHeld(u)
                   gf == GroupFlagged(u)
                   sh == SeatHeld(u, m)
                   sf == SeatFlagged(u, m)
                   uh == Assigning!Held(u)
                   uf == Assigning!Flagged(u)
        <3>2. /\ told.printers = gh \cup sh \cup uh
              /\ told.default =
                    IF SeatWins(u, m)
                    THEN DefaultOf(SeatCounted(u, m), OwnCounted(u, m), Inherited(u, m))
                    ELSE DefaultOf(OwnCounted(u, m), SeatCounted(u, m), Inherited(u, m))
            BY <1>1, <3>1, Answered
        <3>3. /\ SeatCounted(u, m) \in SUBSET Nat /\ SeatCounted(u, m) \subseteq sh
              /\ OwnCounted(u, m) \in SUBSET Nat /\ OwnCounted(u, m) \subseteq uh
              /\ Inherited(u, m) \in SUBSET Nat /\ Inherited(u, m) \subseteq gh
            <4>1. /\ gf \in SUBSET Nat /\ gf \subseteq gh /\ sf \in SUBSET Nat /\ sf \subseteq sh
                  /\ uf \in SUBSET Nat /\ uf \subseteq uh
                BY <2>1 DEF GroupHeld, GroupFlagged, SeatHeld, SeatFlagged
            <4> QED
                BY <4>1 DEF SeatCounted, OwnCounted, Inherited
        <3>4. \A p \in gh : ClientOf[p] = ClientOf[m]
            BY <1>1, <2>2, <2>3 DEF GroupHeld, OwnersInv, Assigning!Targets
        <3>5. \A p \in sh : ClientOf[p] = ClientOf[m]
            BY <2>2 DEF SeatHeld, Assigning!Counted, Assigning!Targets
        <3>6. \A p \in uh : ClientOf[p] = ClientOf[m]
            BY <1>1, <2>2, <2>3 DEF Assigning!Targets
        <3> HIDE DEF told, gh, gf, sh, sf, uh, uf
        <3>7. ASSUME NEW a \in SUBSET Nat, NEW b \in SUBSET Nat, NEW c \in SUBSET Nat
              PROVE  DefaultOf(a, b, c) \in a \cup b \cup c \cup {None}
            BY LowestIsMember DEF DefaultOf
        <3>8. /\ DefaultOf(SeatCounted(u, m), OwnCounted(u, m), Inherited(u, m))
                    \in gh \cup sh \cup uh \cup {None}
              /\ DefaultOf(OwnCounted(u, m), SeatCounted(u, m), Inherited(u, m))
                    \in gh \cup sh \cup uh \cup {None}
            BY <3>3, <3>7
        <3>9. told.default \in told.printers \cup {None}
            BY <3>2, <3>8
        <3> QED
            BY <3>2, <3>4, <3>5, <3>6, <3>9 DEF told
    <2>4. CASE /\ u # None /\ ClientOf[u] = ClientOf[m] /\ u \notin activeRows
        BY <2>4 DEF Assigning!MachineAssignments, Assigning!EffectivePrinters, Assigning!Resolved
    <2>5. CASE ~(u # None /\ ClientOf[u] = ClientOf[m])
        <3>1. told = Assigning!PrintersForMachine(m)
            BY <2>5 DEF Assigning!MachineAssignments
        <3>2. CASE m \in activeRows
            <4>1. /\ told.printers = Assigning!Held(m)
                  /\ told.default = IF Assigning!Flagged(m) = {} THEN None
                                    ELSE Assigning!Lowest(Assigning!Flagged(m))
                BY <3>1, <3>2 DEF Assigning!PrintersForMachine, Assigning!Resolved
            <4>2. m \in Assigning!Targets
                BY DEF Assigning!Targets
            <4>3. Assigning!Flagged(m) # {}
                  => Assigning!Lowest(Assigning!Flagged(m)) \in Assigning!Flagged(m)
                BY <2>1, LowestIsMember
            <4> HIDE DEF told
            <4> QED
                BY <2>1, <2>2, <4>1, <4>2, <4>3 DEF told
        <3>3. CASE m \notin activeRows
            <4>1. told.printers = {} /\ told.default = None
                BY <3>1, <3>3 DEF Assigning!PrintersForMachine, Assigning!Resolved
            <4> QED
                BY <4>1
        <3> QED
            BY <3>2, <3>3
    <2> QED
        BY <2>3, <2>4, <2>5
<1>2. Assigning!TypeOK /\ OwnersInv => Assigning!OwnTenantOnly
    BY <1>1 DEF Assigning!OwnTenantOnly
<1> QED
    BY <1>2, AssignInvariant, PTL

\* The default of a seat follows the rule the operators are told: a kiosk's own
\* flag first, else the person's, then the machine's, then a group's; a flag on
\* a printer a more specific assignment hands out without one does not count
\* (effective_printers_for).
THEOREM DefaultsFollowRank == Assigning!Spec => []Assigning!DefaultFollowsRank
<1>1. ASSUME Assigning!TypeOK, NEW m \in Machines \cap activeRows,
             NEW u \in People \cap activeRows, ClientOf[m] = ClientOf[u]
      PROVE  /\ m \in defaultWins =>
                   Assigning!EffectivePrinters(u, m).default =
                   DefaultOf(Assigning!Flagged(m), Assigning!Flagged(u) \ Assigning!Held(m),
                             (UNION {Assigning!Flagged(g) : g \in {g \in Groups : u \in memberOf[g]}})
                             \ (Assigning!Held(u) \cup Assigning!Held(m)))
             /\ m \notin defaultWins =>
                   Assigning!EffectivePrinters(u, m).default =
                   DefaultOf(Assigning!Flagged(u), Assigning!Flagged(m) \ Assigning!Held(u),
                             (UNION {Assigning!Flagged(g) : g \in {g \in Groups : u \in memberOf[g]}})
                             \ (Assigning!Held(u) \cup Assigning!Held(m)))
    <2>1. m # None
        BY AdministrationAssumption DEF Assigning!OwnersAssumption, Assigning!Targets
    <2>2. Assigning!Counted(u, m) = m
        BY <1>1, <2>1 DEF Assigning!Counted
    <2>3. /\ SeatHeld(u, m) = Assigning!Held(m) /\ SeatFlagged(u, m) = Assigning!Flagged(m)
          /\ SeatWins(u, m) <=> m \in defaultWins
        BY <2>1, <2>2 DEF SeatHeld, SeatFlagged, SeatWins
    <2>4. Inherited(u, m) = (UNION {Assigning!Flagged(g) : g \in {g \in Groups : u \in memberOf[g]}})
                            \ (Assigning!Held(u) \cup Assigning!Held(m))
        <3>1. GroupFlagged(u) = UNION {Assigning!Flagged(g) : g \in {g \in Groups : u \in memberOf[g]}}
            BY DEF GroupFlagged
        <3>2. Inherited(u, m) = GroupFlagged(u) \ (Assigning!Held(u) \cup Assigning!Held(m))
            BY <2>3 DEF Inherited
        <3> QED
            BY <3>1, <3>2, Zenon
    <2>5. CASE m \in defaultWins
        <3>1. /\ SeatCounted(u, m) = Assigning!Flagged(m)
              /\ OwnCounted(u, m) = Assigning!Flagged(u) \ Assigning!Held(m)
            BY <2>3, <2>5 DEF SeatCounted, OwnCounted
        <3>2. Assigning!EffectivePrinters(u, m).default
                 = DefaultOf(SeatCounted(u, m), OwnCounted(u, m), Inherited(u, m))
            BY <1>1, <2>3, <2>5, Answered
        <3> QED
            BY <2>4, <2>5, <3>1, <3>2, Zenon
    <2>6. CASE m \notin defaultWins
        <3>1. /\ SeatCounted(u, m) = Assigning!Flagged(m) \ Assigning!Held(u)
              /\ OwnCounted(u, m) = Assigning!Flagged(u)
            BY <2>3, <2>6 DEF SeatCounted, OwnCounted
        <3>2. Assigning!EffectivePrinters(u, m).default
                 = DefaultOf(OwnCounted(u, m), SeatCounted(u, m), Inherited(u, m))
            BY <1>1, <2>3, <2>6, Answered
        <3> QED
            BY <2>4, <2>6, <3>1, <3>2, Zenon
    <2> QED
        BY <2>5, <2>6, Zenon
<1>2. Assigning!TypeOK => Assigning!DefaultFollowsRank
    <2> SUFFICES ASSUME Assigning!TypeOK, NEW m \in Machines \cap activeRows,
                        NEW u \in People \cap activeRows, ClientOf[m] = ClientOf[u]
                 PROVE  LET default == Assigning!EffectivePrinters(u, m).default
                            kiosk == m \in defaultWins
                            groups == {g \in Groups : u \in memberOf[g]}
                            own == IF kiosk THEN Assigning!Flagged(u) \ Assigning!Held(m)
                                   ELSE Assigning!Flagged(u)
                            seat == IF kiosk THEN Assigning!Flagged(m)
                                    ELSE Assigning!Flagged(m) \ Assigning!Held(u)
                            inherited == (UNION {Assigning!Flagged(g) : g \in groups})
                                         \ (Assigning!Held(u) \cup Assigning!Held(m))
                        IN  default = IF kiosk THEN DefaultOf(seat, own, inherited)
                                      ELSE DefaultOf(own, seat, inherited)
        BY DEF Assigning!DefaultFollowsRank, DefaultOf
    <2>1. CASE m \in defaultWins
        BY <1>1, <2>1, Zenon
    <2>2. CASE m \notin defaultWins
        BY <1>1, <2>2, Zenon
    <2> QED
        BY <2>1, <2>2
<1> QED
    BY <1>2, AssignInvariant, PTL

\* A customer's printers, people and their histories stay that customer's.
THEOREM CustomersKeptApart == Assigning!Spec /\ Fleet!Spec => []CustomersApart
<1>1. Assigning!OwnTenantOnly /\ Assigning!DefaultFollowsRank
      /\ Fleet!TenancyAgrees /\ Fleet!HistoriesApart => CustomersApart
    BY DEF CustomersApart, Of
<1> QED
    BY <1>1, OwnTenantTold, DefaultsFollowRank, TenancyKept, HistoriesKeptApart, PTL

-----------------------------------------------------------------------------
(* Accounts: what sessions are worth.                                      *)

\* A change under way read an epoch that can still be counted on.
EditsBound == \A h \in Handlers : edits[h] # None => edits[h].epoch < MaxEpoch

LEMMA AccountFacts ==
    ASSUME Accounts!TypeOK
    PROVE  /\ MaxEpoch \in Nat /\ MaxTime \in Nat /\ Window \in Nat
           /\ DefaultRole \in Accounts!Roles
           /\ None # Gone /\ None \notin Accounts!Rows /\ Gone \notin Accounts!Rows
           /\ users \in [Users -> Accounts!Rows \cup {None, Gone}]
           /\ \A u \in Users : Accounts!Exists(u) <=> users[u] \in Accounts!Rows
BY AdministrationAssumption DEF Accounts!AccountsAssumption, Accounts!TypeOK, Accounts!Exists

\* The columns of an account are what they are.
LEMMA AccountColumns ==
    ASSUME NEW q \in Accounts!Rows
    PROVE  /\ q.role \in Accounts!Roles /\ q.provider \in {"local", "oidc", "scim"}
           /\ q.active \in BOOLEAN /\ q.password \in BOOLEAN /\ q.forced \in BOOLEAN
           /\ q.epoch \in 0..MaxEpoch
BY DEF Accounts!Rows

LEMMA NewAccount ==
    ASSUME Accounts!TypeOK, NEW role \in Accounts!Roles,
           NEW provider \in {"local", "oidc", "scim"}, NEW active \in BOOLEAN,
           NEW password \in BOOLEAN
    PROVE  /\ Accounts!NewRow(role, provider, active, password) \in Accounts!Rows
           /\ Accounts!NewRow(role, provider, active, password).epoch = 0
           /\ Accounts!NewRow(role, provider, active, password).forced = FALSE
BY AccountFacts DEF Accounts!NewRow, Accounts!Rows

\* What a change makes of an account.
LEMMA EditedAccount ==
    ASSUME Accounts!TypeOK, NEW q \in Accounts!Rows, NEW e \in Accounts!Edits,
           e.epoch < MaxEpoch, e.change # "delete"
    PROVE  /\ Accounts!Edited(q, e) \in Accounts!Rows
           /\ Accounts!Edited(q, e).role = CASE e.change = "promote" -> "admin"
                                             [] e.change = "demote" -> "tech"
                                             [] OTHER -> q.role
           /\ e.change \in {"promote", "demote"}
                 => /\ Accounts!Edited(q, e).epoch = q.epoch
                    /\ Accounts!Edited(q, e).forced = q.forced
           /\ e.change \in {"reset", "change", "logout"}
                 => Accounts!Edited(q, e).epoch = e.epoch + 1
           /\ e.change = "change" => Accounts!Edited(q, e).forced = FALSE
<1>0. /\ e.change \in {"demote", "promote", "reset", "change", "logout"}
      /\ e.epoch \in 0..MaxEpoch /\ MaxEpoch \in Nat
    BY AccountFacts DEF Accounts!Edits, Accounts!Changes
<1> DEFINE next == e.epoch + 1
<1>1. next \in 0..MaxEpoch
    BY <1>0
<1> HIDE DEF next
<1>2. CASE e.change = "promote"
    <2>1. Accounts!Edited(q, e) = [q EXCEPT !.role = "admin"]
        BY <1>2 DEF Accounts!Edited
    <2> QED
        BY <1>2, <2>1 DEF Accounts!Rows, Accounts!Roles
<1>3. CASE e.change = "demote"
    <2>1. Accounts!Edited(q, e) = [q EXCEPT !.role = "tech"]
        BY <1>3 DEF Accounts!Edited
    <2> QED
        BY <1>3, <2>1 DEF Accounts!Rows, Accounts!Roles
<1>4. CASE e.change = "reset"
    <2>1. Accounts!Edited(q, e) = [q EXCEPT !.password = TRUE, !.provider = "local",
                                            !.forced = TRUE, !.epoch = next]
        BY <1>4 DEF Accounts!Edited, next
    <2>2. /\ Accounts!Edited(q, e) \in Accounts!Rows /\ Accounts!Edited(q, e).role = q.role
          /\ Accounts!Edited(q, e).epoch = next
        BY <1>1, <2>1 DEF Accounts!Rows
    <2> QED
        BY <1>4, <2>2 DEF next
<1>5. CASE e.change = "change"
    <2>1. Accounts!Edited(q, e) = [q EXCEPT !.forced = FALSE, !.epoch = next]
        BY <1>5 DEF Accounts!Edited, next
    <2>2. /\ Accounts!Edited(q, e) \in Accounts!Rows /\ Accounts!Edited(q, e).role = q.role
          /\ Accounts!Edited(q, e).epoch = next /\ Accounts!Edited(q, e).forced = FALSE
        BY <1>1, <2>1 DEF Accounts!Rows
    <2> QED
        BY <1>5, <2>2 DEF next
<1>6. CASE e.change = "logout"
    <2>1. Accounts!Edited(q, e) = [q EXCEPT !.epoch = next]
        BY <1>6 DEF Accounts!Edited, next
    <2>2. /\ Accounts!Edited(q, e) \in Accounts!Rows /\ Accounts!Edited(q, e).role = q.role
          /\ Accounts!Edited(q, e).epoch = next
        BY <1>1, <2>1 DEF Accounts!Rows
    <2> QED
        BY <1>6, <2>2 DEF next
<1> QED
    BY <1>0, <1>2, <1>3, <1>4, <1>5, <1>6

\* What a step may do to the table of accounts, by the change that it commits.
AccountMade(u, q) ==        \* a new account, of an epoch no cookie knows
    /\ users[u] = None /\ q \in Accounts!Rows /\ q.epoch = 0 /\ q.forced = FALSE
    /\ users' = [users EXCEPT ![u] = q]
AccountToggled(u) ==        \* activated or deactivated
    /\ users[u] \in Accounts!Rows
    /\ users' \in [Users -> Accounts!Rows \cup {None, Gone}]
    /\ users'[u] \in Accounts!Rows /\ users'[u].epoch = users[u].epoch
    /\ users'[u].forced = users[u].forced /\ users'[u].role = users[u].role
    /\ \A v \in Users \ {u} : users'[v] = users[v]

LEMMA ActiveSet ==
    ASSUME Accounts!TypeOK, NEW u \in Users, NEW active \in BOOLEAN, Accounts!Exists(u),
           Accounts!SetActive(u, active)
    PROVE  AccountToggled(u)
<1>1. users[u] \in Accounts!Rows /\ users' = [users EXCEPT ![u].active = active]
    BY AccountFacts DEF Accounts!SetActive
<1>2. users'[u] = [users[u] EXCEPT !.active = active]
    BY <1>1, AccountFacts
<1>3. /\ users'[u] \in Accounts!Rows /\ users'[u].epoch = users[u].epoch
      /\ users'[u].forced = users[u].forced /\ users'[u].role = users[u].role
    BY <1>1, <1>2 DEF Accounts!Rows
<1>4. users' = [v \in Users |-> users'[v]] /\ \A v \in Users \ {u} : users'[v] = users[v]
    BY <1>1, AccountFacts
<1>5. users' \in [Users -> Accounts!Rows \cup {None, Gone}]
    BY <1>3, <1>4, AccountFacts
<1> QED
    BY <1>1, <1>3, <1>4, <1>5 DEF AccountToggled

\* What a browser sends along is a flag.
LEMMA LeftOverFlags ==
    ASSUME Accounts!TypeOK
    PROVE  Accounts!LeftOver \subseteq BOOLEAN
BY DEF Accounts!TypeOK, Accounts!Cookies, Accounts!LeftOver

\* The steps that write to the table of accounts.
LEMMA AccountsWritten ==
    ASSUME Accounts!TypeOK, [Accounts!Next]_accountVars
    PROVE  \/ users' = users
           \/ /\ UNCHANGED <<edits, signIns>>
              /\ \/ \E u \in Users, q \in Accounts!Rows :
                       AccountMade(u, q) /\ cookies' \subseteq cookies \cup
                             {[user |-> u, epoch |-> 0, forced |-> left] : left \in BOOLEAN}
                 \/ \E u \in Users : AccountToggled(u) /\ cookies' = cookies
           \/ \E h \in Handlers : Accounts!CommitEdit(h)
<1> USE AccountFacts
<1>1. ASSUME NEW u \in Users, Accounts!SsoProvision(u)
      PROVE  UNCHANGED <<edits, signIns>> /\ \E q \in Accounts!Rows :
                       AccountMade(u, q) /\ cookies' \subseteq cookies \cup
                             {[user |-> u, epoch |-> 0, forced |-> left] : left \in BOOLEAN}
    <2>1. PICK left \in BOOLEAN :
              cookies' = cookies \cup {[user |-> u, epoch |-> 0, forced |-> left]}
        BY <1>1, LeftOverFlags DEF Accounts!SsoProvision
    <2>2. cookies' \subseteq cookies \cup
              {[user |-> u, epoch |-> 0, forced |-> x] : x \in BOOLEAN}
        BY <2>1
    <2> QED
        BY <1>1, <2>2, NewAccount DEF Accounts!SsoProvision, AccountMade
<1>2. ASSUME NEW u \in Users, NEW a \in BOOLEAN, Accounts!ScimCreate(u, a)
      PROVE  \/ UNCHANGED <<edits, signIns>> /\ \E q \in Accounts!Rows : AccountMade(u, q) /\ cookies' = cookies
             \/ UNCHANGED <<edits, signIns>> /\ AccountToggled(u) /\ cookies' = cookies
    <2>2. CASE /\ users[u] = None
               /\ users' = [users EXCEPT ![u] = Accounts!NewRow(DefaultRole, "scim", a, FALSE)]
               /\ UNCHANGED <<cookies, signIns, edits>>
        BY <2>2, NewAccount DEF AccountMade
    <2>3. CASE Accounts!Exists(u) /\ Accounts!SetActive(u, TRUE)
        BY <2>3, ActiveSet DEF Accounts!SetActive
    <2> QED
        BY <1>2, <2>2, <2>3 DEF Accounts!ScimCreate, Accounts!Managed
<1>3. ASSUME NEW u \in Users, NEW a \in BOOLEAN, Accounts!ScimUpdate(u, a)
      PROVE  UNCHANGED <<edits, signIns>> /\ AccountToggled(u) /\ cookies' = cookies
    BY <1>3, ActiveSet DEF Accounts!ScimUpdate, Accounts!Managed, Accounts!SetActive
<1>4. ASSUME NEW c \in cookies, NEW u \in Users, NEW role \in Accounts!Roles, NEW p \in BOOLEAN,
             Accounts!CreateUser(c, u, role, p)
      PROVE  UNCHANGED <<edits, signIns>> /\ \E q \in Accounts!Rows : AccountMade(u, q) /\ cookies' = cookies
    <2>1. (IF p THEN "local" ELSE "oidc") \in {"local", "oidc", "scim"}
        OBVIOUS
    <2> QED
        BY <1>4, <2>1, NewAccount DEF Accounts!CreateUser, AccountMade
<1>5. ASSUME NEW b \in Browsers, Accounts!EndSignIn(b)
      PROVE  users' = users
    BY <1>5 DEF Accounts!EndSignIn
<1>6. ASSUME \/ UNCHANGED accountVars \/ Accounts!Tick \/ Accounts!Prune
             \/ \E b \in Browsers, u \in Users, s \in Sources, r \in BOOLEAN :
                   Accounts!TryPassword(b, u, s, r)
             \/ \E u \in Users : Accounts!SingleSignOn(u)
             \/ \E c \in cookies, u \in Users :
                   \/ Accounts!Unlock(c, u)
                   \/ \E h \in Handlers, change \in Accounts!Changes :
                         Accounts!Begin(h, c, change, u)
      PROVE  users' = users
    BY <1>6 DEF accountVars, Accounts!Tick, Accounts!Prune, Accounts!TryPassword,
        Accounts!SingleSignOn, Accounts!Unlock, Accounts!Begin
<1> QED
    BY <1>1, <1>2, <1>3, <1>4, <1>5, <1>6 DEF Accounts!Next

\* The steps that leave the table of accounts as it is, by what they write.
LEMMA AccountsRead ==
    ASSUME Accounts!TypeOK, [Accounts!Next]_accountVars, users' = users,
           ~\E h \in Handlers : Accounts!CommitEdit(h)
    PROVE  \/ UNCHANGED <<cookies, signIns, edits>>
           \/ \E b \in Browsers, u \in Users, s \in Sources, r \in BOOLEAN :
                 Accounts!TryPassword(b, u, s, r)
           \/ \E b \in Browsers : Accounts!EndSignIn(b)
           \/ \E u \in Users : Accounts!SingleSignOn(u) \/ Accounts!SsoProvision(u)
           \/ \E c \in cookies, u \in Users, h \in Handlers, change \in Accounts!Changes :
                 Accounts!Begin(h, c, change, u)
<1>1. ASSUME \/ UNCHANGED accountVars \/ Accounts!Tick \/ Accounts!Prune
             \/ \E c \in cookies, u \in Users :
                   \/ Accounts!Unlock(c, u)
                   \/ \E role \in Accounts!Roles, p \in BOOLEAN : Accounts!CreateUser(c, u, role, p)
             \/ \E u \in Users, a \in BOOLEAN : Accounts!ScimCreate(u, a) \/ Accounts!ScimUpdate(u, a)
      PROVE  UNCHANGED <<cookies, signIns, edits>>
    BY <1>1 DEF accountVars, Accounts!Tick, Accounts!Prune, Accounts!Unlock, Accounts!CreateUser,
        Accounts!ScimCreate, Accounts!ScimUpdate, Accounts!SetActive
<1> QED
    BY <1>1 DEF Accounts!Next

LEMMA CookieMade ==
    ASSUME Accounts!TypeOK, NEW u \in Users, Accounts!Exists(u), NEW left \in Accounts!LeftOver
    PROVE  /\ Accounts!CookieFor(u, left) \in Accounts!Cookies
           /\ Accounts!CookieFor(u, left).user = u
           /\ Accounts!CookieFor(u, left).epoch = users[u].epoch
           /\ users[u].forced => Accounts!CookieFor(u, left).forced
<1>1. users[u] \in Accounts!Rows
    BY AccountFacts
<1> QED
    BY <1>1, AccountColumns, LeftOverFlags DEF Accounts!CookieFor, Accounts!Cookies

\* What committing a change writes.
LEMMA ChangeCommitted ==
    ASSUME Accounts!TypeOK, EditsBound, NEW h \in Handlers, Accounts!CommitEdit(h)
    PROVE  LET e == edits[h] u == e.user IN
           /\ e \in Accounts!Edits /\ e.epoch < MaxEpoch
           /\ edits' = [edits EXCEPT ![h] = None] /\ UNCHANGED <<now, failures, signIns>>
           /\ ~Accounts!Exists(u) => UNCHANGED <<users, cookies>>
           /\ Accounts!Exists(u) =>
                 /\ users' = [users EXCEPT ![u] = Accounts!Edited(users[u], e)]
                 /\ cookies' \subseteq cookies \cup
                       {x \in {[user |-> u, epoch |-> e.epoch + 1, forced |-> FALSE]} :
                           e.change = "change"}
<1>1. edits[h] # None
    BY DEF Accounts!CommitEdit
<1>2. edits[h] \in Accounts!Edits /\ edits[h].epoch < MaxEpoch
    BY <1>1 DEF Accounts!TypeOK, EditsBound
<1>3. edits' = [edits EXCEPT ![h] = None] /\ UNCHANGED <<now, failures, signIns>>
    BY DEF Accounts!CommitEdit
<1>4. ASSUME ~Accounts!Exists(edits[h].user)
      PROVE  UNCHANGED <<users, cookies>>
    BY <1>4 DEF Accounts!CommitEdit
<1>5. ASSUME Accounts!Exists(edits[h].user)
      PROVE  /\ users' = [users EXCEPT ![edits[h].user] =
                             Accounts!Edited(users[edits[h].user], edits[h])]
             /\ cookies' = IF edits[h].change = "change"
                           THEN cookies \cup {[user |-> edits[h].user, epoch |-> edits[h].epoch + 1,
                                               forced |-> FALSE]}
                           ELSE cookies
    BY <1>5 DEF Accounts!CommitEdit
<1> QED
    BY <1>2, <1>3, <1>4, <1>5

LEMMA AccountTypes ==
    ASSUME Accounts!TypeOK, EditsBound, [Accounts!Next]_accountVars
    PROVE  Accounts!TypeOK' /\ EditsBound'
<1> USE AccountFacts
<1>0. /\ now \in 0..MaxTime /\ cookies \subseteq Accounts!Cookies
      /\ signIns \in [Browsers -> Accounts!SignIns \cup {None}]
      /\ edits \in [Handlers -> Accounts!Edits \cup {None}]
      /\ failures \in [(Users \cup Sources) \X (0..MaxTime) -> Nat]
    BY DEF Accounts!TypeOK
<1>1. now' \in 0..MaxTime /\ failures' \in [(Users \cup Sources) \X (0..MaxTime) -> Nat]
    <2>1. ASSUME UNCHANGED <<now, failures>>
          PROVE  now' \in 0..MaxTime /\ failures' \in [(Users \cup Sources) \X (0..MaxTime) -> Nat]
        BY <1>0, <2>1
    <2>2. ASSUME NEW K
          PROVE  Accounts!Without(K) \in [(Users \cup Sources) \X (0..MaxTime) -> Nat]
        BY <1>0 DEF Accounts!Without
    <2>3. ASSUME NEW u, NEW s
          PROVE  Accounts!WithFailure(u, s) \in [(Users \cup Sources) \X (0..MaxTime) -> Nat]
        BY <1>0 DEF Accounts!WithFailure
    <2>4. CASE Accounts!Tick
        BY <1>0, <2>4 DEF Accounts!Tick
    <2>5. CASE Accounts!Prune
        BY <1>0, <2>5 DEF Accounts!Prune
    <2>6. ASSUME NEW b \in Browsers, Accounts!EndSignIn(b)
          PROVE  now' \in 0..MaxTime /\ failures' \in [(Users \cup Sources) \X (0..MaxTime) -> Nat]
        BY <1>0, <2>2, <2>3, <2>6 DEF Accounts!EndSignIn
    <2>7. ASSUME NEW c \in cookies, NEW u \in Users, Accounts!Unlock(c, u)
          PROVE  now' \in 0..MaxTime /\ failures' \in [(Users \cup Sources) \X (0..MaxTime) -> Nat]
        BY <1>0, <2>2, <2>7 DEF Accounts!Unlock
    <2>8. ASSUME \/ UNCHANGED accountVars
                 \/ \E b \in Browsers, u \in Users, s \in Sources, r \in BOOLEAN :
                       Accounts!TryPassword(b, u, s, r)
                 \/ \E u \in Users :
                       \/ Accounts!SingleSignOn(u) \/ Accounts!SsoProvision(u)
                       \/ \E a \in BOOLEAN : Accounts!ScimCreate(u, a) \/ Accounts!ScimUpdate(u, a)
                 \/ \E c \in cookies, u \in Users :
                       \/ \E role \in Accounts!Roles, p \in BOOLEAN :
                             Accounts!CreateUser(c, u, role, p)
                       \/ \E h \in Handlers, change \in Accounts!Changes :
                             Accounts!Begin(h, c, change, u)
                 \/ \E h \in Handlers : Accounts!CommitEdit(h)
          PROVE  UNCHANGED <<now, failures>>
        BY <2>8 DEF accountVars, Accounts!TryPassword, Accounts!SingleSignOn,
            Accounts!SsoProvision, Accounts!ScimCreate, Accounts!ScimUpdate, Accounts!SetActive,
            Accounts!CreateUser, Accounts!Begin, Accounts!CommitEdit
    <2> QED
        BY <2>1, <2>4, <2>5, <2>6, <2>7, <2>8 DEF Accounts!Next
<1> DEFINE Goal == /\ users' \in [Users -> Accounts!Rows \cup {None, Gone}]
                   /\ cookies' \subseteq Accounts!Cookies
                   /\ signIns' \in [Browsers -> Accounts!SignIns \cup {None}]
                   /\ edits' \in [Handlers -> Accounts!Edits \cup {None}]
                   /\ EditsBound'
<1>2. ASSUME NEW h \in Handlers, Accounts!CommitEdit(h)
      PROVE  Goal
    <2> DEFINE e == edits[h]
               u == e.user
    <2>1. /\ e \in Accounts!Edits /\ e.epoch < MaxEpoch
          /\ edits' = [edits EXCEPT ![h] = None] /\ UNCHANGED <<now, failures, signIns>>
          /\ ~Accounts!Exists(u) => UNCHANGED <<users, cookies>>
          /\ Accounts!Exists(u) =>
                 /\ users' = [users EXCEPT ![u] = Accounts!Edited(users[u], e)]
                 /\ cookies' \subseteq cookies \cup
                       {x \in {[user |-> u, epoch |-> e.epoch + 1, forced |-> FALSE]} :
                           e.change = "change"}
        BY <1>2, ChangeCommitted
    <2>2. u \in Users /\ e.epoch \in 0..MaxEpoch
        BY <2>1 DEF Accounts!Edits
    <2> HIDE DEF e, u
    <2>3. EditsBound' /\ edits' \in [Handlers -> Accounts!Edits \cup {None}]
        BY <1>0, <2>1 DEF EditsBound
    <2>4. Accounts!Exists(u) => Accounts!Edited(users[u], e) \in Accounts!Rows \cup {Gone}
        <3>1. CASE e.change = "delete"
            BY <3>1 DEF Accounts!Edited
        <3>2. CASE e.change # "delete"
            BY <2>1, <2>2, <3>2, EditedAccount
        <3> QED
            BY <3>1, <3>2
    <2>5. users' \in [Users -> Accounts!Rows \cup {None, Gone}]
        BY <2>1, <2>2, <2>4
    <2>6. [user |-> u, epoch |-> e.epoch + 1, forced |-> FALSE] \in Accounts!Cookies
        BY <2>1, <2>2 DEF Accounts!Cookies
    <2>7. cookies' \subseteq Accounts!Cookies
        BY <1>0, <2>1, <2>6
    <2> QED
        BY <1>0, <2>1, <2>3, <2>5, <2>7
<1>3. ASSUME NEW u \in Users, NEW q \in Accounts!Rows, AccountMade(u, q),
             UNCHANGED <<edits, signIns>>,
             cookies' \subseteq cookies \cup
                 {[user |-> u, epoch |-> 0, forced |-> left] : left \in BOOLEAN}
      PROVE  Goal
    <2>1. \A left \in BOOLEAN : [user |-> u, epoch |-> 0, forced |-> left] \in Accounts!Cookies
        BY DEF Accounts!Cookies
    <2> QED
        BY <1>0, <1>3, <2>1 DEF AccountMade, EditsBound
<1>4. ASSUME NEW u \in Users, AccountToggled(u), UNCHANGED <<edits, signIns, cookies>>
      PROVE  Goal
    BY <1>0, <1>4 DEF AccountToggled, EditsBound
<1>5. ASSUME users' = users, UNCHANGED <<cookies, signIns, edits>>
      PROVE  Goal
    BY <1>0, <1>5 DEF EditsBound
<1>6. ASSUME NEW b \in Browsers, NEW u \in Users, NEW s \in Sources, NEW r \in BOOLEAN,
             Accounts!TryPassword(b, u, s, r)
      PROVE  Goal
    <2>0. PICK left \in Accounts!LeftOver :
              signIns' = [signIns EXCEPT ![b] =
                 [user |-> u, source |-> s,
                  cookie |-> IF r /\ users[u].active
                             THEN Accounts!CookieFor(u, left) ELSE None]]
        BY <1>6 DEF Accounts!TryPassword
    <2> DEFINE cookie == IF r /\ users[u].active THEN Accounts!CookieFor(u, left) ELSE None
    <2>1. /\ users' = users /\ cookies' = cookies /\ edits' = edits
          /\ signIns' = [signIns EXCEPT ![b] = [user |-> u, source |-> s, cookie |-> cookie]]
          /\ r => Accounts!Exists(u)
        BY <1>6, <2>0 DEF Accounts!TryPassword
    <2>2. cookie \in Accounts!Cookies \cup {None}
        BY <2>1, CookieMade
    <2> HIDE DEF cookie
    <2>3. [user |-> u, source |-> s, cookie |-> cookie] \in Accounts!SignIns
        BY <2>2 DEF Accounts!SignIns
    <2> QED
        BY <1>0, <2>1, <2>3 DEF EditsBound
<1>7. ASSUME NEW b \in Browsers, Accounts!EndSignIn(b)
      PROVE  Goal
    <2>1. /\ users' = users /\ edits' = edits /\ signIns[b] \in Accounts!SignIns
          /\ signIns' = [signIns EXCEPT ![b] = None]
          /\ \/ cookies' = cookies
             \/ signIns[b].cookie # None /\ cookies' = cookies \cup {signIns[b].cookie}
        BY <1>0, <1>7 DEF Accounts!EndSignIn
    <2>2. signIns[b].cookie \in Accounts!Cookies \cup {None}
        BY <2>1 DEF Accounts!SignIns
    <2> QED
        BY <1>0, <2>1, <2>2 DEF EditsBound
<1>8. ASSUME NEW u \in Users, Accounts!SingleSignOn(u)
      PROVE  Goal
    BY <1>0, <1>8, CookieMade DEF Accounts!SingleSignOn, Accounts!SsoAccepts, EditsBound
<1>9. ASSUME NEW c \in cookies, NEW u \in Users, NEW h \in Handlers,
             NEW change \in Accounts!Changes, Accounts!Begin(h, c, change, u)
      PROVE  Goal
    <2> DEFINE e == [change |-> change, user |-> u, epoch |-> users[u].epoch]
    <2>1. /\ users' = users /\ cookies' = cookies /\ signIns' = signIns
          /\ edits' = [edits EXCEPT ![h] = e]
          /\ users[u] \in Accounts!Rows /\ users[u].epoch < MaxEpoch
        BY <1>9 DEF Accounts!Begin
    <2>2. e \in Accounts!Edits /\ e.epoch = users[u].epoch
        BY <2>1, AccountColumns DEF Accounts!Edits
    <2> HIDE DEF e
    <2>3. EditsBound'
        BY <1>0, <2>1, <2>2 DEF EditsBound
    <2> QED
        BY <1>0, <2>1, <2>2, <2>3
<1>10. ASSUME NEW u \in Users, Accounts!SsoProvision(u)
       PROVE  users' # users
    BY <1>10, NewAccount DEF Accounts!SsoProvision
<1> HIDE DEF Goal
<1>11. Goal
    BY <1>2, <1>3, <1>4, <1>5, <1>6, <1>7, <1>8, <1>9, <1>10, AccountsWritten, AccountsRead
<1> QED
    BY <1>1, <1>11 DEF Accounts!TypeOK, Goal

\* Every value of the accounts' variables is of its type.
THEOREM AccountTypesKept == Accounts!Spec => [](Accounts!TypeOK /\ EditsBound)
<1>1. Accounts!Init => Accounts!TypeOK /\ EditsBound
    <2> SUFFICES ASSUME Accounts!Init PROVE Accounts!TypeOK /\ EditsBound
        OBVIOUS
    <2>1. MaxEpoch \in Nat /\ MaxTime \in Nat
        BY AdministrationAssumption DEF Accounts!AccountsAssumption
    <2> DEFINE seed == [role |-> "admin", provider |-> "local", active |-> TRUE,
                        password |-> TRUE, forced |-> TRUE, epoch |-> 0]
    <2>2. seed \in Accounts!Rows
        BY <2>1 DEF Accounts!Rows, Accounts!Roles
    <2>3. PICK first \in Users : users = [u \in Users |-> IF u = first THEN seed ELSE None]
        BY DEF Accounts!Init
    <2> HIDE DEF seed
    <2>4. users \in [Users -> Accounts!Rows \cup {None, Gone}]
        BY <2>2, <2>3
    <2> QED
        BY <2>1, <2>4 DEF Accounts!Init, Accounts!TypeOK, EditsBound
<1>2. Accounts!TypeOK /\ EditsBound /\ [Accounts!Next]_accountVars
      => (Accounts!TypeOK /\ EditsBound)'
    BY AccountTypes
<1> QED
    BY <1>1, <1>2, PTL DEF Accounts!Spec, Accounts!vars, accountVars

-----------------------------------------------------------------------------
(* Accounts: the throttle.                                                 *)

Buckets == Users \cup Sources

Failed(k) == [t \in 0..MaxTime |-> failures[<<k, t>>]]

\* The ticks that are not older than the window.
Recent == {t \in 0..now : now - t <= Window}

\* The sign-ins under way that will count against k.
Doubtful(k) == {b \in Browsers : /\ signIns[b] # None /\ signIns[b].cookie = None
                                 /\ k \in {signIns[b].user, signIns[b].source}}

Limit(k) == IF k \in Users THEN UserThreshold ELSE SourceThreshold

\* What is counted and what is on its way to be: a sign-in is let in only below
\* the threshold, and no more can be under way than there are browsers.
WithinBudget(k) ==
    SumOver(Failed(k), Recent) + Cardinality(Doubtful(k)) < Limit(k) + Cardinality(Browsers)

\* Nothing has failed in the future.
FailuresPast == \A k \in Buckets, t \in 0..MaxTime : t > now => failures[<<k, t>>] = 0

BudgetInv == FailuresPast /\ \A k \in Buckets : WithinBudget(k)

LEMMA CountIs ==
    now \in 0..MaxTime =>
        \A k \in Buckets : Accounts!Count(k) = SumOver(Failed(k), Recent)
<1> SUFFICES ASSUME now \in 0..MaxTime, NEW k \in Buckets
             PROVE  Accounts!Count(k) = SumOver(Failed(k), Recent)
    OBVIOUS
<1>0. MaxTime \in Nat
    BY AdministrationAssumption DEF Accounts!AccountsAssumption
<1> DEFINE S == Recent
           One(g) == g = [s \in SUBSET S |->
                            IF s = {} THEN 0
                            ELSE failures[<<k, FirstOf(s)>>] + g[s \ {FirstOf(s)}]]
<1>1. Accounts!Count(k) = (CHOOSE g : One(g))[S]
    BY DEF Accounts!Count, Accounts!Sums!MapThenSumSet, Accounts!Sums!MapThenFoldSet, Recent,
        FirstOf
<1>2. Recent \in SUBSET (0..MaxTime)
    BY <1>0 DEF Recent
<1>3. \A s \in SUBSET S : s # {} => FirstOf(s) \in S
    BY DEF FirstOf
<1>4. \A s \in SUBSET S : s # {} => Failed(k)[FirstOf(s)] = failures[<<k, FirstOf(s)>>]
    BY <1>2, <1>3 DEF Failed
<1> HIDE DEF S
<1>5. \A g : Adds(Failed(k), S, g) <=> One(g)
    BY <1>4 DEF Adds
<1>6. (CHOOSE g : Adds(Failed(k), S, g)) = CHOOSE g : One(g)
    BY <1>5
<1> QED
    BY <1>1, <1>6 DEF SumOver, S

\* What the counts of the window are.
CountsSound ==
    /\ Recent \in SUBSET (0..MaxTime) /\ IsFiniteSet(Recent)
    /\ \A k \in Buckets, t \in 0..MaxTime : Failed(k)[t] \in Nat
    /\ \A k \in Buckets, t \in 0..MaxTime : Failed(k)[t] = failures[<<k, t>>]
    /\ \A k \in Buckets : SumOver(Failed(k), Recent) \in Nat
    /\ now \in 0..MaxTime /\ MaxTime \in Nat /\ Window \in Nat

LEMMA RecentCounts == Accounts!TypeOK => CountsSound
<1> SUFFICES ASSUME Accounts!TypeOK PROVE CountsSound
    OBVIOUS
<1>1. now \in 0..MaxTime /\ MaxTime \in Nat /\ Window \in Nat
    BY AdministrationAssumption DEF Accounts!AccountsAssumption, Accounts!TypeOK
<1>2. Recent \in SUBSET (0..MaxTime)
    BY <1>1 DEF Recent
<1>3. IsFiniteSet(0..MaxTime)
    BY <1>1, FS_Interval
<1>4. IsFiniteSet(Recent)
    BY <1>2, <1>3, FS_Subset
<1>5. \A k \in Buckets, t \in 0..MaxTime :
          Failed(k)[t] = failures[<<k, t>>] /\ Failed(k)[t] \in Nat
    BY DEF Failed, Buckets, Accounts!TypeOK
<1>6. ASSUME NEW k \in Buckets
      PROVE  SumOver(Failed(k), Recent) \in Nat
    <2>1. \A t \in Recent : Failed(k)[t] \in Nat
        BY <1>2, <1>5
    <2> QED
        BY <1>4, <2>1, SumNat
<1> QED
    BY <1>1, <1>2, <1>4, <1>5, <1>6 DEF CountsSound

\* Who is under way is counted.
DoubtsSound ==
    \A k : /\ IsFiniteSet(Doubtful(k)) /\ Cardinality(Doubtful(k)) \in Nat
           /\ Cardinality(Doubtful(k)) <= Cardinality(Browsers)

LEMMA DoubtfulCounted ==
    /\ IsFiniteSet(Browsers) /\ Cardinality(Browsers) \in Nat
    /\ DoubtsSound
    /\ \A k \in Buckets : Limit(k) \in Nat \ {0}
<1>1. IsFiniteSet(Browsers)
    BY AdministrationAssumption DEF Accounts!AccountsAssumption, Accounts!IsFiniteSet, IsFiniteSet
<1>2. ASSUME NEW k
      PROVE  /\ IsFiniteSet(Doubtful(k)) /\ Cardinality(Doubtful(k)) \in Nat
             /\ Cardinality(Doubtful(k)) <= Cardinality(Browsers)
    <2>1. Doubtful(k) \in SUBSET Browsers
        BY DEF Doubtful
    <2> QED
        BY <1>1, <2>1, FS_Subset, FS_CardinalityType
<1>3. \A k \in Buckets : Limit(k) \in Nat \ {0}
    BY AdministrationAssumption DEF Accounts!AccountsAssumption, Limit
<1> QED
    BY <1>1, <1>2, <1>3, FS_CardinalityType DEF DoubtsSound

LEMMA CountsNext == (Accounts!TypeOK' => CountsSound') /\ DoubtsSound'
<1>1. DoubtsSound
    BY DoubtfulCounted
<1> QED
    BY <1>1, RecentCounts, PTL

\* No more failures in the window, and no more under way: the budget is kept.
LEMMA BudgetDrops ==
    ASSUME Accounts!TypeOK, Accounts!TypeOK', BudgetInv, now' = now,
           NEW k \in Buckets,
           \A t \in 0..MaxTime : failures'[<<k, t>>] <= failures[<<k, t>>],
           Doubtful(k)' \subseteq Doubtful(k)
    PROVE  /\ WithinBudget(k)'
           /\ \A t \in 0..MaxTime : t > now' => failures'[<<k, t>>] = 0
<1>1. Recent' = Recent
    BY DEF Recent
<1>2. SumOver(Failed(k)', Recent) <= SumOver(Failed(k), Recent)
    <2>1. \A t \in Recent : /\ Failed(k)[t] \in Nat /\ Failed(k)'[t] \in Nat
                            /\ Failed(k)'[t] <= Failed(k)[t]
        BY RecentCounts, CountsNext DEF CountsSound
    <2> QED
        BY <2>1, RecentCounts, SumLess DEF CountsSound
<1>3. Cardinality(Doubtful(k)') <= Cardinality(Doubtful(k))
    BY DoubtfulCounted, FS_Subset DEF DoubtsSound
<1>4. WithinBudget(k)
    BY DEF BudgetInv
<1>5. /\ SumOver(Failed(k)', Recent) \in Nat /\ SumOver(Failed(k), Recent) \in Nat
      /\ Cardinality(Doubtful(k)') \in Nat /\ Cardinality(Doubtful(k)) \in Nat
      /\ Limit(k) \in Nat /\ Cardinality(Browsers) \in Nat
    BY <1>1, RecentCounts, CountsNext, DoubtfulCounted DEF CountsSound, DoubtsSound
<1>6. SumOver(Failed(k)', Recent) + Cardinality(Doubtful(k)') < Limit(k) + Cardinality(Browsers)
    <2> DEFINE a == SumOver(Failed(k)', Recent)
               c == SumOver(Failed(k), Recent)
               d == Cardinality(Doubtful(k)')
               e == Cardinality(Doubtful(k))
    <2>1. a <= c /\ d <= e /\ c + e < Limit(k) + Cardinality(Browsers)
        BY <1>2, <1>3, <1>4 DEF WithinBudget
    <2>2. a \in Nat /\ c \in Nat /\ d \in Nat /\ e \in Nat
        BY <1>5
    <2> HIDE DEF a, c, d, e
    <2>3. a + d < Limit(k) + Cardinality(Browsers)
        BY <1>5, <2>1, <2>2
    <2> QED
        BY <2>3 DEF a, d
<1>7. WithinBudget(k)'
    BY <1>1, <1>6 DEF WithinBudget, Limit
<1>8. \A t \in 0..MaxTime : t > now' => failures'[<<k, t>>] = 0
    <2> SUFFICES ASSUME NEW t \in 0..MaxTime, t > now PROVE failures'[<<k, t>>] = 0
        OBVIOUS
    <2>1. failures[<<k, t>>] = 0
        BY DEF BudgetInv, FailuresPast
    <2>2. failures'[<<k, t>>] \in Nat
        BY CountsNext DEF CountsSound
    <2> QED
        BY <2>1, <2>2
<1> QED
    BY <1>7, <1>8

\* The window moves on: nothing has failed in the tick that begins.
LEMMA BudgetTicks ==
    ASSUME Accounts!TypeOK, Accounts!TypeOK', BudgetInv, Accounts!Tick
    PROVE  BudgetInv'
<1>1. now < MaxTime /\ now' = now + 1 /\ failures' = failures /\ signIns' = signIns
    BY DEF Accounts!Tick
<1>2. now \in 0..MaxTime /\ MaxTime \in Nat /\ Window \in Nat
    BY RecentCounts DEF CountsSound
<1>3. Recent' \subseteq Recent \cup {now + 1} /\ now + 1 \notin Recent
    BY <1>1, <1>2 DEF Recent
<1>4. ASSUME NEW k \in Buckets PROVE WithinBudget(k)'
    <2> DEFINE F == Failed(k)
               S == Recent \cup {now + 1}
    <2>1. Failed(k)' = F /\ Doubtful(k)' = Doubtful(k) /\ Limit(k)' = Limit(k)
        BY <1>1 DEF Failed, Doubtful, Limit
    <2>2. F[now + 1] = 0
        <3>1. now + 1 \in 0..MaxTime /\ now + 1 > now
            BY <1>1, <1>2
        <3>2. failures[<<k, now + 1>>] = 0
            BY <3>1 DEF BudgetInv, FailuresPast
        <3> QED
            BY <3>1, <3>2 DEF Failed
    <2>3. IsFiniteSet(S) /\ IsFiniteSet(Recent) /\ \A t \in S : F[t] \in Nat
        BY <1>1, <1>2, RecentCounts, FS_AddElement DEF CountsSound
    <2>4. WithinBudget(k)
        BY DEF BudgetInv
    <2> HIDE DEF F
    <2>5. SumOver(F, Recent') <= SumOver(F, S)
        BY <1>3, <2>3, SumFewer
    <2>6. SumOver(F, S) = F[now + 1] + SumOver(F, S \ {now + 1})
        BY <2>3, SumRemove
    <2>7. S \ {now + 1} = Recent
        BY <1>3
    <2>8. SumOver(F, Recent) \in Nat /\ SumOver(F, Recent') \in Nat
        BY <2>1, RecentCounts, CountsNext DEF CountsSound, F
    <2>9. SumOver(F, S) = SumOver(F, Recent)
        BY <2>2, <2>6, <2>7, <2>8
    <2>10. /\ Cardinality(Doubtful(k)) \in Nat /\ Cardinality(Browsers) \in Nat
           /\ Limit(k) \in Nat
        BY DoubtfulCounted DEF DoubtsSound
    <2>11. SumOver(F, Recent') + Cardinality(Doubtful(k)) < Limit(k) + Cardinality(Browsers)
        <3> DEFINE a == SumOver(F, Recent')
                   c == SumOver(F, Recent)
                   d == Cardinality(Doubtful(k))
        <3>1. a <= c /\ c + d < Limit(k) + Cardinality(Browsers)
            BY <2>4, <2>5, <2>9 DEF WithinBudget, F
        <3>2. a \in Nat /\ c \in Nat /\ d \in Nat
            BY <2>8, <2>10
        <3> HIDE DEF a, c, d
        <3>3. a + d < Limit(k) + Cardinality(Browsers)
            BY <2>10, <3>1, <3>2
        <3> QED
            BY <3>3 DEF a, d
    <2> QED
        BY <2>1, <2>11 DEF WithinBudget
<1>5. FailuresPast'
    BY <1>1, <1>2 DEF BudgetInv, FailuresPast, Buckets
<1> QED
    BY <1>4, <1>5 DEF BudgetInv, Buckets

\* check: below the threshold there is room for everybody under way.
LEMMA BudgetOpens ==
    ASSUME Accounts!TypeOK, Accounts!TypeOK', BudgetInv,
           NEW b \in Browsers, NEW u \in Users, NEW s \in Sources, NEW r \in BOOLEAN,
           Accounts!TryPassword(b, u, s, r)
    PROVE  BudgetInv'
<1>1. /\ now' = now /\ failures' = failures
      /\ Accounts!Count(u) < UserThreshold /\ Accounts!Count(s) < SourceThreshold
    <2>1. /\ Accounts!Count(u) = SumOver(Failed(u), Recent)
          /\ Accounts!Count(s) = SumOver(Failed(s), Recent)
          /\ SumOver(Failed(u), Recent) \in Nat /\ SumOver(Failed(s), Recent) \in Nat
        BY CountIs, RecentCounts DEF CountsSound, Buckets
    <2>2. UserThreshold \in Nat /\ SourceThreshold \in Nat
        BY AdministrationAssumption DEF Accounts!AccountsAssumption
    <2>3. /\ now' = now /\ failures' = failures
          /\ ~(Accounts!Count(u) >= UserThreshold) /\ ~(Accounts!Count(s) >= SourceThreshold)
        BY DEF Accounts!TryPassword, Accounts!Throttled
    <2> QED
        BY <2>1, <2>2, <2>3
<1>2. \E cookie : signIns' = [signIns EXCEPT ![b] = [user |-> u, source |-> s, cookie |-> cookie]]
    BY DEF Accounts!TryPassword
<1>3. ASSUME NEW k \in Buckets
      PROVE  WithinBudget(k)' /\ \A t \in 0..MaxTime : t > now' => failures'[<<k, t>>] = 0
    <2>1. CASE k \in {u, s}
        <3>1. SumOver(Failed(k), Recent) < Limit(k)
            <4>1. s \notin Users
                BY AdministrationAssumption DEF Accounts!AccountsAssumption
            <4> QED
                BY <1>1, <2>1, <4>1, CountIs, RecentCounts DEF CountsSound, Limit
        <3>2. Failed(k)' = Failed(k) /\ Recent' = Recent /\ Limit(k)' = Limit(k)
            BY <1>1 DEF Failed, Recent, Limit
        <3>3. /\ Cardinality(Doubtful(k)') \in Nat
              /\ Cardinality(Doubtful(k)') <= Cardinality(Browsers)
            BY CountsNext DEF DoubtsSound
        <3>4. /\ SumOver(Failed(k), Recent) \in Nat /\ Limit(k) \in Nat
              /\ Cardinality(Browsers) \in Nat
            BY RecentCounts, DoubtfulCounted DEF CountsSound
        <3>5. SumOver(Failed(k), Recent) + Cardinality(Doubtful(k)')
                 < Limit(k) + Cardinality(Browsers)
            <4> DEFINE a == SumOver(Failed(k), Recent)
                       d == Cardinality(Doubtful(k)')
            <4>1. a \in Nat /\ d \in Nat /\ a < Limit(k) /\ d <= Cardinality(Browsers)
                BY <3>1, <3>3, <3>4
            <4> HIDE DEF a, d
            <4>2. a + d < Limit(k) + Cardinality(Browsers)
                BY <3>4, <4>1
            <4> QED
                BY <4>2 DEF a, d
        <3> QED
            BY <1>1, <3>2, <3>5 DEF WithinBudget, BudgetInv, FailuresPast
    <2>2. CASE k \notin {u, s}
        <3>1. Doubtful(k)' \subseteq Doubtful(k)
            BY <1>2, <2>2 DEF Doubtful, Accounts!TypeOK
        <3>2. \A t \in 0..MaxTime : failures'[<<k, t>>] <= failures[<<k, t>>]
            BY <1>1, RecentCounts DEF CountsSound
        <3> QED
            BY <1>1, <3>1, <3>2, BudgetDrops
    <2> QED
        BY <2>1, <2>2
<1> QED
    BY <1>3 DEF BudgetInv, FailuresPast, Buckets

\* record_failure: what is counted now was under way.
LEMMA BudgetCounts ==
    ASSUME Accounts!TypeOK, Accounts!TypeOK', BudgetInv,
           NEW b \in Browsers, Accounts!EndSignIn(b), signIns[b].cookie = None
    PROVE  BudgetInv'
<1> DEFINE u == signIns[b].user
           s == signIns[b].source
<1>1. /\ now' = now /\ failures' = Accounts!WithFailure(u, s)
      /\ signIns' = [signIns EXCEPT ![b] = None] /\ signIns[b] # None
    BY DEF Accounts!EndSignIn
<1>2. signIns \in [Browsers -> Accounts!SignIns \cup {None}]
    BY DEF Accounts!TypeOK
<1>3. now \in 0..MaxTime /\ MaxTime \in Nat /\ Window \in Nat
    BY RecentCounts DEF CountsSound
<1>4. \A k \in Buckets, t \in 0..MaxTime :
          /\ <<k, t>> \in DOMAIN failures /\ failures[<<k, t>>] \in Nat
          /\ <<k, t>>[1] = k /\ <<k, t>>[2] = t
    BY DEF Accounts!TypeOK, Buckets
<1>5. ASSUME NEW k \in Buckets, NEW t \in 0..MaxTime
      PROVE  /\ k \notin {u, s} => failures'[<<k, t>>] = failures[<<k, t>>]
             /\ t = now => failures'[<<k, t>>] \in {failures[<<k, t>>], failures[<<k, t>>] + 1}
             /\ t # now => failures'[<<k, t>>] \in {failures[<<k, t>>], 0}
    <2> DEFINE x == <<k, t>>
    <2>1. failures' = [y \in DOMAIN failures |->
                          IF y[1] \in {u, s}
                          THEN IF y[2] = now THEN failures[y] + 1
                               ELSE IF y[2] < now - 2 * Window THEN 0 ELSE failures[y]
                          ELSE failures[y]]
        BY <1>1 DEF Accounts!WithFailure
    <2>2. x \in DOMAIN failures /\ x[1] = k /\ x[2] = t
        BY <1>4
    <2> HIDE DEF u, s, x
    <2>3. /\ k \notin {u, s} => failures'[x] = failures[x]
          /\ t = now => failures'[x] \in {failures[x], failures[x] + 1}
          /\ t # now => failures'[x] \in {failures[x], 0}
        BY <2>1, <2>2
    <2> QED
        BY <2>3 DEF x, u, s
<1>6. ASSUME NEW k \in Buckets
      PROVE  WithinBudget(k)' /\ \A t \in 0..MaxTime : t > now' => failures'[<<k, t>>] = 0
    <2>1. CASE k \in {u, s}
        <3>1. b \in Doubtful(k) /\ Doubtful(k)' = Doubtful(k) \ {b}
            BY <1>1, <1>2, <2>1 DEF Doubtful
        <3>2. Cardinality(Doubtful(k)') = Cardinality(Doubtful(k)) - 1
            <4>1. IsFiniteSet(Doubtful(k))
                BY DoubtfulCounted DEF DoubtsSound
            <4>2. Cardinality(Doubtful(k) \ {b}) = Cardinality(Doubtful(k)) - 1
                BY <3>1, <4>1, FS_RemoveElement
            <4> QED
                BY <3>1, <4>2
        <3>3. Recent' = Recent /\ now \in Recent /\ Limit(k)' = Limit(k)
            BY <1>1, <1>3 DEF Recent, Limit
        <3> DEFINE F == Failed(k)
                   G == Failed(k)'
        <3>0. \A t \in 0..MaxTime : /\ F[t] \in Nat /\ F[t] = failures[<<k, t>>]
                                    /\ G[t] \in Nat /\ G[t] = failures'[<<k, t>>]
            BY RecentCounts, CountsNext DEF CountsSound
        <3>11. Recent \in SUBSET (0..MaxTime)
            BY RecentCounts DEF CountsSound
        <3> HIDE DEF F, G
        <3>12. ASSUME NEW t \in 0..MaxTime
               PROVE  (t = now => G[t] <= F[t] + 1) /\ (t # now => G[t] <= F[t])
            <4> DEFINE x == failures[<<k, t>>]
                       y == failures'[<<k, t>>]
            <4>1. /\ t = now => y \in {x, x + 1}
                  /\ t # now => y \in {x, 0}
                BY <1>5
            <4>2. F[t] \in Nat /\ F[t] = x /\ G[t] = y
                BY <3>0
            <4> HIDE DEF x, y
            <4> QED
                BY <4>1, <4>2
        <3>4. \A t \in Recent : /\ F[t] \in Nat /\ G[t] \in Nat
                                /\ t # now => G[t] <= F[t]
            BY <3>0, <3>11, <3>12
        <3>5. G[now] <= F[now] + 1
            BY <1>3, <3>12
        <3>6. SumOver(Failed(k)', Recent) <= SumOver(Failed(k), Recent) + 1
            <4>1. IsFiniteSet(Recent)
                BY RecentCounts DEF CountsSound
            <4> QED
                BY <3>3, <3>4, <3>5, <4>1, SumBumped DEF F, G
        <3>7. /\ SumOver(Failed(k), Recent) \in Nat /\ SumOver(Failed(k)', Recent) \in Nat
              /\ Limit(k) \in Nat /\ Cardinality(Browsers) \in Nat
              /\ Cardinality(Doubtful(k)) \in Nat
            BY <3>3, RecentCounts, CountsNext, DoubtfulCounted DEF CountsSound, DoubtsSound
        <3>8. SumOver(Failed(k), Recent) + Cardinality(Doubtful(k))
                 < Limit(k) + Cardinality(Browsers)
            BY DEF BudgetInv, WithinBudget
        <3>9. SumOver(Failed(k)', Recent) + Cardinality(Doubtful(k)')
                 < Limit(k) + Cardinality(Browsers)
            <4> DEFINE a == SumOver(Failed(k)', Recent)
                       c == SumOver(Failed(k), Recent)
                       d == Cardinality(Doubtful(k)')
                       e == Cardinality(Doubtful(k))
            <4>1. /\ a \in Nat /\ c \in Nat /\ e \in Nat /\ d = e - 1 /\ a <= c + 1
                  /\ c + e < Limit(k) + Cardinality(Browsers)
                BY <3>2, <3>6, <3>7, <3>8
            <4> HIDE DEF a, c, d, e
            <4>2. a + d < Limit(k) + Cardinality(Browsers)
                BY <3>7, <4>1
            <4> QED
                BY <4>2 DEF a, d
        <3>10. \A t \in 0..MaxTime : t > now => failures'[<<k, t>>] = 0
            <4> SUFFICES ASSUME NEW t \in 0..MaxTime, t > now PROVE failures'[<<k, t>>] = 0
                OBVIOUS
            <4>1. failures[<<k, t>>] = 0
                BY DEF BudgetInv, FailuresPast
            <4> QED
                BY <1>3, <1>5, <4>1
        <3> QED
            BY <1>1, <3>3, <3>9, <3>10 DEF WithinBudget
    <2>2. CASE k \notin {u, s}
        <3>1. Doubtful(k)' \subseteq Doubtful(k)
            BY <1>1, <1>2 DEF Doubtful
        <3>2. \A t \in 0..MaxTime : failures'[<<k, t>>] <= failures[<<k, t>>]
            BY <1>4, <1>5, <2>2
        <3> QED
            BY <1>1, <3>1, <3>2, BudgetDrops
    <2> QED
        BY <2>1, <2>2
<1> QED
    BY <1>6 DEF BudgetInv, FailuresPast, Buckets

\* Every step keeps the budget.
LEMMA BudgetStep ==
    ASSUME Accounts!TypeOK, Accounts!TypeOK', BudgetInv, [Accounts!Next]_accountVars
    PROVE  BudgetInv'
<1>1. ASSUME now' = now, \A k \in Buckets : Doubtful(k)' \subseteq Doubtful(k),
             \A x \in DOMAIN failures : failures'[x] <= failures[x]
      PROVE  BudgetInv'
    <2>1. ASSUME NEW k \in Buckets
          PROVE  WithinBudget(k)' /\ \A t \in 0..MaxTime : t > now' => failures'[<<k, t>>] = 0
        <3>1. \A t \in 0..MaxTime : <<k, t>> \in DOMAIN failures
            BY DEF Accounts!TypeOK, Buckets
        <3>2. \A t \in 0..MaxTime : failures'[<<k, t>>] <= failures[<<k, t>>]
            BY <1>1, <3>1
        <3> QED
            BY <1>1, <3>2, BudgetDrops
    <2> QED
        BY <2>1 DEF BudgetInv, FailuresPast, Buckets
<1>2. \A x \in DOMAIN failures : failures[x] \in Nat
    BY DEF Accounts!TypeOK
<1>3. ASSUME NEW K
      PROVE  \A x \in DOMAIN failures : Accounts!Without(K)[x] <= failures[x]
    <2>1. \A x \in DOMAIN failures : Accounts!Without(K)[x] \in {0, failures[x]}
        BY DEF Accounts!Without
    <2> QED
        BY <1>2, <2>1
<1>4. ASSUME UNCHANGED <<now, failures, signIns>>
      PROVE  BudgetInv'
    <2>1. \A x \in DOMAIN failures : failures'[x] <= failures[x]
        BY <1>2, <1>4
    <2>2. \A k \in Buckets : Doubtful(k)' \subseteq Doubtful(k)
        BY <1>4 DEF Doubtful
    <2> QED
        BY <1>1, <1>4, <2>1, <2>2
<1>5. CASE Accounts!Tick
    BY <1>5, BudgetTicks
<1>6. CASE Accounts!Prune
    <2>1. \A x \in DOMAIN failures : failures'[x] <= failures[x]
        <3>1. \A x \in DOMAIN failures : failures'[x] \in {0, failures[x]}
            BY <1>6 DEF Accounts!Prune
        <3> QED
            BY <1>2, <3>1
    <2>2. \A k \in Buckets : Doubtful(k)' \subseteq Doubtful(k)
        BY <1>6 DEF Doubtful, Accounts!Prune
    <2>3. now' = now
        BY <1>6 DEF Accounts!Prune
    <2> QED
        BY <1>1, <2>1, <2>2, <2>3
<1>7. ASSUME NEW b \in Browsers, Accounts!EndSignIn(b)
      PROVE  BudgetInv'
    <2>1. CASE signIns[b].cookie = None
        BY <1>7, <2>1, BudgetCounts
    <2>2. CASE signIns[b].cookie # None
        <3>1. /\ failures' = Accounts!Without({signIns[b].user, signIns[b].source})
              /\ now' = now /\ signIns' = [signIns EXCEPT ![b] = None]
            BY <1>7, <2>2 DEF Accounts!EndSignIn
        <3>2. \A k \in Buckets : Doubtful(k)' \subseteq Doubtful(k)
            BY <3>1 DEF Doubtful, Accounts!TypeOK
        <3>3. \A x \in DOMAIN failures : failures'[x] <= failures[x]
            BY <1>3, <3>1
        <3> QED
            BY <1>1, <3>1, <3>2, <3>3
    <2> QED
        BY <2>1, <2>2
<1>8. ASSUME NEW b \in Browsers, NEW u \in Users, NEW s \in Sources, NEW r \in BOOLEAN,
             Accounts!TryPassword(b, u, s, r)
      PROVE  BudgetInv'
    BY <1>8, BudgetOpens
<1>9. ASSUME NEW c \in cookies, NEW u \in Users, Accounts!Unlock(c, u)
      PROVE  BudgetInv'
    <2>1. failures' = Accounts!Without({u}) /\ now' = now /\ signIns' = signIns
        BY <1>9 DEF Accounts!Unlock
    <2>2. \A k \in Buckets : Doubtful(k)' \subseteq Doubtful(k)
        BY <2>1 DEF Doubtful
    <2>3. \A x \in DOMAIN failures : failures'[x] <= failures[x]
        BY <1>3, <2>1
    <2> QED
        BY <1>1, <2>1, <2>2, <2>3
<1>10. ASSUME \/ UNCHANGED accountVars
              \/ \E u \in Users :
                    \/ Accounts!SingleSignOn(u) \/ Accounts!SsoProvision(u)
                    \/ \E a \in BOOLEAN : Accounts!ScimCreate(u, a) \/ Accounts!ScimUpdate(u, a)
              \/ \E c \in cookies, u \in Users :
                    \/ \E role \in Accounts!Roles, p \in BOOLEAN :
                          Accounts!CreateUser(c, u, role, p)
                    \/ \E h \in Handlers, change \in Accounts!Changes :
                          Accounts!Begin(h, c, change, u)
              \/ \E h \in Handlers : Accounts!CommitEdit(h)
       PROVE  UNCHANGED <<now, failures, signIns>>
    BY <1>10 DEF accountVars, Accounts!SingleSignOn, Accounts!SsoProvision, Accounts!ScimCreate,
        Accounts!ScimUpdate, Accounts!SetActive, Accounts!CreateUser, Accounts!Begin,
        Accounts!CommitEdit
<1> QED
    BY <1>4, <1>5, <1>6, <1>7, <1>8, <1>9, <1>10 DEF Accounts!Next

\* What is counted in a window and what is under way stays below the threshold
\* and the number of browsers (login checks before the password and counts
\* after it: check, record_failure, clear, prune_login_attempts).
THEOREM BudgetInvariant == Accounts!Spec => [](Accounts!TypeOK /\ BudgetInv)
<1>1. Accounts!Init => BudgetInv
    <2> SUFFICES ASSUME Accounts!Init PROVE BudgetInv
        OBVIOUS
    <2>1. MaxTime \in Nat /\ Window \in Nat
        BY AdministrationAssumption DEF Accounts!AccountsAssumption
    <2>2. now = 0 /\ signIns = [b \in Browsers |-> None]
        BY DEF Accounts!Init
    <2>3. \A k \in Buckets, t \in 0..MaxTime : failures[<<k, t>>] = 0
        BY DEF Accounts!Init, Buckets
    <2>4. ASSUME NEW k \in Buckets PROVE WithinBudget(k)
        <3>1. Recent = {0} /\ IsFiniteSet(Recent) /\ 0 \in 0..MaxTime
            <4>1. \A t : t \in 0..now /\ now - t <= Window <=> t = 0
                BY <2>1, <2>2
            <4>2. Recent = {0}
                BY <4>1 DEF Recent
            <4>3. IsFiniteSet({0})
                BY FS_Singleton
            <4>4. 0 \in 0..MaxTime
                BY <2>1
            <4> QED
                BY <4>2, <4>3, <4>4
        <3>2. Failed(k)[0] = 0
            BY <2>3, <3>1 DEF Failed
        <3>3. \A t \in Recent : Failed(k)[t] \in Nat
            BY <3>1, <3>2
        <3>4. SumOver(Failed(k), Recent) = Failed(k)[0] + SumOver(Failed(k), Recent \ {0})
            BY <3>1, <3>3, SumRemove
        <3>5. Recent \ {0} = {}
            BY <3>1
        <3>6. SumOver(Failed(k), {}) = 0
            BY <3>1, SumStep
        <3>7. SumOver(Failed(k), Recent) = 0
            BY <3>2, <3>4, <3>5, <3>6
        <3>8. Doubtful(k) = {}
            BY <2>2 DEF Doubtful
        <3>9. Cardinality(Doubtful(k)) = 0
            BY <3>8, FS_EmptySet
        <3>10. Limit(k) \in Nat \ {0} /\ Cardinality(Browsers) \in Nat
            BY DoubtfulCounted
        <3> QED
            BY <3>7, <3>9, <3>10 DEF WithinBudget
    <2> QED
        BY <2>3, <2>4 DEF BudgetInv, FailuresPast
<1>2. Accounts!TypeOK /\ Accounts!TypeOK' /\ BudgetInv /\ [Accounts!Next]_accountVars
      => BudgetInv'
    BY BudgetStep
<1> QED
    BY <1>1, <1>2, AccountTypesKept, PTL DEF Accounts!Spec, Accounts!vars, accountVars

\* However many sign-ins run at once, a name or a source has no more failures
\* in a window than its budget and one for each browser (check,
\* record_failure).
THEOREM BudgetStands == Accounts!Spec => []Accounts!BudgetKept
<1>1. Accounts!TypeOK /\ BudgetInv => Accounts!BudgetKept
    <2> SUFFICES ASSUME Accounts!TypeOK, BudgetInv PROVE Accounts!BudgetKept
        OBVIOUS
    <2>1. ASSUME NEW k \in Buckets
          PROVE  Accounts!Count(k) < Limit(k) + Cardinality(Browsers)
        <3> DEFINE a == SumOver(Failed(k), Recent)
                   d == Cardinality(Doubtful(k))
        <3>1. a + d < Limit(k) + Cardinality(Browsers)
            BY DEF BudgetInv, WithinBudget
        <3>2. /\ a \in Nat /\ d \in Nat /\ Limit(k) \in Nat /\ Cardinality(Browsers) \in Nat
              /\ Accounts!Count(k) = a
            BY CountIs, RecentCounts, DoubtfulCounted DEF CountsSound, DoubtsSound
        <3> HIDE DEF a, d
        <3> QED
            BY <3>1, <3>2
    <2>2. Users \cap Sources = {}
        BY AdministrationAssumption DEF Accounts!AccountsAssumption
    <2>3. /\ \A u \in Users : u \in Buckets /\ Limit(u) = UserThreshold
          /\ \A s \in Sources : s \in Buckets /\ Limit(s) = SourceThreshold
        BY <2>2 DEF Buckets, Limit
    <2>4. /\ \A u \in Users : Accounts!Count(u) < UserThreshold + Cardinality(Browsers)
          /\ \A s \in Sources : Accounts!Count(s) < SourceThreshold + Cardinality(Browsers)
        BY <2>1, <2>3
    <2> QED
        BY <2>4 DEF Accounts!BudgetKept, Accounts!Cardinality, Cardinality
<1> QED
    BY <1>1, BudgetInvariant, PTL

-----------------------------------------------------------------------------
(* Accounts: sessions while the changes of accounts take turns.            *)

\* No change of an account is read before the last one is committed.
OneAtATime ==
    \A g, h \in Handlers : edits[g] # None /\ edits[h] # None => g = h

\* A cookie is of an account that was, of no later epoch than the account's,
\* and while it is of the same epoch forced if the account is.
Worth(c, q) ==
    /\ q # None
    /\ q # Gone => /\ c.epoch <= q.epoch
                   /\ (c.epoch = q.epoch /\ q.forced) => c.forced

CookiesWorth ==
    /\ \A c \in cookies : Worth(c, users[c.user])
    /\ \A b \in Browsers :
          signIns[b] # None /\ signIns[b].cookie # None
             => Worth(signIns[b].cookie, users[signIns[b].cookie.user])

IsAdmin(u) == users[u] \in Accounts!Rows /\ users[u].role = "admin"

\* A change under way is of the account as it is, and leaves an admin.
ChangesFresh ==
    \A h \in Handlers : edits[h] # None =>
       /\ users[edits[h].user] \in Accounts!Rows
       /\ users[edits[h].user].epoch = edits[h].epoch
       /\ edits[h].change \in {"demote", "delete"}
             => \E v \in Users : v # edits[h].user /\ IsAdmin(v)

SomeAdmin == \E v \in Users : IsAdmin(v)

SessionsInv == CookiesWorth /\ ChangesFresh /\ SomeAdmin

LEMMA AdminCounts ==
    ASSUME Accounts!TypeOK, NEW u \in Users
    PROVE  /\ \A v \in Users : v \in Accounts!Admins <=> IsAdmin(v)
           /\ Accounts!Cardinality(Accounts!Admins) > 1 => \E v \in Users : v # u /\ IsAdmin(v)
<1>1. ASSUME NEW v \in Users
      PROVE  v \in Accounts!Admins <=> IsAdmin(v)
    BY <1>1, AccountFacts DEF Accounts!Admins, IsAdmin
<1>2. ASSUME ~\E v \in Users : v # u /\ IsAdmin(v)
      PROVE  ~(Accounts!Cardinality(Accounts!Admins) > 1)
    <2>1. Accounts!Admins \subseteq Users
        BY DEF Accounts!Admins
    <2>2. Accounts!Admins = {} \/ Accounts!Admins = {u}
        BY <1>1, <1>2, <2>1
    <2>3. Cardinality({}) = 0 /\ Cardinality({u}) = 1
        BY FS_EmptySet, FS_Singleton
    <2>4. Accounts!Cardinality(Accounts!Admins) = Cardinality(Accounts!Admins)
        BY DEF Accounts!Cardinality, Cardinality, Accounts!IsFiniteSet, IsFiniteSet
    <2>5. Cardinality(Accounts!Admins) \in {0, 1}
        BY <2>2, <2>3
    <2> QED
        BY <2>4, <2>5
<1> QED
    BY <1>1, <1>2

\* What a cookie is worth outlasts the making and the toggling of accounts.
LEMMA WorthKept ==
    ASSUME Accounts!TypeOK, NEW c \in Accounts!Cookies, Worth(c, users[c.user]), NEW u \in Users,
           AccountToggled(u) \/ \E q \in Accounts!Rows : AccountMade(u, q)
    PROVE  Worth(c, users'[c.user])
<1> USE AccountFacts
<1>0. c.user \in Users /\ c.epoch \in 0..MaxEpoch
    BY DEF Accounts!Cookies
<1>1. CASE AccountToggled(u)
    <2>1. CASE c.user = u
        BY <1>0, <1>1, <2>1 DEF AccountToggled, Worth
    <2>2. CASE c.user # u
        BY <1>0, <1>1, <2>2 DEF AccountToggled
    <2> QED
        BY <2>1, <2>2
<1>2. ASSUME NEW q \in Accounts!Rows, AccountMade(u, q)
      PROVE  Worth(c, users'[c.user])
    <2>1. c.user # u
        BY <1>0, <1>2 DEF AccountMade, Worth
    <2>2. users'[c.user] = users[c.user]
        BY <1>0, <1>2, <2>1 DEF AccountMade
    <2> QED
        BY <2>2
<1> QED
    BY <1>1, <1>2

\* So do the admins, and the accounts that changes under way have read.
LEMMA AdminsKept ==
    ASSUME Accounts!TypeOK, ChangesFresh, SomeAdmin, UNCHANGED edits, NEW u \in Users,
           AccountToggled(u) \/ \E q \in Accounts!Rows : AccountMade(u, q)
    PROVE  ChangesFresh' /\ SomeAdmin'
<1> USE AccountFacts
<1>1. ASSUME NEW v \in Users, users[v] \in Accounts!Rows
      PROVE  /\ users'[v] \in Accounts!Rows /\ users'[v].epoch = users[v].epoch
             /\ users'[v].role = users[v].role
    <2>1. CASE AccountToggled(u)
        BY <1>1, <2>1 DEF AccountToggled
    <2>2. ASSUME NEW q \in Accounts!Rows, AccountMade(u, q)
          PROVE  users'[v] = users[v]
        BY <1>1, <2>2 DEF AccountMade
    <2> QED
        BY <1>1, <2>1, <2>2
<1>2. ASSUME NEW v \in Users, IsAdmin(v)
      PROVE  IsAdmin(v)'
    BY <1>1, <1>2 DEF IsAdmin
<1>3. \A h \in Handlers : edits[h] # None => edits[h].user \in Users
    BY DEF Accounts!TypeOK, Accounts!Edits
<1> QED
    BY <1>1, <1>2, <1>3 DEF ChangesFresh, SomeAdmin

\* What committing the only change under way leaves.
LEMMA CommittedChange ==
    ASSUME Accounts!TypeOK, EditsBound, SessionsInv, OneAtATime, NEW h \in Handlers,
           Accounts!CommitEdit(h)
    PROVE  SessionsInv'
<1> USE AccountFacts
<1> DEFINE e == edits[h]
           u == e.user
           after == Accounts!Edited(users[u], e)
           again == [user |-> u, epoch |-> e.epoch + 1, forced |-> FALSE]
<1>1. /\ e \in Accounts!Edits /\ e.epoch < MaxEpoch
      /\ edits' = [edits EXCEPT ![h] = None] /\ UNCHANGED <<now, failures, signIns>>
      /\ Accounts!Exists(u) =>
            /\ users' = [users EXCEPT ![u] = after]
            /\ cookies' \subseteq cookies \cup {x \in {again} : e.change = "change"}
    BY ChangeCommitted
<1>2. e # None
    BY DEF Accounts!CommitEdit
<1>3. u \in Users /\ e.epoch \in 0..MaxEpoch /\ e.change \in Accounts!Changes
    BY <1>1 DEF Accounts!Edits
<1>4. /\ users[u] \in Accounts!Rows /\ users[u].epoch = e.epoch
      /\ e.change \in {"demote", "delete"} => \E v \in Users : v # u /\ IsAdmin(v)
    BY <1>2 DEF SessionsInv, ChangesFresh
<1>5. \A g \in Handlers : edits'[g] = None
    BY <1>1, <1>2 DEF OneAtATime, Accounts!TypeOK
<1>6. /\ e.change = "delete" => after = Gone
      /\ e.change # "delete" =>
            /\ after \in Accounts!Rows
            /\ e.change # "demote" /\ users[u].role = "admin" => after.role = "admin"
            /\ e.change \in {"promote", "demote"}
                  => after.epoch = users[u].epoch /\ after.forced = users[u].forced
            /\ e.change \in {"reset", "change", "logout"} => after.epoch = e.epoch + 1
            /\ e.change = "change" => after.forced = FALSE
    <2>1. CASE e.change = "delete"
        BY <2>1 DEF Accounts!Edited
    <2>2. CASE e.change # "delete"
        <3>1. /\ after \in Accounts!Rows
              /\ after.role = CASE e.change = "promote" -> "admin"
                                [] e.change = "demote" -> "tech"
                                [] OTHER -> users[u].role
              /\ e.change \in {"promote", "demote"}
                     => after.epoch = users[u].epoch /\ after.forced = users[u].forced
              /\ e.change \in {"reset", "change", "logout"} => after.epoch = e.epoch + 1
              /\ e.change = "change" => after.forced = FALSE
            BY <1>1, <1>4, <2>2, EditedAccount
        <3> HIDE DEF after, e
        <3>2. e.change # "demote" /\ users[u].role = "admin" => after.role = "admin"
            <4>1. CASE e.change = "promote"
                BY <3>1, <4>1
            <4>2. CASE e.change # "promote"
                BY <3>1, <4>2
            <4> QED
                BY <4>1, <4>2
        <3> QED
            BY <2>2, <3>1, <3>2
    <2> QED
        BY <2>1, <2>2
<1>7. /\ users' = [users EXCEPT ![u] = after]
      /\ cookies' \subseteq cookies \cup {x \in {again} : e.change = "change"}
    <2>1. Accounts!Exists(u)
        BY <1>3, <1>4
    <2> HIDE DEF e, u, after, again
    <2> QED
        BY <1>1, <2>1
<1>8. again.user = u /\ again.epoch = e.epoch + 1 /\ again.forced = FALSE
    OBVIOUS
<1> HIDE DEF e, u, after, again
<1>9. users'[u] = after /\ \A v \in Users : v # u => users'[v] = users[v]
    BY <1>3, <1>7
<1>10. ASSUME NEW c \in Accounts!Cookies, Worth(c, users[c.user])
       PROVE  Worth(c, users'[c.user])
    <2>1. c.user \in Users /\ c.epoch \in 0..MaxEpoch
        BY DEF Accounts!Cookies
    <2>2. CASE c.user # u
        BY <1>9, <1>10, <2>1, <2>2
    <2>3. CASE c.user = u
        <3>1. /\ users'[c.user] = after /\ c.epoch <= e.epoch
              /\ (c.epoch = e.epoch /\ users[u].forced) => c.forced
            BY <1>4, <1>9, <1>10, <2>3 DEF Worth
        <3>2. CASE e.change = "delete"
            BY <1>6, <3>1, <3>2 DEF Worth
        <3>3. CASE e.change \in {"promote", "demote"}
            BY <1>4, <1>6, <3>1, <3>3 DEF Worth
        <3>4. CASE e.change \in {"reset", "change", "logout"}
            <4>1. after \in Accounts!Rows /\ after.epoch = e.epoch + 1
                BY <1>6, <3>4
            <4>2. c.epoch <= after.epoch /\ c.epoch # after.epoch
                BY <1>3, <2>1, <3>1, <4>1
            <4> QED
                BY <3>1, <4>1, <4>2 DEF Worth
        <3> QED
            BY <1>3, <3>2, <3>3, <3>4 DEF Accounts!Changes
    <2> QED
        BY <2>2, <2>3
<1>11. e.change = "change" => Worth(again, users'[again.user])
    <2> SUFFICES ASSUME e.change = "change" PROVE Worth(again, users'[again.user])
        OBVIOUS
    <2>1. after \in Accounts!Rows /\ after.epoch = e.epoch + 1 /\ after.forced = FALSE
        BY <1>6
    <2>2. users'[again.user] = after
        BY <1>8, <1>9
    <2> QED
        BY <1>3, <1>8, <2>1, <2>2 DEF Worth
<1>12. CookiesWorth'
    <2>1. \A c \in cookies' : Worth(c, users'[c.user])
        BY <1>7, <1>10, <1>11 DEF SessionsInv, CookiesWorth, Accounts!TypeOK
    <2>2. ASSUME NEW b \in Browsers, signIns[b] # None, signIns[b].cookie # None
          PROVE  Worth(signIns[b].cookie, users'[signIns[b].cookie.user])
        <3>1. signIns[b] \in Accounts!SignIns
            BY <2>2 DEF Accounts!TypeOK
        <3>2. signIns[b].cookie \in Accounts!Cookies
            BY <2>2, <3>1 DEF Accounts!SignIns
        <3>3. Worth(signIns[b].cookie, users[signIns[b].cookie.user])
            BY <2>2 DEF SessionsInv, CookiesWorth
        <3> QED
            BY <1>10, <3>2, <3>3
    <2> QED
        BY <1>1, <2>1, <2>2 DEF CookiesWorth
<1>13. SomeAdmin'
    <2>1. ASSUME NEW v \in Users, v # u, IsAdmin(v)
          PROVE  IsAdmin(v)'
        BY <1>9, <2>1 DEF IsAdmin
    <2>2. CASE e.change \in {"demote", "delete"}
        BY <1>4, <2>1, <2>2 DEF SomeAdmin
    <2>3. CASE e.change \notin {"demote", "delete"}
        <3>1. PICK v \in Users : IsAdmin(v)
            BY DEF SessionsInv, SomeAdmin
        <3>2. CASE v # u
            BY <2>1, <3>1, <3>2 DEF SomeAdmin
        <3>3. CASE v = u
            <4>1. after \in Accounts!Rows /\ after.role = "admin"
                BY <1>6, <2>3, <3>1, <3>3 DEF IsAdmin
            <4> QED
                BY <1>3, <1>9, <4>1 DEF SomeAdmin, IsAdmin
        <3> QED
            BY <3>2, <3>3
    <2> QED
        BY <2>2, <2>3
<1> QED
    BY <1>5, <1>12, <1>13 DEF SessionsInv, ChangesFresh

\* A change that may begin reads the account as it is, and leaves an admin.
LEMMA ChangeBegun ==
    ASSUME Accounts!TypeOK, SessionsInv, NEW c \in cookies, NEW u \in Users, NEW h \in Handlers,
           NEW change \in Accounts!Changes, Accounts!Begin(h, c, change, u)
    PROVE  ChangesFresh'
<1> USE AccountFacts
<1> DEFINE e == [change |-> change, user |-> u, epoch |-> users[u].epoch]
<1>1. /\ edits' = [edits EXCEPT ![h] = e] /\ users' = users
      /\ users[u] \in Accounts!Rows /\ Accounts!Allowed(c, change, u)
    BY DEF Accounts!Begin
<1>2. change \in {"demote", "delete"} => \E v \in Users : v # u /\ IsAdmin(v)
    <2>1. CASE change = "demote"
        BY <1>1, <2>1, AdminCounts DEF Accounts!Allowed
    <2>2. CASE change = "delete"
        <3>1. u \in Accounts!Admins => Accounts!Cardinality(Accounts!Admins) > 1
            BY <1>1, <2>2 DEF Accounts!Allowed
        <3>2. CASE IsAdmin(u)
            BY <3>1, <3>2, AdminCounts
        <3>3. CASE ~IsAdmin(u)
            BY <3>3 DEF SessionsInv, SomeAdmin
        <3> QED
            BY <3>2, <3>3
    <2> QED
        BY <2>1, <2>2
<1>3. e.change = change /\ e.user = u /\ e.epoch = users[u].epoch
    OBVIOUS
<1> HIDE DEF e
<1>4. \A g \in Handlers : edits'[g] = IF g = h THEN e ELSE edits[g]
    BY <1>1 DEF Accounts!TypeOK
<1>5. \A v \in Users : IsAdmin(v)' <=> IsAdmin(v)
    BY <1>1 DEF IsAdmin
<1> SUFFICES ASSUME NEW g \in Handlers, edits'[g] # None
             PROVE  /\ users'[edits'[g].user] \in Accounts!Rows
                    /\ users'[edits'[g].user].epoch = edits'[g].epoch
                    /\ edits'[g].change \in {"demote", "delete"}
                          => \E v \in Users : v # edits'[g].user /\ IsAdmin(v)'
    BY DEF ChangesFresh
<1>6. CASE g = h
    BY <1>1, <1>2, <1>3, <1>4, <1>5, <1>6
<1>7. CASE g # h
    BY <1>1, <1>4, <1>5, <1>7 DEF SessionsInv, ChangesFresh
<1> QED
    BY <1>6, <1>7

LEMMA SessionsStep ==
    ASSUME Accounts!TypeOK, EditsBound, SessionsInv, OneAtATime, [Accounts!Next]_accountVars
    PROVE  SessionsInv'
<1> USE AccountFacts
<1>0. /\ cookies \subseteq Accounts!Cookies /\ CookiesWorth /\ ChangesFresh /\ SomeAdmin
      /\ signIns \in [Browsers -> Accounts!SignIns \cup {None}]
    BY DEF Accounts!TypeOK, SessionsInv
<1>1. ASSUME NEW b \in Browsers, signIns[b] # None, signIns[b].cookie # None
      PROVE  signIns[b].cookie \in Accounts!Cookies
    <2>1. signIns[b] \in Accounts!SignIns
        BY <1>0, <1>1
    <2> QED
        BY <1>1, <2>1 DEF Accounts!SignIns
<1>2. ASSUME NEW u \in Users, NEW q \in Accounts!Rows, AccountMade(u, q),
             UNCHANGED <<edits, signIns>>,
             cookies' \subseteq cookies \cup
                 {[user |-> u, epoch |-> 0, forced |-> left] : left \in BOOLEAN}
      PROVE  SessionsInv'
    <2>1. users'[u] = q /\ q.epoch = 0 /\ q.forced = FALSE
        BY <1>2 DEF AccountMade
    <2>2. ASSUME NEW c \in cookies', c \notin cookies
          PROVE  c.user = u /\ c.epoch = 0
        BY <1>2, <2>2
    <2>3. ASSUME NEW c \in cookies', c \notin cookies
          PROVE  Worth(c, users'[c.user])
        BY <2>1, <2>2, <2>3 DEF Worth
    <2>5. \A c \in cookies' : Worth(c, users'[c.user])
        BY <1>0, <1>2, <2>3, WorthKept DEF CookiesWorth
    <2>6. ASSUME NEW b \in Browsers, signIns[b] # None, signIns[b].cookie # None
          PROVE  Worth(signIns[b].cookie, users'[signIns[b].cookie.user])
        BY <1>0, <1>1, <1>2, <2>6, WorthKept DEF CookiesWorth
    <2>7. CookiesWorth'
        BY <1>2, <2>5, <2>6 DEF CookiesWorth
    <2> QED
        BY <1>0, <1>2, <2>7, AdminsKept DEF SessionsInv
<1>3. ASSUME NEW u \in Users, AccountToggled(u), UNCHANGED <<edits, signIns, cookies>>
      PROVE  SessionsInv'
    <2>1. \A c \in cookies : Worth(c, users'[c.user])
        BY <1>0, <1>3, WorthKept DEF CookiesWorth
    <2>2. ASSUME NEW b \in Browsers, signIns[b] # None, signIns[b].cookie # None
          PROVE  Worth(signIns[b].cookie, users'[signIns[b].cookie.user])
        BY <1>0, <1>1, <1>3, <2>2, WorthKept DEF CookiesWorth
    <2>3. CookiesWorth'
        BY <1>3, <2>1, <2>2 DEF CookiesWorth
    <2> QED
        BY <1>0, <1>3, <2>3, AdminsKept DEF SessionsInv
<1>4. ASSUME NEW h \in Handlers, Accounts!CommitEdit(h)
      PROVE  SessionsInv'
    BY <1>4, CommittedChange
<1> DEFINE Same == users' = users /\ edits' = edits
<1>5. ASSUME Same
      PROVE  ChangesFresh' /\ SomeAdmin'
    BY <1>0, <1>5 DEF ChangesFresh, SomeAdmin, IsAdmin
<1>6. ASSUME users' = users, UNCHANGED <<cookies, signIns, edits>>
      PROVE  SessionsInv'
    BY <1>0, <1>5, <1>6 DEF SessionsInv, CookiesWorth
<1>7. ASSUME NEW u \in Users, Accounts!Exists(u), NEW left \in Accounts!LeftOver
      PROVE  Worth(Accounts!CookieFor(u, left), users[Accounts!CookieFor(u, left).user])
    BY <1>7, CookieMade, AccountColumns DEF Worth
<1>8. ASSUME NEW b \in Browsers, NEW u \in Users, NEW s \in Sources, NEW r \in BOOLEAN,
             Accounts!TryPassword(b, u, s, r)
      PROVE  SessionsInv'
    <2>0. PICK left \in Accounts!LeftOver :
              signIns' = [signIns EXCEPT ![b] =
                 [user |-> u, source |-> s,
                  cookie |-> IF r /\ users[u].active
                             THEN Accounts!CookieFor(u, left) ELSE None]]
        BY <1>8 DEF Accounts!TryPassword
    <2> DEFINE cookie == IF r /\ users[u].active THEN Accounts!CookieFor(u, left) ELSE None
    <2>1. /\ users' = users /\ cookies' = cookies /\ edits' = edits
          /\ signIns' = [signIns EXCEPT ![b] = [user |-> u, source |-> s, cookie |-> cookie]]
          /\ r => Accounts!Exists(u)
        BY <1>8, <2>0 DEF Accounts!TryPassword
    <2>2. cookie = None \/ Worth(cookie, users[cookie.user])
        BY <1>7, <2>1
    <2> HIDE DEF cookie
    <2>3. \A i \in Browsers : i # b => signIns'[i] = signIns[i]
        BY <1>0, <2>1
    <2>4. signIns'[b].cookie = cookie
        BY <1>0, <2>1
    <2>5. CookiesWorth'
        BY <1>0, <2>1, <2>2, <2>3, <2>4 DEF CookiesWorth
    <2> QED
        BY <1>5, <2>1, <2>5 DEF SessionsInv
<1>9. ASSUME NEW b \in Browsers, Accounts!EndSignIn(b)
      PROVE  SessionsInv'
    <2>1. /\ users' = users /\ edits' = edits
          /\ signIns[b] # None /\ signIns' = [signIns EXCEPT ![b] = None]
          /\ \/ cookies' = cookies
             \/ signIns[b].cookie # None /\ cookies' = cookies \cup {signIns[b].cookie}
        BY <1>9 DEF Accounts!EndSignIn
    <2>2. \A i \in Browsers : signIns'[i] # None => signIns'[i] = signIns[i]
        BY <1>0, <2>1
    <2>3. signIns[b].cookie # None
             => Worth(signIns[b].cookie, users[signIns[b].cookie.user])
        BY <1>0, <2>1 DEF CookiesWorth
    <2>4. \A c \in cookies' : Worth(c, users'[c.user])
        BY <1>0, <2>1, <2>3 DEF CookiesWorth
    <2>5. CookiesWorth'
        BY <1>0, <2>1, <2>2, <2>4 DEF CookiesWorth
    <2> QED
        BY <1>5, <2>1, <2>5 DEF SessionsInv
<1>10. ASSUME NEW u \in Users, Accounts!SingleSignOn(u)
       PROVE  SessionsInv'
    <2>1. PICK left \in Accounts!LeftOver :
             /\ users' = users /\ edits' = edits /\ signIns' = signIns
             /\ Accounts!Exists(u) /\ cookies' = cookies \cup {Accounts!CookieFor(u, left)}
        BY <1>10 DEF Accounts!SingleSignOn, Accounts!SsoAccepts
    <2>2. CookiesWorth'
        BY <1>0, <1>7, <2>1 DEF CookiesWorth
    <2> QED
        BY <1>5, <2>1, <2>2 DEF SessionsInv
<1>11. ASSUME NEW c \in cookies, NEW u \in Users, NEW h \in Handlers,
              NEW change \in Accounts!Changes, Accounts!Begin(h, c, change, u)
       PROVE  SessionsInv'
    <2>1. users' = users /\ cookies' = cookies /\ signIns' = signIns
        BY <1>11 DEF Accounts!Begin
    <2>2. ChangesFresh'
        BY <1>11, ChangeBegun
    <2> QED
        BY <1>0, <2>1, <2>2 DEF SessionsInv, CookiesWorth, SomeAdmin, IsAdmin
<1>12. ASSUME NEW u \in Users, Accounts!SsoProvision(u)
       PROVE  users' # users
    BY <1>12, NewAccount DEF Accounts!SsoProvision
<1> QED
    BY <1>2, <1>3, <1>4, <1>6, <1>8, <1>9, <1>10, <1>11, <1>12, AccountsWritten, AccountsRead

\* While the changes of accounts take turns, what a session is worth and who
\* is left to administer is kept: login's, sso_callback's and password_change's
\* cookies against user_reset's epoch, user_update's and user_delete's guard.
THEOREM SessionsInvariant ==
    Accounts!Spec /\ []OneAtATime => [](Accounts!TypeOK /\ SessionsInv)
<1>1. Accounts!Init => SessionsInv
    <2> SUFFICES ASSUME Accounts!Init PROVE SessionsInv
        OBVIOUS
    <2>1. MaxEpoch \in Nat
        BY AdministrationAssumption DEF Accounts!AccountsAssumption
    <2> DEFINE seed == [role |-> "admin", provider |-> "local", active |-> TRUE,
                        password |-> TRUE, forced |-> TRUE, epoch |-> 0]
    <2>2. seed \in Accounts!Rows /\ seed.role = "admin"
        BY <2>1 DEF Accounts!Rows, Accounts!Roles
    <2>3. PICK first \in Users : users = [u \in Users |-> IF u = first THEN seed ELSE None]
        BY DEF Accounts!Init
    <2> HIDE DEF seed
    <2>4. IsAdmin(first)
        BY <2>2, <2>3 DEF IsAdmin
    <2> QED
        BY <2>4 DEF Accounts!Init, SessionsInv, CookiesWorth, ChangesFresh, SomeAdmin
<1>2. Accounts!TypeOK /\ EditsBound /\ SessionsInv /\ OneAtATime /\ [Accounts!Next]_accountVars
      => SessionsInv'
    BY SessionsStep
<1> QED
    BY <1>1, <1>2, AccountTypesKept, PTL DEF Accounts!Spec, Accounts!vars, accountVars

\* While the changes of accounts take turns, a session of an account that waits
\* for a password of its owner's is forced, and somebody can administer (ForcePasswordChangeMiddleware reads
\* the cookie; user_update and user_delete count the admins).  Two changes
\* that overlap break both: each commits what it computed from the row as it
\* was, and nothing locks it.
THEOREM SessionsWorth ==
    Accounts!Spec /\ []OneAtATime => [](Accounts!RotationForced /\ Accounts!AdminRemains)
<1>1. Accounts!TypeOK /\ SessionsInv => Accounts!RotationForced
    <2> SUFFICES ASSUME Accounts!TypeOK, SessionsInv, NEW c \in cookies, Accounts!Current(c),
                        users[c.user].forced
                 PROVE  c.forced
        BY DEF Accounts!RotationForced
    <2>1. c \in Accounts!Cookies /\ Worth(c, users[c.user])
        BY DEF Accounts!TypeOK, SessionsInv, CookiesWorth
    <2>2. /\ c.user \in Users /\ c.forced \in BOOLEAN
          /\ Accounts!Exists(c.user) /\ c.epoch = users[c.user].epoch
        BY <2>1 DEF Accounts!Current, Accounts!Cookies
    <2>3. users[c.user] \in Accounts!Rows
        BY <2>2, AccountFacts
    <2> QED
        BY <2>1, <2>2, <2>3, AccountFacts DEF Worth
<1>2. Accounts!TypeOK /\ SessionsInv => Accounts!AdminRemains
    BY AdminCounts DEF SessionsInv, SomeAdmin, Accounts!AdminRemains
<1> QED
    BY <1>1, <1>2, SessionsInvariant, PTL

\* A session is worth what its account is, guesses are bounded, and somebody
\* can administer: what the run checks where sessions or the throttle move
\* (ForcePasswordChangeMiddleware; user_update and user_delete; ratelimit.py).
THEOREM SessionsStayBound == Accounts!Spec /\ []OneAtATime => []SessionsBound
<1>1. Accounts!RotationForced /\ Accounts!AdminRemains /\ Accounts!BudgetKept => SessionsBound
    BY DEF SessionsBound, Of
<1> QED
    BY <1>1, SessionsWorth, BudgetStands, PTL

-----------------------------------------------------------------------------
(* The directory's types, and all of administration's.                     *)

\* A run that may be under way is a runner's.
RunnersOnly == fetched = [r \in Runners |-> fetched[r]]

\* What a run fetches is a snapshot.
LEMMA SnapshotFetched ==
    ASSUME Directory!TypeOK, NEW c \in Clients, NEW S \in SUBSET DirectoryIds,
           NEW reached \in BOOLEAN, NEW some \in SUBSET DirectoryIds,
           S \subseteq Directory!Present(c)
    PROVE  [client |-> c, users |-> [d \in S |-> directory[c][d]],
            complete |-> S = Directory!Present(c) /\ reached, grouped |-> reached,
            team |-> some, truth |-> directory[c]] \in Directory!Snapshots
<1> DEFINE seen == [d \in S |-> directory[c][d]]
           whole == S = Directory!Present(c) /\ reached
           held == directory[c]
<1>1. held \in [DirectoryIds -> Directory!Entry \cup {None}]
    BY DEF Directory!TypeOK
<1>2. seen \in [S -> Directory!Entry]
    BY <1>1 DEF Directory!Present
<1>3. seen \in UNION {[D -> Directory!Entry] : D \in SUBSET DirectoryIds}
    BY <1>2
<1>4. whole \in BOOLEAN
    OBVIOUS
<1> HIDE DEF seen, whole, held
<1>5. \A w, g \in BOOLEAN :
         [client |-> c, users |-> seen, complete |-> w, grouped |-> g, team |-> some,
          truth |-> held] \in Directory!Snapshots
    BY <1>1, <1>3 DEF Directory!Snapshots
<1> QED
    BY <1>4, <1>5 DEF seen, whole, held

\* What applying a snapshot makes of a customer's rows.
LEMMA SnapshotApplied ==
    ASSUME Directory!TypeOK, NEW s \in Directory!Snapshots
    PROVE  Directory!Applied(s) \in [DirectoryIds -> Directory!Entry \cup {None}]
<1>1. s.client \in Clients
    BY DEF Directory!Snapshots
<1>2. synced[s.client] \in [DirectoryIds -> Directory!Entry \cup {None}]
    BY <1>1 DEF Directory!TypeOK
<1>3. PICK D \in SUBSET DirectoryIds : s.users \in [D -> Directory!Entry]
    BY DEF Directory!Snapshots
<1>4. ASSUME NEW q \in Directory!Entry
      PROVE  [q EXCEPT !.active = FALSE] \in Directory!Entry
    BY DEF Directory!Entry
<1>5. ASSUME NEW d \in DirectoryIds
      PROVE  Directory!Applied(s)[d] \in Directory!Entry \cup {None}
    <2>1. CASE d \in DOMAIN s.users
        BY <1>3, <2>1 DEF Directory!Applied
    <2>2. CASE d \notin DOMAIN s.users /\ s.complete /\ synced[s.client][d] # None
        BY <1>2, <1>4, <2>2 DEF Directory!Applied
    <2>3. CASE d \notin DOMAIN s.users /\ ~(s.complete /\ synced[s.client][d] # None)
        BY <1>2, <2>3 DEF Directory!Applied
    <2> QED
        BY <2>1, <2>2, <2>3
<1> QED
    BY <1>5 DEF Directory!Applied

LEMMA DirectoryTypes ==
    ASSUME Directory!TypeOK, RunnersOnly, [Directory!Next]_directoryVars
    PROVE  Directory!TypeOK' /\ RunnersOnly'
<1> USE DEF Directory!TypeOK, RunnersOnly
<1>1. CASE UNCHANGED directoryVars
    BY <1>1 DEF directoryVars
<1>2. ASSUME NEW c \in Clients, NEW d \in DirectoryIds, Directory!SetActive(c, d)
      PROVE  Directory!TypeOK' /\ RunnersOnly'
    <2>1. /\ synced[c][d] \in Directory!Entry
          /\ synced' = [synced EXCEPT ![c][d].active = ~ @]
          /\ UNCHANGED <<directory, team, connected, manual, members, fetched, due, stranded>>
        BY <1>2 DEF Directory!SetActive, Directory!Known
    <2>2. synced'[c] = [synced[c] EXCEPT ![d].active = ~ @]
        BY <2>1
    <2>3. synced'[c][d] = [synced[c][d] EXCEPT !.active = ~ @]
        BY <2>2
    <2>4. synced'[c][d] \in Directory!Entry
        BY <2>1, <2>3 DEF Directory!Entry
    <2>5. \A o \in DirectoryIds \ {d} : synced'[c][o] = synced[c][o]
        BY <2>2
    <2>6. synced'[c] \in [DirectoryIds -> Directory!Entry \cup {None}]
        <3>1. synced'[c] = [o \in DirectoryIds |-> synced'[c][o]]
            BY <2>1, <2>2
        <3>2. \A o \in DirectoryIds : synced'[c][o] \in Directory!Entry \cup {None}
            BY <2>4, <2>5
        <3> QED
            BY <3>1, <3>2
    <2>7. synced' \in [Clients -> [DirectoryIds -> Directory!Entry \cup {None}]]
        BY <2>1, <2>6
    <2> QED
        BY <2>1, <2>7
<1>3. ASSUME NEW c \in Clients, NEW d \in DirectoryIds, NEW e \in Directory!Entry \cup {None},
             Directory!ChangeEntry(c, d, e)
      PROVE  Directory!TypeOK' /\ RunnersOnly'
    BY <1>3 DEF Directory!ChangeEntry
<1>4. ASSUME NEW c \in Clients, NEW S \in SUBSET DirectoryIds,
             Directory!ChangeTeam(c, S) \/ Directory!EditMembers(c, S)
      PROVE  Directory!TypeOK' /\ RunnersOnly'
    BY <1>4 DEF Directory!ChangeTeam, Directory!EditMembers
<1>5. ASSUME NEW c \in Clients, NEW e \in Addresses, Directory!AddPerson(c, e)
      PROVE  Directory!TypeOK' /\ RunnersOnly'
    BY <1>5 DEF Directory!AddPerson
<1>6. ASSUME NEW c \in Clients, Directory!SaveConnection(c) \/ Directory!DeleteConnection(c)
      PROVE  Directory!TypeOK' /\ RunnersOnly'
    BY <1>6 DEF Directory!SaveConnection, Directory!DeleteConnection
<1>7. ASSUME NEW cs \in SUBSET Clients, Directory!StartCycle(cs)
      PROVE  Directory!TypeOK' /\ RunnersOnly'
    BY <1>7 DEF Directory!StartCycle
<1>8. ASSUME NEW r \in Runners, NEW c \in Clients, Directory!FetchFails(r, c)
      PROVE  Directory!TypeOK' /\ RunnersOnly'
    BY <1>8 DEF Directory!FetchFails
<1>9. ASSUME NEW r \in Runners, NEW c \in Clients, NEW S \in SUBSET DirectoryIds,
             NEW some \in SUBSET DirectoryIds, NEW reached \in BOOLEAN,
             Directory!Fetch(r, c, S, reached, some)
      PROVE  Directory!TypeOK' /\ RunnersOnly'
    <2> DEFINE s == [client |-> c, users |-> [d \in S |-> directory[c][d]],
                     complete |-> S = Directory!Present(c) /\ reached, grouped |-> reached,
                     team |-> some, truth |-> directory[c]]
    <2>1. /\ fetched' = [fetched EXCEPT ![r] = s] /\ S \subseteq Directory!Present(c)
          /\ UNCHANGED <<directory, team, connected, synced, manual, members, due, stranded>>
        BY <1>9 DEF Directory!Fetch
    <2>2. s \in Directory!Snapshots
        BY <2>1, SnapshotFetched
    <2> HIDE DEF s
    <2>3. \A x \in Runners : fetched'[x] = IF x = r THEN s ELSE fetched[x]
        BY <2>1
    <2>4. RunnersOnly'
        BY <2>1
    <2> QED
        BY <2>1, <2>2, <2>3, <2>4
<1>10. ASSUME NEW r \in Runners, Directory!Apply(r) \/ Directory!ApplyRaises(r)
       PROVE  Directory!TypeOK' /\ RunnersOnly'
    <2>1. fetched[r] # None /\ fetched' = [fetched EXCEPT ![r] = None]
        BY <1>10 DEF Directory!Apply, Directory!ApplyRaises
    <2>2. fetched[r] \in Directory!Snapshots
        BY <2>1
    <2> DEFINE s == fetched[r]
               c == s.client
    <2>3. c \in Clients /\ s.team \in SUBSET DirectoryIds
        BY <2>2 DEF Directory!Snapshots
    <2>4. \A x \in Runners : fetched'[x] = IF x = r THEN None ELSE fetched[x]
        BY <2>1
    <2>5. RunnersOnly' /\ \A x \in Runners : fetched'[x] # None => fetched'[x] \in Directory!Snapshots
        BY <2>1, <2>4
    <2>6. CASE Directory!Apply(r)
        <3>1. /\ synced' = [synced EXCEPT ![c] = Directory!Applied(s)]
              /\ due' = IF r = Worker THEN due \ {c} ELSE due
              /\ UNCHANGED <<directory, team, connected, manual, stranded>>
            BY <2>6 DEF Directory!Apply
        <3> DEFINE after == {d \in DirectoryIds : Directory!Applied(s)[d] # None}
                   group == IF s.grouped THEN s.team \cap after
                            ELSE IF s.complete THEN {} ELSE members[c]
        <3>2. members' = [members EXCEPT ![c] = group]
            BY <2>6 DEF Directory!Apply
        <3>3. group \in SUBSET DirectoryIds
            BY <2>3
        <3>4. Directory!Applied(s) \in [DirectoryIds -> Directory!Entry \cup {None}]
            BY <2>2, SnapshotApplied
        <3> HIDE DEF s, c, group
        <3>5. /\ synced' \in [Clients -> [DirectoryIds -> Directory!Entry \cup {None}]]
              /\ members' \in [Clients -> SUBSET DirectoryIds] /\ due' \subseteq Clients
            BY <2>3, <3>1, <3>2, <3>3, <3>4
        <3> QED
            BY <2>5, <3>1, <3>5
    <2>7. CASE Directory!ApplyRaises(r)
        <3>1. /\ due' \in {due, {}} /\ stranded' \subseteq stranded \cup due
              /\ UNCHANGED <<directory, team, connected, synced, manual, members>>
            BY <2>7 DEF Directory!ApplyRaises
        <3> QED
            BY <2>5, <3>1
    <2> QED
        BY <1>10, <2>6, <2>7
<1> HIDE DEF Directory!TypeOK, RunnersOnly
<1> QED
    BY <1>1, <1>2, <1>3, <1>4, <1>5, <1>6, <1>7, <1>8, <1>9, <1>10 DEF Directory!Next

\* Every value of the directory's variables is of its type.
THEOREM DirectoryTypesKept == Directory!Spec => []Directory!TypeOK
<1>1. Directory!Init => Directory!TypeOK /\ RunnersOnly
    BY DEF Directory!Init, Directory!TypeOK, RunnersOnly
<1>2. Directory!TypeOK /\ RunnersOnly /\ [Directory!Next]_directoryVars
      => (Directory!TypeOK /\ RunnersOnly)'
    BY DirectoryTypes
<1> QED
    BY <1>1, <1>2, PTL DEF Directory!Spec, Directory!vars, directoryVars

\* Every value of administration's variables is of its type.
THEOREM AdministrationTypes ==
    Accounts!Spec /\ Directory!Spec /\ Assigning!Spec /\ Remote!Spec /\ Enroll!Spec /\ Fleet!Spec
    => []TypesOK
<1>1. Accounts!TypeOK /\ Directory!TypeOK /\ Assigning!TypeOK /\ Remote!TypeOK /\ Enroll!TypeOK
      /\ Fleet!TypeOK => TypesOK
    BY DEF TypesOK, Of
<1> QED
    BY <1>1, AccountTypesKept, DirectoryTypesKept, AssignInvariant, RemoteTypesKept,
       EnrollmentTypes, FleetTypesKept, PTL
=============================================================================
