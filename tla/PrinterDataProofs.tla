-------------------------- MODULE PrinterDataProofs --------------------------
(***************************************************************************)
(* What central makes of a printer's readings, for every value of the      *)
(* constants of the modules as MCPrinterData instantiates them:            *)
(*   - WorkerHealth: a sick worker is seen;                                *)
(*   - ScheduledReports: one report a month, and no month skipped;         *)
(*   - ReadingRetention: what is deleted is counted, and windows are kept; *)
(*   - Billing: the months add up, no page is billed twice, and the active *)
(*     card is lost by its deletion alone;                                 *)
(*   - MaintenanceDesk: what "Mark serviced" says stays true;              *)
(*   - SupplyForecast: an alert rests on the part's own readings, and a    *)
(*     supply that gets worse stays on the list;                           *)
(*   - SupplyOrders: the mail reaches the ledger, and stock is overdrawn   *)
(*     by a race alone;                                                    *)
(*   - SuppressionCalendar: silence exactly inside the hours, and to their *)
(*     end;                                                                *)
(*   - SupplyYield: worse news clears no printer.                          *)
(* The folds of SupplyCycles, the bands of a rate card and the fit of      *)
(* SupplyForecast are recursive definitions and stay with the runs.        *)
(***************************************************************************)
EXTENDS MCPrinterData, FiniteSetTheorems, WellFoundedInduction, TLAPS

-----------------------------------------------------------------------------
(* Facts about counts and measures that the proofs below cite.             *)

\* A count does not rise when elements leave.
LEMMA FewerCounted ==
    ASSUME NEW S, IsFiniteSet(S), NEW T \in SUBSET S
    PROVE  Cardinality(T) \in Nat /\ Cardinality(S) \in Nat /\ Cardinality(T) <= Cardinality(S)
BY FS_Subset, FS_CardinalityType

\* One more element counts for one at most.
LEMMA OneMoreCounted ==
    ASSUME NEW S, IsFiniteSet(S), NEW x, NEW T \in SUBSET (S \cup {x})
    PROVE  Cardinality(T) \in Nat /\ Cardinality(S) \in Nat /\ Cardinality(T) <= Cardinality(S) + 1
<1>0. Cardinality(S) \in Nat
    BY FS_CardinalityType
<1>1. IsFiniteSet(S \cup {x}) /\ Cardinality(S \cup {x}) <= Cardinality(S) + 1
    <2>1. /\ IsFiniteSet(S \cup {x})
          /\ Cardinality(S \cup {x}) =
                IF x \in S THEN Cardinality(S) ELSE Cardinality(S) + 1
        BY FS_AddElement
    <2> QED
        BY <1>0, <2>1
<1>2. IsFiniteSet(T) /\ Cardinality(T) <= Cardinality(S \cup {x})
    BY <1>1, FS_Subset
<1> QED
    BY <1>0, <1>1, <1>2, FS_CardinalityType

\* A set of naturals has a least element.
LEMMA LeastNatural ==
    ASSUME NEW S \in SUBSET Nat, S # {}
    PROVE  \E n \in S : \A m \in S : n <= m
<1> DEFINE R == {ss \in Nat \X Nat : ss[1] < ss[2]}
<1>1. IsWellFoundedOn(R, Nat)
    BY NatLessThanWellFounded DEF OpToRel
<1>2. \A m, n \in Nat : m < n => <<m, n>> \in R
    OBVIOUS
<1> HIDE DEF R
<1>3. PICK n \in S : \A m \in S : ~(<<m, n>> \in R)
    BY <1>1, WFMin
<1>4. \A m \in S : m \in Nat /\ n \in Nat /\ ~(m < n)
    BY <1>2, <1>3
<1>5. \A m \in S : n <= m
    BY <1>4
<1> QED
    BY <1>3, <1>5

\* A measure with a bound is greatest somewhere.
LEMMA GreatestMeasured ==
    ASSUME NEW S, S # {}, NEW f \in [S -> Nat], NEW bound \in Nat, \A i \in S : f[i] <= bound
    PROVE  \E i \in S : \A j \in S : f[j] <= f[i]
<1> DEFINE T == {bound - f[i] : i \in S}
<1>1. T \in SUBSET Nat /\ T # {}
    OBVIOUS
<1>2. PICK n \in T : \A m \in T : n <= m
    <2> HIDE DEF T
    <2> QED
        BY <1>1, LeastNatural
<1>3. PICK i \in S : n = bound - f[i]
    OBVIOUS
<1>4. ASSUME NEW j \in S
      PROVE  f[j] <= f[i]
    <2>1. bound - f[i] <= bound - f[j]
        BY <1>2, <1>3
    <2>2. f[i] \in Nat /\ f[j] \in Nat
        OBVIOUS
    <2> QED
        BY <2>1, <2>2
<1> QED
    BY <1>4

-----------------------------------------------------------------------------
(* Sums.                                                                   *)

\* The values of f on the members of S, added one after the other.
FirstOf(s) == CHOOSE x \in s : TRUE
Adds(f, S, g) ==
    g = [s \in SUBSET S |-> IF s = {} THEN 0 ELSE f[FirstOf(s)] + g[s \ {FirstOf(s)}]]
SumOver(f, S) == (CHOOSE g : Adds(f, S, g))[S]

\* A step takes one member out.
LEMMA FirstOut ==
    ASSUME NEW S, IsFiniteSet(S), NEW s \in SUBSET S, s # {}
    PROVE  /\ FirstOf(s) \in s /\ s \ {FirstOf(s)} \in SUBSET S
           /\ Cardinality(s) \in Nat /\ Cardinality(s \ {FirstOf(s)}) \in Nat
           /\ Cardinality(s) = Cardinality(s \ {FirstOf(s)}) + 1
<1>1. FirstOf(s) \in s
    BY DEF FirstOf
<1>2. IsFiniteSet(s)
    BY FS_Subset
<1>3. IsFiniteSet(s \ {FirstOf(s)}) /\ Cardinality(s \ {FirstOf(s)}) = Cardinality(s) - 1
    BY <1>1, <1>2, FS_RemoveElement
<1>4. Cardinality(s) \in Nat /\ Cardinality(s \ {FirstOf(s)}) \in Nat
    BY <1>2, <1>3, FS_CardinalityType
<1> QED
    BY <1>1, <1>3, <1>4

\* There is such a function: one for the sets of n members makes one for n + 1.
LEMMA AddsExist ==
    ASSUME NEW S, IsFiniteSet(S), NEW f
    PROVE  \E g : Adds(f, S, g)
<1> DEFINE D(n) == {s \in SUBSET S : Cardinality(s) <= n}
           Upto(h, n) == h = [s \in D(n) |-> IF s = {} THEN 0 ELSE f[FirstOf(s)] + h[s \ {FirstOf(s)}]]
           Bad == {n \in Nat : ~\E h : Upto(h, n)}
<1>0. \A s \in SUBSET S : Cardinality(s) \in Nat
    BY FS_Subset, FS_CardinalityType
<1>1. 0 \notin Bad
    <2>1. Upto([s \in D(0) |-> 0], 0)
        <3>1. \A s \in D(0) : s = {}
            <4>1. \A s \in SUBSET S : Cardinality(s) = 0 => s = {}
                BY FS_Subset, FS_EmptySet
            <4>2. \A s \in D(0) : Cardinality(s) \in Nat /\ Cardinality(s) <= 0
                BY <1>0
            <4> QED
                BY <4>1, <4>2
        <3> HIDE DEF D
        <3> QED
            BY <3>1
    <2> QED
        BY <2>1
<1>2. ASSUME NEW n \in Nat, n \notin Bad
      PROVE  n + 1 \notin Bad
    <2>1. PICK h : Upto(h, n)
        BY <1>2
    <2> DEFINE up == [s \in D(n + 1) |-> IF s = {} THEN 0 ELSE f[FirstOf(s)] + h[s \ {FirstOf(s)}]]
    <2>2. \A s \in D(n + 1) : s # {} => s \ {FirstOf(s)} \in D(n) /\ s \ {FirstOf(s)} \in D(n + 1)
        BY FirstOut
    <2>3. \A s \in D(n) : s \in D(n + 1)
        BY <1>0
    <2> HIDE DEF D
    <2>4. \A s \in D(n) : up[s] = h[s]
        BY <2>1, <2>3
    <2>5. Upto(up, n + 1)
        BY <2>2, <2>4
    <2> QED
        BY <2>5
<1>3. Bad = {}
    <2> SUFFICES ASSUME Bad # {} PROVE FALSE
        OBVIOUS
    <2>1. Bad \in SUBSET Nat
        OBVIOUS
    <2> HIDE DEF Bad
    <2>2. PICK n \in Bad : \A m \in Bad : n <= m
        BY <2>1, LeastNatural
    <2>3. n \in Nat /\ n # 0
        BY <1>1, <2>1
    <2>4. n - 1 \in Nat /\ n - 1 \notin Bad
        BY <2>1, <2>2, <2>3
    <2>5. (n - 1) + 1 \notin Bad
        BY <1>2, <2>4
    <2> QED
        BY <2>2, <2>3, <2>5
<1>4. Cardinality(S) \in Nat
    BY FS_CardinalityType
<1>5. PICK h : Upto(h, Cardinality(S))
    BY <1>3, <1>4
<1>6. D(Cardinality(S)) = SUBSET S
    BY FS_Subset
<1>7. Adds(f, S, h)
    <2> HIDE DEF D
    <2> QED
        BY <1>5, <1>6 DEF Adds
<1> QED
    BY <1>7

\* A set of subsets with which comes every subset whose own proper subsets are
\* all in it, is the whole.
LEMMA SmallestOut ==
    ASSUME NEW S, IsFiniteSet(S), NEW Good,
           \A s \in SUBSET S : (\A t \in SUBSET s : t # s => t \in Good) => s \in Good
    PROVE  SUBSET S \subseteq Good
<1> SUFFICES ASSUME NEW w \in SUBSET S, w \notin Good PROVE FALSE
    OBVIOUS
<1> DEFINE Bad == (SUBSET S) \ Good
           Sizes == {Cardinality(s) : s \in Bad}
<1>0. \A s \in SUBSET S : IsFiniteSet(s) /\ Cardinality(s) \in Nat
    BY FS_Subset, FS_CardinalityType
<1>1. Sizes \in SUBSET Nat /\ Sizes # {}
    BY <1>0
<1>2. PICK n \in Sizes : \A m \in Sizes : n <= m
    <2> HIDE DEF Sizes
    <2> QED
        BY <1>1, LeastNatural
<1>3. PICK s \in Bad : n = Cardinality(s)
    BY <1>2
<1>4. PICK t \in SUBSET s : t # s /\ t \notin Good
    OBVIOUS
<1>5. t \in Bad /\ Cardinality(t) < n /\ Cardinality(t) \in Nat /\ n \in Nat
    BY <1>0, <1>3, <1>4, FS_Subset
<1>6. Cardinality(t) \in Sizes
    BY <1>5
<1> HIDE DEF Sizes, Bad
<1> QED
    BY <1>2, <1>5, <1>6

\* What is added up over a subset does not depend on the set it is taken from.
LEMMA AddsAgree ==
    ASSUME NEW S, IsFiniteSet(S), NEW T \in SUBSET S, NEW f, NEW g, NEW h,
           Adds(f, S, g), Adds(f, T, h)
    PROVE  \A s \in SUBSET T : g[s] = h[s]
<1> DEFINE Good == {s \in SUBSET T : g[s] = h[s]}
<1>1. {} \in Good
    BY DEF Adds
<1>2. IsFiniteSet(T)
    BY FS_Subset
<1>3. ASSUME NEW s \in SUBSET T, s # {}, s \ {FirstOf(s)} \in Good
      PROVE  s \in Good
    BY <1>3 DEF Adds
<1>4. \A s \in SUBSET T : s # {} => FirstOf(s) \in s
    BY DEF FirstOf
<1> HIDE DEF Good
<1>5. ASSUME NEW s \in SUBSET T, \A t \in SUBSET s : t # s => t \in Good
      PROVE  s \in Good
    BY <1>1, <1>3, <1>4, <1>5
<1>6. SUBSET T \subseteq Good
    BY <1>2, <1>5, SmallestOut
<1> QED
    BY <1>6 DEF Good

\* One value is added to the rest.
LEMMA SumStep ==
    ASSUME NEW S, IsFiniteSet(S), NEW f
    PROVE  /\ SumOver(f, {}) = 0
           /\ S # {} => SumOver(f, S) = f[FirstOf(S)] + SumOver(f, S \ {FirstOf(S)})
<1>1. ASSUME NEW s \in SUBSET S PROVE Adds(f, s, CHOOSE g : Adds(f, s, g))
    <2>1. IsFiniteSet(s)
        BY FS_Subset
    <2> QED
        BY <2>1, AddsExist
<1>2. SumOver(f, {}) = 0
    <2> DEFINE g == CHOOSE g : Adds(f, {}, g)
    <2>1. Adds(f, {}, g)
        BY <1>1
    <2> HIDE DEF g
    <2>2. g[{}] = 0
        BY <2>1 DEF Adds
    <2> QED
        BY <2>2 DEF g, SumOver
<1>3. ASSUME S # {}
      PROVE  SumOver(f, S) = f[FirstOf(S)] + SumOver(f, S \ {FirstOf(S)})
    <2> DEFINE T == S \ {FirstOf(S)}
               g == CHOOSE g : Adds(f, S, g)
               h == CHOOSE h : Adds(f, T, h)
    <2>1. Adds(f, S, g) /\ Adds(f, T, h)
        BY <1>1
    <2>2. SumOver(f, S) = g[S] /\ SumOver(f, T) = h[T]
        BY DEF SumOver
    <2>3. T \in SUBSET S
        OBVIOUS
    <2> HIDE DEF g, h
    <2>4. g[S] = f[FirstOf(S)] + g[T]
        BY <1>3, <2>1 DEF Adds
    <2>5. g[T] = h[T]
        BY <2>1, <2>3, AddsAgree
    <2> QED
        BY <2>2, <2>4, <2>5
<1> QED
    BY <1>2, <1>3

\* Naturals add up to one.
LEMMA SumNat ==
    ASSUME NEW S, IsFiniteSet(S), NEW f, \A x \in S : f[x] \in Nat
    PROVE  \A s \in SUBSET S : SumOver(f, s) \in Nat
<1> DEFINE Good == {s \in SUBSET S : SumOver(f, s) \in Nat}
<1>1. SumOver(f, {}) = 0
    BY SumStep
<1>2. ASSUME NEW s \in SUBSET S, \A t \in SUBSET s : t # s => t \in Good, s # {}
      PROVE  SumOver(f, s) \in Nat
    <2>1. IsFiniteSet(s) /\ FirstOf(s) \in s /\ f[FirstOf(s)] \in Nat
        BY <1>2, FS_Subset, FirstOut
    <2>2. SumOver(f, s) = f[FirstOf(s)] + SumOver(f, s \ {FirstOf(s)})
        BY <1>2, <2>1, SumStep
    <2>3. SumOver(f, s \ {FirstOf(s)}) \in Nat
        BY <1>2, <2>1
    <2> QED
        BY <2>1, <2>2, <2>3
<1>3. ASSUME NEW s \in SUBSET S, \A t \in SUBSET s : t # s => t \in Good
      PROVE  s \in Good
    <2>1. CASE s = {}
        BY <1>1, <2>1
    <2>2. CASE s # {}
        BY <1>2, <1>3, <2>2
    <2> QED
        BY <2>1, <2>2
<1> HIDE DEF Good
<1>4. SUBSET S \subseteq Good
    BY <1>3, SmallestOut
<1> QED
    BY <1>4 DEF Good

\* Whichever member is taken out first.
LEMMA SumRemove ==
    ASSUME NEW S, IsFiniteSet(S), NEW f, \A x \in S : f[x] \in Nat
    PROVE  \A s \in SUBSET S : \A x \in s : SumOver(f, s) = f[x] + SumOver(f, s \ {x})
<1> DEFINE Good == {s \in SUBSET S : \A x \in s : SumOver(f, s) = f[x] + SumOver(f, s \ {x})}
<1>0. \A s \in SUBSET S : IsFiniteSet(s) /\ SumOver(f, s) \in Nat
    BY FS_Subset, SumNat
<1>1. ASSUME NEW s \in SUBSET S, \A t \in SUBSET s : t # s => t \in Good, NEW x \in s
      PROVE  SumOver(f, s) = f[x] + SumOver(f, s \ {x})
    <2> DEFINE y == FirstOf(s)
    <2>1. /\ y \in s /\ IsFiniteSet(s)
          /\ SumOver(f, s) = f[y] + SumOver(f, s \ {y})
        BY <1>0, <1>1, FirstOut, SumStep
    <2> HIDE DEF y
    <2>2. CASE x = y
        BY <2>1, <2>2
    <2>3. CASE x # y
        <3>1. SumOver(f, s \ {y}) = f[x] + SumOver(f, (s \ {y}) \ {x})
            BY <1>1, <2>1, <2>3
        <3>2. SumOver(f, s \ {x}) = f[y] + SumOver(f, (s \ {x}) \ {y})
            BY <1>1, <2>1, <2>3
        <3>3. (s \ {y}) \ {x} = (s \ {x}) \ {y} /\ (s \ {y}) \ {x} \in SUBSET S
            OBVIOUS
        <3>4. SumOver(f, (s \ {y}) \ {x}) \in Nat /\ f[x] \in Nat /\ f[y] \in Nat
            BY <1>0, <2>1, <3>3
        <3> DEFINE rest == SumOver(f, (s \ {y}) \ {x})
        <3>5. /\ SumOver(f, s) = f[y] + (f[x] + rest)
              /\ SumOver(f, s \ {x}) = f[y] + rest
            BY <2>1, <3>1, <3>2, <3>3
        <3>6. rest \in Nat /\ f[x] \in Nat /\ f[y] \in Nat
            BY <3>4
        <3> HIDE DEF rest
        <3> QED
            BY <3>5, <3>6
    <2> QED
        BY <2>2, <2>3
<1>2. ASSUME NEW s \in SUBSET S, \A t \in SUBSET s : t # s => t \in Good
      PROVE  s \in Good
    BY <1>1, <1>2
<1> HIDE DEF Good
<1>3. SUBSET S \subseteq Good
    BY <1>2, SmallestOut
<1>4. ASSUME NEW s \in SUBSET S, NEW x \in s
      PROVE  SumOver(f, s) = f[x] + SumOver(f, s \ {x})
    <2>1. s \in Good
        BY <1>3
    <2> QED
        BY <2>1 DEF Good
<1> QED
    BY <1>4, Zenon

\* What counts is what f says of the members.
LEMMA SumSame ==
    ASSUME NEW S, NEW f, NEW g, \A x \in S : f[x] = g[x]
    PROVE  SumOver(f, S) = SumOver(g, S)
<1>1. \A s \in SUBSET S : s # {} => FirstOf(s) \in S
    BY DEF FirstOf
<1>2. \A h : Adds(f, S, h) <=> Adds(g, S, h)
    BY <1>1 DEF Adds
<1>3. (CHOOSE h : Adds(f, S, h)) = CHOOSE h : Adds(g, S, h)
    BY <1>2
<1> QED
    BY <1>3 DEF SumOver

\* The sum of what remains is no greater.
LEMMA SumFewer ==
    ASSUME NEW S, IsFiniteSet(S), NEW f, \A x \in S : f[x] \in Nat, NEW T \in SUBSET S
    PROVE  SumOver(f, T) <= SumOver(f, S)
<1> DEFINE Good == {s \in SUBSET S : \A t \in SUBSET s : SumOver(f, t) <= SumOver(f, s)}
<1>0. \A s \in SUBSET S : SumOver(f, s) \in Nat
    BY SumNat
<1>1. ASSUME NEW s \in SUBSET S, \A t \in SUBSET s : t # s => t \in Good, NEW t \in SUBSET s
      PROVE  SumOver(f, t) <= SumOver(f, s)
    <2>1. CASE t = s
        BY <1>0, <2>1
    <2>2. CASE t # s
        <3>1. PICK x \in s : x \notin t
            BY <2>2
        <3>2. SumOver(f, s) = f[x] + SumOver(f, s \ {x})
            BY SumRemove
        <3>3. SumOver(f, t) <= SumOver(f, s \ {x})
            BY <1>1, <3>1
        <3>4. f[x] \in Nat /\ SumOver(f, t) \in Nat /\ SumOver(f, s \ {x}) \in Nat
            BY <1>0
        <3> QED
            BY <3>2, <3>3, <3>4
    <2> QED
        BY <2>1, <2>2
<1>2. ASSUME NEW s \in SUBSET S, \A t \in SUBSET s : t # s => t \in Good
      PROVE  s \in Good
    BY <1>1, <1>2
<1> HIDE DEF Good
<1>3. SUBSET S \subseteq Good
    BY <1>2, SmallestOut
<1> QED
    BY <1>3 DEF Good

\* Smaller values have a smaller sum.
LEMMA SumLess ==
    ASSUME NEW S, IsFiniteSet(S), NEW f, NEW g,
           \A x \in S : f[x] \in Nat /\ g[x] \in Nat /\ g[x] <= f[x]
    PROVE  SumOver(g, S) <= SumOver(f, S)
<1> DEFINE Good == {s \in SUBSET S : SumOver(g, s) <= SumOver(f, s)}
<1>0. \A s \in SUBSET S : /\ IsFiniteSet(s)
                          /\ SumOver(f, s) \in Nat /\ SumOver(g, s) \in Nat
    BY FS_Subset, SumNat
<1>1. SumOver(g, {}) = 0 /\ SumOver(f, {}) = 0
    BY SumStep
<1>2. ASSUME NEW s \in SUBSET S, \A t \in SUBSET s : t # s => t \in Good, NEW x \in s
      PROVE  SumOver(g, s) <= SumOver(f, s)
    <2>1. /\ SumOver(f, s) = f[x] + SumOver(f, s \ {x})
          /\ SumOver(g, s) = g[x] + SumOver(g, s \ {x})
        BY SumRemove
    <2>2. SumOver(g, s \ {x}) <= SumOver(f, s \ {x})
        BY <1>2
    <2>3. /\ f[x] \in Nat /\ g[x] \in Nat /\ g[x] <= f[x]
          /\ SumOver(f, s \ {x}) \in Nat /\ SumOver(g, s \ {x}) \in Nat
        BY <1>0
    <2> QED
        BY <2>1, <2>2, <2>3
<1>3. ASSUME NEW s \in SUBSET S, \A t \in SUBSET s : t # s => t \in Good
      PROVE  s \in Good
    <2>1. CASE s = {}
        BY <1>1, <2>1
    <2>2. CASE s # {}
        BY <1>2, <1>3, <2>2
    <2> QED
        BY <2>1, <2>2
<1> HIDE DEF Good
<1>4. SUBSET S \subseteq Good
    BY <1>3, SmallestOut
<1> QED
    BY <1>4 DEF Good

\* One value that is one greater makes the sum one greater.
LEMMA SumBumped ==
    ASSUME NEW S, IsFiniteSet(S), NEW f, NEW g, NEW x \in S,
           \A y \in S : f[y] \in Nat /\ g[y] \in Nat /\ (y # x => g[y] <= f[y]),
           g[x] <= f[x] + 1
    PROVE  SumOver(g, S) <= SumOver(f, S) + 1
<1>1. /\ SumOver(f, S) = f[x] + SumOver(f, S \ {x})
      /\ SumOver(g, S) = g[x] + SumOver(g, S \ {x})
    BY SumRemove
<1>2. IsFiniteSet(S \ {x})
    BY FS_Subset
<1>3. SumOver(g, S \ {x}) <= SumOver(f, S \ {x})
    BY <1>2, SumLess
<1>4. SumOver(g, S \ {x}) \in Nat /\ SumOver(f, S \ {x}) \in Nat
    BY SumNat
<1>5. f[x] \in Nat /\ g[x] \in Nat
    OBVIOUS
<1> QED
    BY <1>1, <1>3, <1>4, <1>5

-----------------------------------------------------------------------------
(* What a meter climbed.                                                   *)

\* One member taken out of a sum.
LEMMA SumOut ==
    ASSUME NEW S, IsFiniteSet(S), NEW f, \A y \in S : f[y] \in Nat, NEW x \in S
    PROVE  /\ SumOver(f, S) = f[x] + SumOver(f, S \ {x})
           /\ SumOver(f, S) \in Nat /\ SumOver(f, S \ {x}) \in Nat
<1>1. SumOver(f, S) = f[x] + SumOver(f, S \ {x})
    BY SumRemove
<1>2. SumOver(f, S) \in Nat /\ SumOver(f, S \ {x}) \in Nat
    BY SumNat
<1> QED
    BY <1>1, <1>2

\* The values of f on two sets that have nothing in common.
LEMMA SumApart ==
    ASSUME NEW A, IsFiniteSet(A), NEW B, IsFiniteSet(B), A \cap B = {}, NEW f,
           \A x \in A \cup B : f[x] \in Nat
    PROVE  SumOver(f, A \cup B) = SumOver(f, A) + SumOver(f, B)
<1> DEFINE Good == {s \in SUBSET A : SumOver(f, s \cup B) = SumOver(f, s) + SumOver(f, B)}
<1>1. IsFiniteSet(A \cup B)
    BY FS_Union
<1>2. \A s \in SUBSET (A \cup B) : SumOver(f, s) \in Nat
    BY <1>1, SumNat
<1>3. ASSUME NEW s \in SUBSET (A \cup B), NEW x \in s
      PROVE  SumOver(f, s) = f[x] + SumOver(f, s \ {x})
    <2>1. IsFiniteSet(s) /\ \A y \in s : f[y] \in Nat
        BY <1>1, FS_Subset
    <2> QED
        BY <2>1, SumRemove
<1>4. ASSUME NEW s \in SUBSET A, \A t \in SUBSET s : t # s => t \in Good
      PROVE  SumOver(f, s \cup B) = SumOver(f, s) + SumOver(f, B)
    <2>1. CASE s = {}
        <3>1. s \cup B = B
            BY <2>1
        <3>2. SumOver(f, s) = 0
            BY <2>1, SumStep
        <3>3. SumOver(f, B) \in Nat
            BY <1>2
        <3>4. SumOver(f, s \cup B) = SumOver(f, B)
            BY <3>1
        <3> QED
            BY <3>2, <3>3, <3>4
    <2>2. CASE s # {}
        <3>1. PICK x \in s : TRUE
            BY <2>2
        <3>2. s \ {x} \in Good
            BY <1>4, <3>1
        <3>3. SumOver(f, (s \ {x}) \cup B) = SumOver(f, s \ {x}) + SumOver(f, B)
            BY <3>2
        <3>4. (s \cup B) \ {x} = (s \ {x}) \cup B
            OBVIOUS
        <3>5. /\ SumOver(f, s \cup B) = f[x] + SumOver(f, (s \cup B) \ {x})
              /\ SumOver(f, s) = f[x] + SumOver(f, s \ {x})
            BY <1>3, <3>1
        <3>6. /\ f[x] \in Nat /\ SumOver(f, s \ {x}) \in Nat /\ SumOver(f, B) \in Nat
            BY <1>2, <3>1
        <3>7. SumOver(f, (s \cup B) \ {x}) = SumOver(f, (s \ {x}) \cup B)
            BY <3>4
        <3> DEFINE whole == SumOver(f, s \cup B)
                   left  == SumOver(f, s)
                   most  == SumOver(f, (s \ {x}) \cup B)
                   less  == SumOver(f, s \ {x})
                   other == SumOver(f, B)
        <3>8. whole = f[x] + most /\ left = f[x] + less /\ most = less + other
            BY <3>3, <3>5, <3>7
        <3>9. f[x] \in Nat /\ less \in Nat /\ other \in Nat
            BY <3>6
        <3> HIDE DEF whole, left, most, less, other
        <3>10. whole = left + other
            BY <3>8, <3>9
        <3> QED
            BY <3>10 DEF whole, left, other
    <2> QED
        BY <2>1, <2>2
<1>5. ASSUME NEW s \in SUBSET A, \A t \in SUBSET s : t # s => t \in Good
      PROVE  s \in Good
    BY <1>4, <1>5
<1> HIDE DEF Good
<1>6. SUBSET A \subseteq Good
    BY <1>5, SmallestOut
<1>7. A \in Good
    BY <1>6
<1> QED
    BY <1>7 DEF Good

\* A set split by a measure: the sums of its parts are the sum of the whole.
Inside(C, h, m) == {t \in C : h[t] = m}
SumsOf(g, M, f, C, h) ==
    (\A m \in M : g[m] = SumOver(f, Inside(C, h, m))) /\ \A x \in C : h[x] \in M

LEMMA SumFibres ==
    ASSUME NEW C, IsFiniteSet(C), NEW f, \A x \in C : f[x] \in Nat,
           NEW M, IsFiniteSet(M), NEW h, NEW g, SumsOf(g, M, f, C, h)
    PROVE  SumOver(g, M) = SumOver(f, C)
<1> USE DEF SumsOf
<1> DEFINE Parted(s) == {x \in C : h[x] \in s}
           Good == {s \in SUBSET M : SumOver(g, s) = SumOver(f, Parted(s))}
<1>1. \A s \in SUBSET C : SumOver(f, s) \in Nat
    BY SumNat
<1>2. \A m \in M : g[m] \in Nat
    BY <1>1 DEF Inside
<1>3. ASSUME NEW s \in SUBSET M, NEW x \in s
      PROVE  SumOver(g, s) = g[x] + SumOver(g, s \ {x})
    <2>1. IsFiniteSet(s) /\ \A y \in s : g[y] \in Nat
        BY <1>2, FS_Subset
    <2> QED
        BY <2>1, SumRemove
<1>4. ASSUME NEW s \in SUBSET M, \A t \in SUBSET s : t # s => t \in Good
      PROVE  SumOver(g, s) = SumOver(f, Parted(s))
    <2>1. CASE s = {}
        <3>1. Parted(s) = {}
            BY <2>1
        <3> HIDE DEF Parted
        <3> QED
            BY <2>1, <3>1, SumStep
    <2>2. CASE s # {}
        <3>1. PICK m \in s : TRUE
            BY <2>2
        <3>2. s \ {m} \in Good
            BY <1>4, <3>1
        <3>3. SumOver(g, s \ {m}) = SumOver(f, Parted(s \ {m}))
            BY <3>2
        <3> DEFINE A == Inside(C, h, m)
                   B == Parted(s \ {m})
        <3>4. Parted(s) = A \cup B /\ A \cap B = {}
            BY <3>1 DEF Inside
        <3>5. A \in SUBSET C /\ B \in SUBSET C
            BY DEF Inside
        <3>6. /\ IsFiniteSet(A) /\ IsFiniteSet(B)
              /\ \A x \in A \cup B : f[x] \in Nat
            BY <3>5, FS_Subset
        <3>7. g[m] = SumOver(f, A)
            BY <3>1
        <3>8. SumOver(g, s) = g[m] + SumOver(g, s \ {m})
            BY <1>3, <3>1
        <3> HIDE DEF A, B, Good, Parted
        <3>9. SumOver(f, A \cup B) = SumOver(f, A) + SumOver(f, B)
            BY <3>4, <3>6, SumApart
        <3> QED
            BY <3>3, <3>4, <3>7, <3>8, <3>9 DEF B
    <2> QED
        BY <2>1, <2>2
<1>5. ASSUME NEW s \in SUBSET M, \A t \in SUBSET s : t # s => t \in Good
      PROVE  s \in Good
    BY <1>4, <1>5
<1> HIDE DEF Good
<1>6. SUBSET M \subseteq Good
    BY <1>5, SmallestOut
<1>7. M \in Good
    BY <1>6
<1>8. Parted(M) = C
    OBVIOUS
<1> HIDE DEF Parted
<1> QED
    BY <1>7, <1>8 DEF Good

\* The readings at times T of a meter with values v, each against the one before it.
Earlier(T, t) == {u \in T : u < t}
LastOf(S) == CHOOSE u \in S : \A w \in S : w <= u
RiseAt(v, T, t) ==
    IF Earlier(T, t) # {} /\ v[t] > v[LastOf(Earlier(T, t))]
    THEN v[t] - v[LastOf(Earlier(T, t))] ELSE 0
Rises(v, T) == [t \in T |-> RiseAt(v, T, t)]
Climb(v, T) == SumOver(Rises(v, T), T)

\* A finite set of times has a last one.
LEMMA LastIs ==
    ASSUME NEW S \in SUBSET Nat, IsFiniteSet(S), S # {}
    PROVE  LastOf(S) \in S /\ \A w \in S : w <= LastOf(S)
<1> DEFINE Good == {s \in SUBSET S : s = {} \/ \E u \in s : \A w \in s : w <= u}
<1>1. ASSUME NEW s \in SUBSET S, \A t \in SUBSET s : t # s => t \in Good
      PROVE  s = {} \/ \E u \in s : \A w \in s : w <= u
    <2> SUFFICES ASSUME NEW x \in s PROVE \E u \in s : \A w \in s : w <= u
        OBVIOUS
    <2>0. \A w \in s : w \in Nat
        OBVIOUS
    <2>1. s \ {x} \in Good
        BY <1>1
    <2>2. CASE s \ {x} = {}
        <3>1. \A w \in s : w = x
            BY <2>2
        <3> QED
            BY <2>0, <3>1
    <2>3. CASE s \ {x} # {}
        <3>1. PICK u \in s \ {x} : \A w \in s \ {x} : w <= u
            BY <2>1, <2>3
        <3>2. CASE x <= u
            BY <2>0, <3>1, <3>2
        <3>3. CASE u <= x
            <4>1. \A w \in s : w <= x
                BY <2>0, <3>1, <3>3
            <4> QED
                BY <4>1
        <3> QED
            BY <2>0, <3>2, <3>3
    <2> QED
        BY <2>2, <2>3
<1>2. ASSUME NEW s \in SUBSET S, \A t \in SUBSET s : t # s => t \in Good
      PROVE  s \in Good
    BY <1>1, <1>2
<1> HIDE DEF Good
<1>3. SUBSET S \subseteq Good
    BY <1>2, SmallestOut
<1>4. S \in Good
    BY <1>3
<1>5. \E u \in S : \A w \in S : w <= u
    BY <1>4 DEF Good
<1> QED
    BY <1>5 DEF LastOf

\* ... and only that one.
LEMMA LastOnly ==
    ASSUME NEW S \in SUBSET Nat, IsFiniteSet(S), NEW x \in S, \A w \in S : w <= x
    PROVE  LastOf(S) = x
<1>1. LastOf(S) \in S /\ \A w \in S : w <= LastOf(S)
    BY LastIs
<1>2. LastOf(S) \in Nat /\ x \in Nat /\ LastOf(S) <= x /\ x <= LastOf(S)
    BY <1>1
<1> QED
    BY <1>2

LEMMA RisesCount ==
    ASSUME NEW T \in SUBSET Nat, IsFiniteSet(T), NEW v, \A t \in T : v[t] \in Nat
    PROVE  /\ \A t \in T : RiseAt(v, T, t) \in Nat /\ Rises(v, T)[t] = RiseAt(v, T, t)
           /\ Climb(v, T) \in Nat
           /\ \A t \in T : IsFiniteSet(Earlier(T, t)) /\ Earlier(T, t) \in SUBSET T
           /\ \A t \in T : Earlier(T, t) # {} =>
                 /\ LastOf(Earlier(T, t)) \in T /\ LastOf(Earlier(T, t)) < t
                 /\ \A u \in T : u < t => u <= LastOf(Earlier(T, t))
<1>1. ASSUME NEW t \in T
      PROVE  IsFiniteSet(Earlier(T, t)) /\ Earlier(T, t) \in SUBSET T
    <2>1. Earlier(T, t) \in SUBSET T
        BY DEF Earlier
    <2> QED
        BY <2>1, FS_Subset
<1>2. ASSUME NEW t \in T, Earlier(T, t) # {}
      PROVE  /\ LastOf(Earlier(T, t)) \in T /\ LastOf(Earlier(T, t)) < t
             /\ \A u \in T : u < t => u <= LastOf(Earlier(T, t))
    <2> DEFINE E == Earlier(T, t)
    <2>1. E \in SUBSET Nat /\ IsFiniteSet(E)
        BY <1>1
    <2> HIDE DEF E
    <2>2. LastOf(E) \in E /\ \A w \in E : w <= LastOf(E)
        BY <1>2, <2>1, LastIs DEF E
    <2>3. \A u : u \in E <=> u \in T /\ u < t
        BY DEF E, Earlier
    <2>4. /\ LastOf(E) \in T /\ LastOf(E) < t
          /\ \A u \in T : u < t => u <= LastOf(E)
        BY <2>2, <2>3
    <2> QED
        BY <2>4 DEF E
<1>3. ASSUME NEW t \in T
      PROVE  RiseAt(v, T, t) \in Nat /\ Rises(v, T)[t] = RiseAt(v, T, t)
    <2>1. Rises(v, T)[t] = RiseAt(v, T, t)
        BY DEF Rises
    <2>2. CASE Earlier(T, t) = {}
        BY <2>1, <2>2 DEF RiseAt
    <2>3. CASE Earlier(T, t) # {}
        <3> DEFINE l == LastOf(Earlier(T, t))
        <3>1. v[t] \in Nat /\ v[l] \in Nat
            BY <1>2, <2>3
        <3>2. RiseAt(v, T, t) = IF v[t] > v[l] THEN v[t] - v[l] ELSE 0
            BY <2>3 DEF RiseAt
        <3> HIDE DEF l
        <3> QED
            BY <2>1, <3>1, <3>2
    <2> QED
        BY <2>2, <2>3
<1>4. Climb(v, T) \in Nat
    <2>1. \A t \in T : Rises(v, T)[t] \in Nat
        BY <1>3
    <2> QED
        BY <2>1, SumNat DEF Climb
<1> QED
    BY <1>1, <1>2, <1>3, <1>4

\* Two values of a meter agree where it was read: it climbed the same.
LEMMA ClimbSame ==
    ASSUME NEW T \in SUBSET Nat, IsFiniteSet(T), NEW v, NEW w,
           \A t \in T : v[t] \in Nat /\ v[t] = w[t]
    PROVE  Climb(v, T) = Climb(w, T)
<1>1. \A t \in T : RiseAt(v, T, t) = RiseAt(w, T, t)
    BY RisesCount DEF RiseAt
<1>2. \A t \in T : Rises(v, T)[t] = Rises(w, T)[t]
    BY <1>1 DEF Rises
<1> QED
    BY <1>2, SumSame DEF Climb

\* The rise at a time is from the one before.
Up(a, b) == IF b > a THEN b - a ELSE 0
Follows(T, u, t) == u \in T /\ t \in T /\ u < t /\ \A w \in T : w < t => w <= u

LEMMA RiseIs ==
    ASSUME NEW T \in SUBSET Nat, IsFiniteSet(T), NEW v, NEW t \in T
    PROVE  /\ \A u : Follows(T, u, t) => RiseAt(v, T, t) = Up(v[u], v[t])
           /\ (\A u \in T : ~(u < t)) => RiseAt(v, T, t) = 0
           /\ (\E u \in T : u < t) => \E u \in T : Follows(T, u, t)
<1> DEFINE E == Earlier(T, t)
<1>1. E \in SUBSET Nat /\ IsFiniteSet(E) /\ \A u : u \in E <=> u \in T /\ u < t
    <2>1. \A u : u \in E <=> u \in T /\ u < t
        BY DEF Earlier
    <2>2. E \in SUBSET T
        BY <2>1
    <2>3. IsFiniteSet(E)
        BY <2>2, FS_Subset
    <2> QED
        BY <2>1, <2>2, <2>3
<1>2. RiseAt(v, T, t) = IF E # {} /\ v[t] > v[LastOf(E)] THEN v[t] - v[LastOf(E)] ELSE 0
    BY DEF RiseAt
<1> HIDE DEF E
<1>3. ASSUME NEW u, Follows(T, u, t)
      PROVE  RiseAt(v, T, t) = Up(v[u], v[t])
    <2>1. u \in E /\ \A w \in E : w <= u
        BY <1>1, <1>3 DEF Follows
    <2>2. LastOf(E) = u
        BY <1>1, <2>1, LastOnly
    <2> QED
        BY <1>2, <2>1, <2>2 DEF Up
<1>4. (\A u \in T : ~(u < t)) => RiseAt(v, T, t) = 0
    BY <1>1, <1>2
<1>5. ASSUME E # {} PROVE \E u \in T : Follows(T, u, t)
    <2>1. LastOf(E) \in E /\ \A w \in E : w <= LastOf(E)
        BY <1>1, <1>5, LastIs
    <2> QED
        BY <1>1, <2>1 DEF Follows
<1> QED
    BY <1>1, <1>3, <1>4, <1>5

\* A time may be followed by another.
LEMMA NextIs ==
    ASSUME NEW T \in SUBSET Nat, NEW x \in T, \E t \in T : x < t
    PROVE  \E n \in T : Follows(T, x, n) /\ \A t \in T : x < t => n <= t
<1> DEFINE L == {t \in T : x < t}
<1>1. L \in SUBSET Nat /\ L # {}
    OBVIOUS
<1>2. PICK n \in L : \A m \in L : n <= m
    BY <1>1, LeastNatural
<1>3. n \in T /\ x < n /\ \A t \in T : x < t => n <= t
    BY <1>2
<1>4. \A w \in T : w < n => w <= x
    <2> SUFFICES ASSUME NEW w \in T, w < n PROVE w <= x
        OBVIOUS
    <2>1. w \in Nat /\ n \in Nat /\ x \in Nat
        BY <1>3
    <2>2. ~(x < w)
        BY <1>3, <2>1
    <2> QED
        BY <2>1, <2>2
<1> QED
    BY <1>3, <1>4 DEF Follows

\* With one reading less a meter never climbed more.
LEMMA ClimbRemoves ==
    ASSUME NEW T \in SUBSET Nat, IsFiniteSet(T), NEW v, \A t \in T : v[t] \in Nat, NEW x \in T
    PROVE  Climb(v, T \ {x}) <= Climb(v, T)
<1> DEFINE U == T \ {x}
<1>1. U \in SUBSET Nat /\ IsFiniteSet(U) /\ (\A t \in U : v[t] \in Nat) /\ U \in SUBSET T
    BY FS_RemoveElement
<1>2. Climb(v, T) = Rises(v, T)[x] + SumOver(Rises(v, T), U)
    <2> DEFINE F == Rises(v, T)
    <2>1. \A t \in T : F[t] \in Nat
        BY RisesCount
    <2> HIDE DEF F
    <2>2. SumOver(F, T) = F[x] + SumOver(F, T \ {x})
        BY <2>1, SumOut
    <2> QED
        BY <2>2 DEF Climb, F
<1>3. /\ \A t \in T : RiseAt(v, T, t) \in Nat /\ Rises(v, T)[t] = RiseAt(v, T, t)
      /\ \A t \in U : RiseAt(v, U, t) \in Nat /\ Rises(v, U)[t] = RiseAt(v, U, t)
    BY <1>1, RisesCount
\* Whose predecessor stays rises the same.
<1>4. ASSUME NEW t \in U, ~Follows(T, x, t)
      PROVE  RiseAt(v, U, t) = RiseAt(v, T, t)
    <2>1. t \in T /\ t # x /\ x \in Nat /\ t \in Nat
        OBVIOUS
    <2>2. CASE \E u \in T : u < t
        <3>1. PICK u \in T : Follows(T, u, t)
            BY <2>1, <2>2, RiseIs
        <3>2. u # x
            BY <1>4, <3>1
        <3>3. Follows(U, u, t)
            BY <3>1, <3>2, <2>1 DEF Follows
        <3> HIDE DEF U
        <3>4. RiseAt(v, T, t) = Up(v[u], v[t])
            BY <2>1, <3>1, RiseIs
        <3>5. RiseAt(v, U, t) = Up(v[u], v[t])
            BY <1>1, <1>4, <3>3, RiseIs
        <3> QED
            BY <3>4, <3>5
    <2>3. CASE \A u \in T : ~(u < t)
        <3>1. \A u \in U : ~(u < t)
            BY <2>3
        <3> HIDE DEF U
        <3>2. RiseAt(v, T, t) = 0
            BY <2>1, <2>3, RiseIs
        <3>3. RiseAt(v, U, t) = 0
            BY <1>1, <1>4, <3>1, RiseIs
        <3> QED
            BY <3>2, <3>3
    <2> QED
        BY <2>2, <2>3
<1>5. CASE \E n \in T : Follows(T, x, n)
    <2>1. PICK n \in T : Follows(T, x, n)
        BY <1>5
    <2>2. n \in U /\ x < n /\ \A w \in T : w < n => w <= x
        BY <2>1 DEF Follows
    <2>3. \A t \in U : t # n => ~Follows(T, x, t)
        <3> SUFFICES ASSUME NEW t \in U, t # n, Follows(T, x, t) PROVE FALSE
            OBVIOUS
        <3>1. /\ x < t /\ \A w \in T : w < t => w <= x
              /\ t \in T /\ t \in Nat /\ n \in Nat /\ x \in Nat
            BY DEF Follows
        <3>2. ~(n < t) /\ ~(t < n)
            BY <2>2, <3>1
        <3> QED
            BY <3>1, <3>2
    <2> DEFINE F == Rises(v, T)
               G == Rises(v, U)
               V == U \ {n}
    <2>4. \A t \in V : F[t] = G[t]
        BY <1>3, <1>4, <2>3
    <2>5. F[x] = RiseAt(v, T, x) /\ F[n] = RiseAt(v, T, n) /\ G[n] = RiseAt(v, U, n)
        BY <1>3, <2>2
    <2>6. RiseAt(v, T, n) = Up(v[x], v[n])
        BY <2>1, RiseIs
    <2>7. RiseAt(v, U, n) <= RiseAt(v, T, x) + RiseAt(v, T, n)
        <3>1. CASE \E u \in T : u < x
            <4>1. PICK u \in T : Follows(T, u, x)
                BY <3>1, RiseIs
            <4>2. RiseAt(v, T, x) = Up(v[u], v[x])
                BY <4>1, RiseIs
            <4>3. Follows(U, u, n)
                <5>1. u \in U /\ u < n /\ u < x /\ \A w \in T : w < x => w <= u
                    BY <2>2, <4>1 DEF Follows
                <5>2. ASSUME NEW w \in U, w < n PROVE w <= u
                    <6>1. w \in T /\ w # x /\ w \in Nat /\ x \in Nat /\ w <= x
                        BY <2>2, <5>2
                    <6>2. w < x
                        BY <6>1
                    <6> QED
                        BY <5>1, <6>1, <6>2
                <5> QED
                    BY <2>2, <5>1, <5>2 DEF Follows
            <4> HIDE DEF U
            <4>4. RiseAt(v, U, n) = Up(v[u], v[n])
                BY <1>1, <2>2, <4>3, RiseIs
            <4>5. v[u] \in Nat /\ v[x] \in Nat /\ v[n] \in Nat
                OBVIOUS
            <4> QED
                BY <2>6, <4>2, <4>4, <4>5 DEF Up
        <3>2. CASE \A u \in T : ~(u < x)
            <4>1. \A u \in U : ~(u < n)
                <5> SUFFICES ASSUME NEW u \in U, u < n PROVE FALSE
                    OBVIOUS
                <5>1. u \in T /\ u # x /\ u \in Nat /\ x \in Nat /\ u <= x
                    BY <2>2
                <5>2. u < x
                    BY <5>1
                <5> QED
                    BY <3>2, <5>1, <5>2
            <4> HIDE DEF U
            <4>2. RiseAt(v, U, n) = 0
                BY <1>1, <2>2, <4>1, RiseIs
            <4>3. RiseAt(v, T, x) \in Nat /\ RiseAt(v, T, n) \in Nat
                BY <1>3
            <4> QED
                BY <4>2, <4>3
        <3> QED
            BY <3>1, <3>2
    <2>8. SumOver(F, U) = F[n] + SumOver(F, V)
        <3>1. \A t \in U : F[t] \in Nat
            BY <1>1, <1>3
        <3> HIDE DEF F, U
        <3> QED
            BY <1>1, <2>2, <3>1, SumOut
    <2>9. SumOver(G, U) = G[n] + SumOver(G, V) /\ SumOver(G, V) \in Nat
        <3>1. \A t \in U : G[t] \in Nat
            BY <1>3
        <3> HIDE DEF G, U
        <3> QED
            BY <1>1, <2>2, <3>1, SumOut
    <2>10. SumOver(F, V) = SumOver(G, V)
        BY <2>4, SumSame
    <2>11. Climb(v, U) = G[n] + SumOver(F, V)
        BY <2>9, <2>10 DEF Climb
    <2>12. Climb(v, T) = F[x] + (F[n] + SumOver(F, V))
        BY <1>2, <2>8
    <2>13. /\ F[x] \in Nat /\ F[n] \in Nat /\ G[n] \in Nat /\ SumOver(F, V) \in Nat
           /\ G[n] <= F[x] + F[n]
        BY <1>3, <2>2, <2>5, <2>7, <2>9, <2>10
    <2> HIDE DEF F, G, V
    <2>14. Climb(v, U) <= Climb(v, T)
        <3> DEFINE r == SumOver(F, V)
        <3>1. r \in Nat /\ Climb(v, U) = G[n] + r /\ Climb(v, T) = F[x] + (F[n] + r)
            BY <2>11, <2>12, <2>13
        <3> HIDE DEF r
        <3> QED
            BY <2>13, <3>1
    <2> QED
        BY <2>14
<1>6. CASE ~\E n \in T : Follows(T, x, n)
    <2>1. \A t \in U : Rises(v, U)[t] = Rises(v, T)[t]
        BY <1>1, <1>3, <1>4, <1>6
    <2>2. SumOver(Rises(v, U), U) = SumOver(Rises(v, T), U)
        BY <2>1, SumSame
    <2>3. Climb(v, U) = SumOver(Rises(v, T), U)
        BY <2>2 DEF Climb
    <2>4. Climb(v, U) \in Nat /\ Rises(v, T)[x] \in Nat
        BY <1>1, <1>3, RisesCount
    <2> HIDE DEF U
    <2>5. Climb(v, U) <= Climb(v, T)
        <3> DEFINE r == SumOver(Rises(v, T), U)
        <3>1. Climb(v, U) = r /\ Climb(v, T) = Rises(v, T)[x] + r
            BY <1>2, <2>3
        <3> HIDE DEF r
        <3> QED
            BY <2>4, <3>1
    <2> QED
        BY <2>5 DEF U
<1> QED
    BY <1>5, <1>6

\* With fewer readings a meter never climbed more.
LEMMA ClimbFewer ==
    ASSUME NEW T \in SUBSET Nat, IsFiniteSet(T), NEW v, \A t \in T : v[t] \in Nat,
           NEW U \in SUBSET T
    PROVE  Climb(v, U) <= Climb(v, T)
<1> DEFINE Good == {D \in SUBSET T : Climb(v, T \ D) <= Climb(v, T)}
<1>0. \A D \in SUBSET T : /\ T \ D \in SUBSET Nat /\ IsFiniteSet(T \ D)
                          /\ \A t \in T \ D : v[t] \in Nat
    BY FS_Subset
<1>1. \A D \in SUBSET T : Climb(v, T \ D) \in Nat
    <2> SUFFICES ASSUME NEW D \in SUBSET T PROVE Climb(v, T \ D) \in Nat
        OBVIOUS
    <2> QED
        BY <1>0, RisesCount
<1>2. ASSUME NEW D \in SUBSET T, \A E \in SUBSET D : E # D => E \in Good
      PROVE  Climb(v, T \ D) <= Climb(v, T)
    <2>1. CASE D = {}
        <3>1. T \ D = T
            BY <2>1
        <3>2. Climb(v, T) \in Nat
            BY <1>1, <3>1
        <3> QED
            BY <3>1, <3>2
    <2>2. CASE D # {}
        <3>1. PICK x \in D : TRUE
            BY <2>2
        <3> DEFINE E == D \ {x}
                   V == T \ E
        <3>2. E \in Good
            BY <1>2, <3>1
        <3>3. Climb(v, V) <= Climb(v, T)
            BY <3>2
        <3>4. x \in V /\ V \ {x} = T \ D /\ E \in SUBSET T
            BY <3>1
        <3>5. V \in SUBSET Nat /\ IsFiniteSet(V) /\ \A t \in V : v[t] \in Nat
            BY <1>0, <3>4
        <3> HIDE DEF V, E, Good
        <3>6. Climb(v, V \ {x}) <= Climb(v, V)
            BY <3>4, <3>5, ClimbRemoves
        <3>7. Climb(v, V \ {x}) = Climb(v, T \ D)
            BY <3>4
        <3>8. Climb(v, V) \in Nat /\ Climb(v, T \ D) \in Nat /\ Climb(v, T) \in Nat
            BY <1>1, <3>5, RisesCount
        <3> QED
            BY <3>3, <3>6, <3>7, <3>8
    <2> QED
        BY <2>1, <2>2
<1>3. ASSUME NEW D \in SUBSET T, \A E \in SUBSET D : E # D => E \in Good
      PROVE  D \in Good
    BY <1>2, <1>3
<1> HIDE DEF Good
<1>4. SUBSET T \subseteq Good
    BY <1>3, SmallestOut
<1>5. T \ U \in Good
    BY <1>4
<1>6. Climb(v, T \ (T \ U)) <= Climb(v, T)
    BY <1>5 DEF Good
<1>7. T \ (T \ U) = U
    OBVIOUS
<1> QED
    BY <1>6, <1>7

\* The last reading before a month.
Prior(C, h, m) == {t \in C : h[t] < m}
LastBefore(C, h, m) == {t \in Prior(C, h, m) : \A u \in Prior(C, h, m) : u <= t}

LEMMA ClimbMonth ==
    ASSUME NEW C \in SUBSET Nat, IsFiniteSet(C), NEW v, \A t \in C : v[t] \in Nat,
           NEW h, \A t \in C : h[t] \in Nat,
           \A t, u \in C : t <= u => h[t] <= h[u],
           NEW m \in Nat
    PROVE  Climb(v, LastBefore(C, h, m) \cup Inside(C, h, m))
              = SumOver(Rises(v, C), Inside(C, h, m))
<1> DEFINE I == Inside(C, h, m)
           B == LastBefore(C, h, m)
           W == B \cup I
           F == Rises(v, W)
           G == Rises(v, C)
<1>1. /\ \A t : t \in I <=> t \in C /\ h[t] = m
      /\ \A t : t \in B <=> t \in C /\ h[t] < m /\ \A u \in C : h[u] < m => u <= t
    BY DEF Inside, LastBefore, Prior
<1>2. /\ I \in SUBSET C /\ B \in SUBSET C /\ W \in SUBSET C /\ W \in SUBSET Nat
      /\ IsFiniteSet(I) /\ IsFiniteSet(B) /\ IsFiniteSet(W)
    <2>1. I \in SUBSET C /\ B \in SUBSET C /\ W \in SUBSET C /\ W \in SUBSET Nat
        BY <1>1
    <2> HIDE DEF I, B, W
    <2> QED
        BY <2>1, FS_Subset
<1>3. \A t \in W : v[t] \in Nat
    BY <1>2
<1>4. /\ \A t \in W : F[t] = RiseAt(v, W, t) /\ F[t] \in Nat
      /\ \A t \in C : G[t] = RiseAt(v, C, t) /\ G[t] \in Nat
    <2> HIDE DEF W
    <2> QED
        BY <1>2, <1>3, RisesCount
<1> HIDE DEF I, B
<1>5. B \cap I = {}
    BY <1>1
<1>6. ASSUME NEW t \in I PROVE RiseAt(v, W, t) = RiseAt(v, C, t)
    <2>0. t \in C /\ t \in W /\ h[t] = m /\ t \in Nat
        BY <1>1
    <2>1. CASE \E u \in C : u < t
        <3>1. PICK p \in C : Follows(C, p, t)
            BY <2>0, <2>1, RiseIs
        <3>2. p < t /\ p \in Nat /\ \A w \in C : w < t => w <= p
            BY <3>1 DEF Follows
        <3>3. p \in W
            <4>1. h[p] <= m /\ h[p] \in Nat
                BY <2>0, <3>2
            <4>2. CASE h[p] = m
                BY <1>1, <4>2
            <4>3. CASE h[p] < m
                <5>1. ASSUME NEW u \in C, h[u] < m PROVE u <= p
                    <6>1. u \in Nat /\ h[u] \in Nat
                        OBVIOUS
                    <6>2. ~(t <= u)
                        BY <2>0, <5>1, <6>1
                    <6>3. u < t
                        BY <2>0, <6>1, <6>2
                    <6> QED
                        BY <3>2, <6>3
                <5> QED
                    BY <1>1, <4>3, <5>1
            <4> QED
                BY <4>1, <4>2, <4>3
        <3>4. Follows(W, p, t)
            BY <1>2, <2>0, <3>2, <3>3 DEF Follows
        <3> HIDE DEF W
        <3>5. RiseAt(v, C, t) = Up(v[p], v[t])
            BY <2>0, <3>1, RiseIs
        <3>6. RiseAt(v, W, t) = Up(v[p], v[t])
            BY <1>2, <2>0, <3>4, RiseIs
        <3> QED
            BY <3>5, <3>6
    <2>2. CASE \A u \in C : ~(u < t)
        <3>1. \A u \in W : ~(u < t)
            BY <1>2, <2>2
        <3> HIDE DEF W
        <3>2. RiseAt(v, C, t) = 0
            BY <2>0, <2>2, RiseIs
        <3>3. RiseAt(v, W, t) = 0
            BY <1>2, <2>0, <3>1, RiseIs
        <3> QED
            BY <3>2, <3>3
    <2> QED
        BY <2>1, <2>2
<1>7. ASSUME NEW b \in B PROVE RiseAt(v, W, b) = 0 /\ B = {b}
    <2>0. b \in C /\ h[b] < m /\ b \in Nat /\ h[b] \in Nat /\ \A u \in C : h[u] < m => u <= b
        BY <1>1
    <2>1. \A u \in B : u = b
        BY <1>1, <2>0
    <2>2. ASSUME NEW u \in I PROVE ~(u < b)
        <3>1. u \in C /\ h[u] = m /\ u \in Nat
            BY <1>1
        <3> SUFFICES ASSUME u < b PROVE FALSE
            OBVIOUS
        <3>2. h[u] <= h[b]
            BY <2>0, <3>1
        <3> QED
            BY <2>0, <3>1, <3>2
    <2>3. \A u \in W : ~(u < b)
        BY <2>0, <2>1, <2>2
    <2>4. b \in W
        OBVIOUS
    <2> HIDE DEF W
    <2>5. RiseAt(v, W, b) = 0
        BY <1>2, <2>3, <2>4, RiseIs
    <2> QED
        BY <2>1, <2>5
<1>8. SumOver(F, B) = 0
    <2>1. CASE B = {}
        BY <2>1, SumStep, <1>2
    <2>2. CASE B # {}
        <3>1. PICK b \in B : TRUE
            BY <2>2
        <3>2. F[b] = 0 /\ B = {b}
            BY <1>4, <1>7, <3>1
        <3>3. \A t \in B : F[t] \in Nat
            BY <1>4
        <3> HIDE DEF F
        <3>4. SumOver(F, B) = F[b] + SumOver(F, B \ {b})
            BY <1>2, <3>1, <3>3, SumOut
        <3>5. SumOver(F, B \ {b}) = 0
            <4>1. B \ {b} = {}
                BY <3>2
            <4> QED
                BY <1>2, <4>1, SumStep
        <3> QED
            BY <3>2, <3>4, <3>5
    <2> QED
        BY <2>1, <2>2
<1>9. SumOver(F, I) = SumOver(G, I)
    <2>1. \A t \in I : F[t] = G[t]
        BY <1>2, <1>4, <1>6
    <2> QED
        BY <2>1, SumSame
<1>10. SumOver(F, W) = SumOver(F, B) + SumOver(F, I)
    <2>1. \A t \in B \cup I : F[t] \in Nat
        BY <1>4
    <2> HIDE DEF F
    <2> QED
        BY <1>2, <1>5, <2>1, SumApart
<1>11. SumOver(G, I) \in Nat
    <2>1. \A t \in C : G[t] \in Nat
        BY <1>4
    <2> QED
        BY <1>2, <2>1, SumNat
<1>12. SumOver(F, W) = SumOver(G, I)
    BY <1>8, <1>9, <1>10, <1>11
<1> QED
    BY <1>12 DEF Climb, I, B

\* In g, what a meter climbed month by month: inside the month, and up to it
\* from the last reading before.
ByMonth(g, M, C, h, v) ==
    \A m \in M : g[m] = IF Inside(C, h, m) = {} THEN 0
                       ELSE Climb(v, LastBefore(C, h, m) \cup Inside(C, h, m))

\* The months of a meter add up to what it climbed.
LEMMA MonthsClimb ==
    ASSUME NEW C, C \subseteq Nat, IsFiniteSet(C), NEW v, \A t \in C : v[t] \in Nat,
           NEW M, M \subseteq Nat, IsFiniteSet(M),
           NEW h, \A t \in C : h[t] \in M,
           \A t, u \in C : t <= u => h[t] <= h[u],
           NEW g, ByMonth(g, M, C, h, v)
    PROVE  SumOver(g, M) = Climb(v, C)
<1> DEFINE F == Rises(v, C)
<1>0. \A m \in M : g[m] = IF Inside(C, h, m) = {} THEN 0
                          ELSE Climb(v, LastBefore(C, h, m) \cup Inside(C, h, m))
    BY DEF ByMonth
<1>1. \A t \in C : F[t] \in Nat
    BY RisesCount
<1>2. ASSUME NEW m \in M PROVE g[m] = SumOver(F, Inside(C, h, m))
    <2>1. CASE Inside(C, h, m) = {}
        <3>1. SumOver(F, {}) = 0
            BY SumStep
        <3> QED
            BY <1>0, <2>1, <3>1
    <2>2. CASE Inside(C, h, m) # {}
        <3>1. \A t \in C : h[t] \in Nat
            OBVIOUS
        <3>2. m \in Nat
            OBVIOUS
        <3> QED
            BY <1>0, <2>2, <3>1, <3>2, ClimbMonth
    <2> QED
        BY <2>1, <2>2
<1>3. \A m \in M : g[m] = SumOver(F, Inside(C, h, m))
    BY <1>2
<1>4. SumsOf(g, M, F, C, h)
    BY <1>3 DEF SumsOf
<1> HIDE DEF F
<1>5. SumOver(g, M) = SumOver(F, C)
    <2>1. IsFiniteSet(C) /\ IsFiniteSet(M)
        OBVIOUS
    <2> QED
        BY ONLY <1>1, <1>4, <2>1, SumFibres
<1> QED
    BY <1>5 DEF Climb, F

\* What the meter shows now, after every reading: one page more is one more.
LEMMA ClimbTop ==
    ASSUME NEW T \in SUBSET Nat, IsFiniteSet(T), NEW last \in Nat, \A t \in T : t < last,
           NEW v, NEW w, NEW more \in Nat,
           \A t \in T : v[t] \in Nat /\ w[t] = v[t],
           v[last] \in Nat, w[last] \in Nat, w[last] <= v[last] + more
    PROVE  Climb(w, T \cup {last}) <= Climb(v, T \cup {last}) + more
<1> DEFINE U == T \cup {last}
           F == Rises(v, U)
           G == Rises(w, U)
<1>1. /\ U \in SUBSET Nat /\ IsFiniteSet(U) /\ last \in U /\ U \ {last} = T /\ T \in SUBSET U
      /\ \A t \in U : v[t] \in Nat /\ w[t] \in Nat
    <2>1. U \in SUBSET Nat /\ last \in U /\ T \in SUBSET U /\ \A t \in U : v[t] \in Nat /\ w[t] \in Nat
        OBVIOUS
    <2>2. IsFiniteSet(U)
        BY FS_AddElement
    <2>3. last \notin T
        OBVIOUS
    <2>4. U \ {last} = T
        BY <2>3
    <2> QED
        BY <2>1, <2>2, <2>4
<1> HIDE DEF U
<1>2. /\ \A t \in U : F[t] = RiseAt(v, U, t) /\ F[t] \in Nat
      /\ \A t \in U : G[t] = RiseAt(w, U, t) /\ G[t] \in Nat
    BY <1>1, RisesCount
<1>3. ASSUME NEW t \in T PROVE G[t] = F[t]
    <2>1. t \in U /\ t # last /\ t < last
        BY <1>1
    <2>2. CASE \E u \in U : u < t
        <3>1. PICK u \in U : Follows(U, u, t)
            BY <1>1, <2>1, <2>2, RiseIs
        <3>2. u \in T
            <4>1. u < t /\ u \in Nat /\ t \in Nat
                BY <1>1, <3>1 DEF Follows
            <4>2. u # last
                BY <2>1, <4>1
            <4> QED
                BY <1>1, <4>2
        <3>3. RiseAt(v, U, t) = Up(v[u], v[t])
            BY <1>1, <2>1, <3>1, RiseIs
        <3>4. RiseAt(w, U, t) = Up(w[u], w[t])
            BY <1>1, <2>1, <3>1, RiseIs
        <3> QED
            BY <1>2, <2>1, <3>2, <3>3, <3>4
    <2>3. CASE \A u \in U : ~(u < t)
        <3>1. RiseAt(v, U, t) = 0
            BY <1>1, <2>1, <2>3, RiseIs
        <3>2. RiseAt(w, U, t) = 0
            BY <1>1, <2>1, <2>3, RiseIs
        <3> QED
            BY <1>2, <2>1, <3>1, <3>2
    <2> QED
        BY <2>2, <2>3
<1>4. G[last] <= F[last] + more
    <2>1. CASE \E u \in U : u < last
        <3>1. PICK u \in U : Follows(U, u, last)
            BY <1>1, <2>1, RiseIs
        <3>2. u \in T
            BY <1>1, <3>1 DEF Follows
        <3>3. RiseAt(v, U, last) = Up(v[u], v[last])
            BY <1>1, <3>1, RiseIs
        <3>4. RiseAt(w, U, last) = Up(w[u], w[last])
            BY <1>1, <3>1, RiseIs
        <3>5. Up(v[u], w[last]) <= Up(v[u], v[last]) + more
            <4>1. v[u] \in Nat /\ v[last] \in Nat /\ w[last] \in Nat
                BY <3>2
            <4> QED
                BY <4>1 DEF Up
        <3> QED
            BY <1>1, <1>2, <3>2, <3>3, <3>4, <3>5
    <2>2. CASE \A u \in U : ~(u < last)
        <3>1. RiseAt(v, U, last) = 0
            BY <1>1, <2>2, RiseIs
        <3>2. RiseAt(w, U, last) = 0
            BY <1>1, <2>2, RiseIs
        <3> QED
            BY <1>1, <1>2, <3>1, <3>2
    <2> QED
        BY <2>1, <2>2
<1> HIDE DEF F, G
<1>5. SumOver(F, U) = F[last] + SumOver(F, T) /\ SumOver(F, T) \in Nat
    BY <1>1, <1>2, SumOut
<1>6. SumOver(G, U) = G[last] + SumOver(G, T)
    BY <1>1, <1>2, SumOut
<1>7. SumOver(F, T) = SumOver(G, T)
    BY <1>3, SumSame
<1>8. SumOver(G, U) <= SumOver(F, U) + more
    <2> DEFINE r == SumOver(F, T)
               f == SumOver(F, U)
               g == SumOver(G, U)
    <2>1. r \in Nat /\ f = F[last] + r /\ g = G[last] + r /\ F[last] \in Nat /\ G[last] \in Nat
        BY <1>1, <1>2, <1>5, <1>6, <1>7
    <2> HIDE DEF r, f, g
    <2>2. g <= f + more
        BY <1>4, <2>1
    <2> QED
        BY <2>2 DEF f, g
<1> QED
    BY <1>8 DEF Climb, F, G, U

\* A reading of what the meter shows: it climbed no more for that.
LEMMA ClimbRead ==
    ASSUME NEW T \in SUBSET Nat, IsFiniteSet(T), NEW at \in Nat, NEW last \in Nat, at < last,
           \A t \in T : t < at, NEW v, NEW w,
           \A t \in T : v[t] \in Nat /\ w[t] = v[t],
           v[last] \in Nat, w[last] = v[last], w[at] = v[last]
    PROVE  Climb(w, T \cup {at, last}) <= Climb(v, T \cup {last})
<1> DEFINE S == T \cup {at}
<1>1. /\ S \in SUBSET Nat /\ IsFiniteSet(S) /\ at \in S /\ S \ {at} = T /\ T \in SUBSET S
      /\ \A t \in S : w[t] \in Nat /\ t < last
    <2>1. /\ S \in SUBSET Nat /\ at \in S /\ T \in SUBSET S
          /\ \A t \in S : w[t] \in Nat /\ t < last
        OBVIOUS
    <2>2. IsFiniteSet(S)
        BY FS_AddElement
    <2>3. at \notin T
        OBVIOUS
    <2>4. S \ {at} = T
        BY <2>3
    <2> QED
        BY <2>1, <2>2, <2>4
<1> HIDE DEF S
<1> DEFINE U == S \cup {last}
           V == T \cup {last}
           G == Rises(w, U)
           H == Rises(v, V)
<1>2. /\ U \in SUBSET Nat /\ IsFiniteSet(U) /\ last \in U /\ U \ {last} = S
      /\ V \in SUBSET Nat /\ IsFiniteSet(V) /\ last \in V /\ V \ {last} = T
      /\ \A t \in U : w[t] \in Nat
      /\ \A t \in V : v[t] \in Nat
      /\ S \in SUBSET U /\ T \in SUBSET V
    <2>1. last \notin S /\ last \notin T
        BY <1>1
    <2>2. IsFiniteSet(U) /\ IsFiniteSet(V)
        BY <1>1, FS_AddElement
    <2>3. U \ {last} = S /\ V \ {last} = T
        BY <2>1
    <2> QED
        BY <1>1, <2>2, <2>3
<1> HIDE DEF U, V
<1>3. /\ \A t \in U : G[t] = RiseAt(w, U, t) /\ G[t] \in Nat
      /\ \A t \in V : H[t] = RiseAt(v, V, t) /\ H[t] \in Nat
    BY <1>2, RisesCount
<1>4. \A u : /\ u \in U <=> u \in T \/ u = at \/ u = last
             /\ u \in V <=> u \in T \/ u = last
    BY DEF U, V, S
<1>5. ASSUME NEW t \in T PROVE G[t] = H[t]
    <2>1. t \in Nat /\ t < at /\ t < last /\ t \in U /\ t \in V
        BY <1>4
    <2>2. ASSUME NEW u, u < t, u \in U \/ u \in V PROVE u \in T
        <3>1. u # at /\ u # last
            BY <2>1, <2>2
        <3> QED
            BY <1>4, <2>2, <3>1
    <2>3. CASE \E u \in U : u < t
        <3>1. PICK u \in U : Follows(U, u, t)
            BY <1>2, <2>1, <2>3, RiseIs
        <3>2. u < t /\ u \in T /\ \A x \in U : x < t => x <= u
            BY <2>2, <3>1 DEF Follows
        <3>3. Follows(V, u, t)
            BY <1>4, <2>1, <2>2, <3>2 DEF Follows
        <3>4. RiseAt(w, U, t) = Up(w[u], w[t])
            BY <1>2, <2>1, <3>1, RiseIs
        <3>5. RiseAt(v, V, t) = Up(v[u], v[t])
            BY <1>2, <2>1, <3>3, RiseIs
        <3> QED
            BY <1>3, <2>1, <3>2, <3>4, <3>5
    <2>4. CASE \A u \in U : ~(u < t)
        <3>1. \A u \in V : ~(u < t)
            BY <1>4, <2>2, <2>4
        <3>2. RiseAt(w, U, t) = 0
            BY <1>2, <2>1, <2>4, RiseIs
        <3>3. RiseAt(v, V, t) = 0
            BY <1>2, <2>1, <3>1, RiseIs
        <3> QED
            BY <1>3, <2>1, <3>2, <3>3
    <2> QED
        BY <2>3, <2>4
<1>6. G[last] = 0
    <2>1. Follows(U, at, last)
        <3>1. ASSUME NEW x \in U, x < last PROVE x <= at
            <4>1. x # last
                BY <3>1
            <4>2. x \in T \/ x = at
                BY <1>4, <4>1
            <4>3. CASE x \in T
                <5>1. x < at /\ x \in Nat
                    BY <4>3
                <5> QED
                    BY <5>1
            <4> QED
                BY <4>2, <4>3
        <3> QED
            BY <1>4, <3>1 DEF Follows
    <2>2. RiseAt(w, U, last) = Up(w[at], w[last])
        BY <1>2, <2>1, RiseIs
    <2>3. Up(w[at], w[last]) = 0
        BY DEF Up
    <2> QED
        BY <1>2, <1>3, <2>2, <2>3
<1>7. G[at] = H[last]
    <2>0. at \in U /\ last \in V
        BY <1>4
    <2>1. CASE \E u \in U : u < at
        <3>1. PICK u \in U : Follows(U, u, at)
            BY <1>2, <2>0, <2>1, RiseIs
        <3>2. u < at /\ \A x \in U : x < at => x <= u
            BY <3>1 DEF Follows
        <3>3. u \in T
            BY <1>4, <3>2
        <3>4. Follows(V, u, last)
            <4>1. ASSUME NEW x \in V, x < last PROVE x <= u
                <5>1. x \in T
                    BY <1>4, <4>1
                <5> QED
                    BY <1>4, <3>2, <5>1
            <4>2. u < last
                BY <3>3
            <4> QED
                BY <1>4, <3>3, <4>1, <4>2 DEF Follows
        <3>5. RiseAt(w, U, at) = Up(w[u], w[at])
            BY <1>2, <2>0, <3>1, RiseIs
        <3>6. RiseAt(v, V, last) = Up(v[u], v[last])
            BY <1>2, <3>4, RiseIs
        <3> QED
            BY <1>3, <2>0, <3>3, <3>5, <3>6
    <2>2. CASE \A u \in U : ~(u < at)
        <3>1. \A u \in V : ~(u < last)
            <4>1. \A u \in T : FALSE
                BY <1>4, <2>2
            <4>2. \A u \in V : u = last
                BY <1>4, <4>1
            <4> QED
                BY <4>2
        <3>2. RiseAt(w, U, at) = 0
            BY <1>2, <2>0, <2>2, RiseIs
        <3>3. RiseAt(v, V, last) = 0
            BY <1>2, <3>1, RiseIs
        <3> QED
            BY <1>3, <2>0, <3>2, <3>3
    <2> QED
        BY <2>1, <2>2
<1> HIDE DEF G, H
<1>8. SumOver(G, U) = G[last] + SumOver(G, S)
    BY <1>2, <1>3, SumOut
<1>9. SumOver(G, S) = G[at] + SumOver(G, T) /\ SumOver(G, T) \in Nat
    <2>1. \A t \in S : G[t] \in Nat
        BY <1>2, <1>3
    <2> QED
        BY <1>1, <2>1, SumOut
<1>10. SumOver(H, V) = H[last] + SumOver(H, T)
    BY <1>2, <1>3, SumOut
<1>11. SumOver(G, T) = SumOver(H, T)
    BY <1>5, SumSame
<1>12. SumOver(G, U) <= SumOver(H, V)
    <2> DEFINE r == SumOver(G, T)
               g == SumOver(G, U)
               k == SumOver(H, V)
    <2>1. r \in Nat /\ H[last] \in Nat /\ g = 0 + (H[last] + r) /\ k = H[last] + r
        BY <1>2, <1>3, <1>6, <1>7, <1>8, <1>9, <1>10, <1>11
    <2> HIDE DEF r, g, k
    <2>2. g <= k
        BY <2>1
    <2> QED
        BY <2>2 DEF g, k
<1>13. U = T \cup {at, last}
    BY DEF U, S
<1>14. Climb(w, U) <= Climb(v, V)
    BY <1>12 DEF Climb, G, H
<1> QED
    BY <1>13, <1>14 DEF V

\* Two sums over one set.
LEMMA SumBoth ==
    ASSUME NEW S, IsFiniteSet(S), NEW f, NEW g, NEW b,
           \A x \in S : f[x] \in Nat /\ g[x] \in Nat /\ b[x] = f[x] + g[x]
    PROVE  SumOver(b, S) = SumOver(f, S) + SumOver(g, S)
<1> DEFINE Good == {s \in SUBSET S : SumOver(b, s) = SumOver(f, s) + SumOver(g, s)}
<1>1. \A x \in S : b[x] \in Nat
    OBVIOUS
<1>2. ASSUME NEW s \in SUBSET S, NEW x \in s
      PROVE  /\ SumOver(b, s) = b[x] + SumOver(b, s \ {x})
             /\ SumOver(f, s) = f[x] + SumOver(f, s \ {x})
             /\ SumOver(g, s) = g[x] + SumOver(g, s \ {x})
             /\ SumOver(f, s \ {x}) \in Nat /\ SumOver(g, s \ {x}) \in Nat
    <2>1. IsFiniteSet(s) /\ \A y \in s : f[y] \in Nat /\ g[y] \in Nat /\ b[y] \in Nat
        BY <1>1, FS_Subset
    <2>2. SumOver(b, s) = b[x] + SumOver(b, s \ {x})
        BY <2>1, SumOut
    <2>3. SumOver(f, s) = f[x] + SumOver(f, s \ {x}) /\ SumOver(f, s \ {x}) \in Nat
        BY <2>1, SumOut
    <2>4. SumOver(g, s) = g[x] + SumOver(g, s \ {x}) /\ SumOver(g, s \ {x}) \in Nat
        BY <2>1, SumOut
    <2> QED
        BY <2>2, <2>3, <2>4
<1>3. ASSUME NEW s \in SUBSET S, \A t \in SUBSET s : t # s => t \in Good
      PROVE  SumOver(b, s) = SumOver(f, s) + SumOver(g, s)
    <2>1. CASE s = {}
        <3>1. SumOver(b, s) = 0 /\ SumOver(f, s) = 0 /\ SumOver(g, s) = 0
            BY <2>1, SumStep
        <3> QED
            BY <3>1
    <2>2. CASE s # {}
        <3>1. PICK x \in s : TRUE
            BY <2>2
        <3> DEFINE bs == SumOver(b, s)
                   fs == SumOver(f, s)
                   gs == SumOver(g, s)
                   bl == SumOver(b, s \ {x})
                   fl == SumOver(f, s \ {x})
                   gl == SumOver(g, s \ {x})
        <3>2. s \ {x} \in Good
            BY <1>3, <3>1
        <3>3. bl = fl + gl
            BY <3>2
        <3>4. /\ bs = b[x] + bl /\ fs = f[x] + fl /\ gs = g[x] + gl
              /\ fl \in Nat /\ gl \in Nat
            BY <1>2, <3>1
        <3>5. f[x] \in Nat /\ g[x] \in Nat /\ b[x] = f[x] + g[x]
            BY <3>1
        <3> HIDE DEF bs, fs, gs, bl, fl, gl
        <3>6. bs = fs + gs
            BY <3>3, <3>4, <3>5
        <3> QED
            BY <3>6 DEF bs, fs, gs
    <2> QED
        BY <2>1, <2>2
<1>4. ASSUME NEW s \in SUBSET S, \A t \in SUBSET s : t # s => t \in Good
      PROVE  s \in Good
    BY <1>3, <1>4
<1> HIDE DEF Good
<1>5. SUBSET S \subseteq Good
    BY <1>4, SmallestOut
<1>6. S \in Good
    BY <1>5
<1> QED
    BY <1>6 DEF Good

-----------------------------------------------------------------------------
(* The worker's cycle and what the deployment says of it.                  *)

\* The marker is the one that the last worker to start wrote.
MarkerIsLast == waiting = None \/ waiting = marked

LEMMA HealthTypes ==
    ASSUME Health!TypeOK, [Health!Next]_healthVars
    PROVE  Health!TypeOK'
<1> USE DataAssumption DEF Health!HealthAssumption, Health!TypeOK
<1>1. CASE Health!Tick
    BY <1>1 DEF Health!Tick
<1>2. CASE Health!Migrate \/ Health!DropConnection
    BY <1>2 DEF Health!Migrate, Health!DropConnection
<1>3. ASSUME NEW w \in Workers, Health!Start(w)
      PROVE  Health!TypeOK'
    BY <1>3 DEF Health!Start, Health!Processes
<1>4. ASSUME NEW w \in Workers, Health!EndWait(w) \/ Health!BeginCycle(w) \/ Health!Crash(w)
      PROVE  Health!TypeOK'
    BY <1>4 DEF Health!EndWait, Health!BeginCycle, Health!Crash, Health!Processes, Health!Ready,
        Health!Off, Health!JobIds
<1>5. ASSUME NEW w \in Workers, NEW ok \in BOOLEAN, Health!FinishJob(w, ok)
      PROVE  Health!TypeOK'
    <2> DEFINE j == proc[w].job
    <2>1. proc[w].at = "running" /\ proc[w] \in Health!Processes
        BY <1>5 DEF Health!FinishJob
    <2>2. j \in 1..Jobs
        BY <2>1 DEF Health!Processes, Health!JobIds
    <2>3. Health!Stamped(run[j], ok) \in Health!RunRows
        BY <2>2 DEF Health!Stamped, Health!RunRows, Health!JobIds
    <2>4. run' \in [Health!JobIds -> Health!RunRows \cup {None}]
        BY <1>5, <2>3 DEF Health!FinishJob
    <2>5. proc' \in [Workers -> Health!Processes]
        <3>1. CASE j < Jobs
            <4>1. proc' = [proc EXCEPT ![w] = [proc[w] EXCEPT !.job = j + 1]]
                BY <1>5, <3>1 DEF Health!FinishJob
            <4>2. [proc[w] EXCEPT !.job = j + 1] \in Health!Processes
                BY <2>1, <2>2, <3>1 DEF Health!Processes, Health!JobIds
            <4> QED
                BY <4>1, <4>2
        <3>2. CASE ~(j < Jobs)
            BY <1>5, <3>2 DEF Health!FinishJob, Health!Ready, Health!Processes
        <3> QED
            BY <3>1, <3>2
    <2> QED
        BY <1>5, <2>4, <2>5 DEF Health!FinishJob
<1>6. CASE UNCHANGED healthVars
    BY <1>6 DEF healthVars
<1> QED
    BY <1>1, <1>2, <1>3, <1>4, <1>5, <1>6 DEF Health!Next

\* The marker is written by a worker that starts, and by nobody else.
LEMMA MarkerStep ==
    ASSUME MarkerIsLast, [Health!Next]_healthVars
    PROVE  MarkerIsLast'
BY DEF MarkerIsLast, Health!Next, healthVars, Health!Tick, Health!Migrate, Health!DropConnection,
    Health!Start, Health!EndWait, Health!BeginCycle, Health!Crash, Health!FinishJob

\* For any jobs, workers and delays: the lock, the job rows and the processes keep
\* their types, and the marker is the one the last worker to start wrote.
THEOREM HealthInvariant == Health!Spec => [](Health!TypeOK /\ MarkerIsLast)
<1>1. Health!Init => Health!TypeOK /\ MarkerIsLast
    BY DataAssumption DEF Health!Init, Health!TypeOK, MarkerIsLast, Health!HealthAssumption,
        Health!Off, Health!Processes
<1>2. Health!TypeOK /\ MarkerIsLast /\ [Health!Next]_healthVars
      => (Health!TypeOK /\ MarkerIsLast)'
    BY HealthTypes, MarkerStep
<1> QED
    BY <1>1, <1>2, PTL DEF Health!Spec, Health!vars, healthVars

\* For any jobs, workers and delays: once no job has succeeded for the threshold and
\* the last worker's start budget is spent, the deployment does not read as healthy
\* (worker_health).
THEOREM SicknessSeen == Health!Spec => []Health!SickIsSeen
<1>1. Health!TypeOK /\ MarkerIsLast => Health!SickIsSeen
    <2> SUFFICES ASSUME Health!TypeOK, MarkerIsLast, Health!DeadFor(StaleAfter),
                        marked = None \/ clock > marked + SchemaWait + Grace
                 PROVE  Health!Health = "stale"
        BY DEF Health!SickIsSeen
    <2>1. ~Health!Believed
        BY DataAssumption DEF Health!Believed, MarkerIsLast, Health!TypeOK, Health!HealthAssumption
    <2>2. PICK j \in Health!Known : Health!Overdue(j)
        BY DEF Health!DeadFor, Health!Overdue
    <2> QED
        BY <2>1, <2>2 DEF Health!Health
<1> QED
    BY <1>1, HealthInvariant, PTL

-----------------------------------------------------------------------------
(* The monthly report.                                                     *)

\* A worker that claimed the month and has not yet let go of it.
Holds(w, n) == sending[w] # None /\ sending[w].month = n /\ sending[w].step # "claim"

\* A month is held by one worker at most, which holds its claim, and it has
\* not been reported; a month without a claim was not reported either.
OneHolder ==
    /\ \A w \in Workers, n \in Monthly!Months :
          Holds(w, n) => n \in claimed /\ sent[n] = 0
    /\ \A w, v \in Workers, n \in Monthly!Months : Holds(w, n) /\ Holds(v, n) => w = v
    /\ \A n \in Monthly!Months : sent[n] <= 1 /\ (n \notin claimed => sent[n] = 0)
    /\ \A w \in Workers, n \in Monthly!Months :
          Holds(w, n) /\ sending[w].step = "release" => n \in failed

\* The send day of a month has come and a check was completed on it.
Checked(n) ==
    \/ n < today.month
    \/ /\ n = today.month
       /\ \/ today.day > Monthly!SendDay(n)
          \/ today.day = Monthly!SendDay(n) /\ today.checked

\* A month that went well is claimed once its day was checked, and what is
\* claimed is sent or on its way.
NoneSkipped ==
    /\ today.day <= Lengths[today.month]
    /\ \A n \in Monthly!Months \ (missed \cup failed) :
          /\ Checked(n) => n \in claimed
          /\ n \in claimed => sent[n] = 1 \/ \E w \in Workers : Holds(w, n)

LEMMA MonthsNumbered ==
    /\ Len(Lengths) \in Nat \ {0} /\ Monthly!Months = 1..Len(Lengths)
    /\ Monthly!Cardinality(Monthly!Months) = Len(Lengths)
    /\ \A n \in Monthly!Months : Lengths[n] \in 1..31 /\ Monthly!SendDay(n) \in 1..Lengths[n]
<1>1. Len(Lengths) \in Nat \ {0} /\ Monthly!Months = 1..Len(Lengths)
    BY DataAssumption DEF Monthly!ReportAssumption, Monthly!Months
<1>2. Cardinality(1..Len(Lengths)) = Len(Lengths)
    BY <1>1, FS_Interval
<1>3. Monthly!Cardinality(Monthly!Months) = Cardinality(Monthly!Months)
    BY DEF Monthly!Cardinality, Cardinality
<1>4. ASSUME NEW n \in Monthly!Months
      PROVE  Lengths[n] \in 1..31 /\ Monthly!SendDay(n) \in 1..Lengths[n]
    <2>1. Lengths[n] \in 1..31 /\ Wanted \in Nat \ {0}
        <3>1. Lengths \in Seq(1..31) /\ Wanted \in Nat \ {0}
            BY DataAssumption DEF Monthly!ReportAssumption
        <3>2. n \in 1..Len(Lengths)
            BY <1>1
        <3> DEFINE S == 1..31
        <3> HIDE DEF S
        <3>3. Lengths \in Seq(S)
            BY <3>1 DEF S
        <3>4. Lengths[n] \in S
            BY <3>2, <3>3
        <3> QED
            BY <3>1, <3>4 DEF S
    <2> QED
        BY <2>1 DEF Monthly!SendDay
<1> QED
    BY <1>1, <1>2, <1>3, <1>4

LEMMA MonthlyTypes ==
    ASSUME Monthly!TypeOK, NoneSkipped, [Monthly!Next]_monthlyVars
    PROVE  Monthly!TypeOK' /\ today'.day <= Lengths[today'.month]
<1> USE DEF Monthly!TypeOK, NoneSkipped
<1>1. ASSUME NEW w \in Workers, Monthly!CheckIdle(w)
      PROVE  Monthly!TypeOK' /\ today'.day <= Lengths[today'.month]
    BY <1>1 DEF Monthly!CheckIdle
<1>2. ASSUME NEW w \in Workers, Monthly!CheckDue(w)
      PROVE  Monthly!TypeOK' /\ today'.day <= Lengths[today'.month]
    BY <1>2 DEF Monthly!CheckDue, Monthly!Sendings
<1>3. ASSUME NEW w \in Workers, sending[w] # None,
             Monthly!Claim(w) \/ Monthly!Deliver(w) \/ Monthly!Release(w) \/ Monthly!Die(w)
      PROVE  Monthly!TypeOK' /\ today'.day <= Lengths[today'.month]
    <2>1. /\ sending[w] \in Monthly!Sendings /\ sending[w].month \in Monthly!Months
          /\ sent[sending[w].month] \in Nat
        BY <1>3 DEF Monthly!Sendings
    <2>2. \A s \in {"send", "release"} : [sending[w] EXCEPT !.step = s] \in Monthly!Sendings
        BY <2>1 DEF Monthly!Sendings
    <2>3. CASE Monthly!Claim(w)
        BY <2>1, <2>2, <2>3 DEF Monthly!Claim
    <2>4. CASE Monthly!Deliver(w)
        BY <2>1, <2>2, <2>4 DEF Monthly!Deliver
    <2>5. CASE Monthly!Release(w) \/ Monthly!Die(w)
        BY <2>1, <2>5 DEF Monthly!Release, Monthly!Die
    <2> QED
        BY <1>3, <2>3, <2>4, <2>5
<1>4. CASE Monthly!MailFails \/ Monthly!MailReturns \/ Monthly!SendHour
    BY <1>4 DEF Monthly!MailFails, Monthly!MailReturns, Monthly!SendHour
<1>5. CASE Monthly!Midnight
    <2>1. today'.month \in Monthly!Months /\ today'.day \in 1..31
          /\ today'.day <= Lengths[today'.month]
        <3>1. /\ today'.month = IF Monthly!LastDay THEN today.month + 1 ELSE today.month
              /\ today'.day = IF Monthly!LastDay THEN 1 ELSE today.day + 1
              /\ ~(Monthly!LastDay /\ today.month = Len(Lengths))
            BY <1>5, MonthsNumbered DEF Monthly!Midnight
        <3>2. today.month \in 1..Len(Lengths) /\ today.day \in 1..31 /\ Len(Lengths) \in Nat
            BY MonthsNumbered
        <3>3. today'.month \in Monthly!Months
            BY <3>1, <3>2, MonthsNumbered
        <3>4. Lengths[today'.month] \in 1..31 /\ Lengths[today.month] \in 1..31
            BY <3>2, <3>3, MonthsNumbered
        <3> DEFINE m == today.month  d == today.day  l == Lengths[m]
        <3>5. CASE d = l
            <4>1. today'.month = m + 1 /\ today'.day = 1
                BY <3>1, <3>5 DEF Monthly!LastDay
            <4>2. Lengths[m + 1] \in 1..31
                BY <3>4, <4>1
            <4> QED
                BY <3>3, <4>1, <4>2
        <3>6. CASE d # l
            <4>1. today'.month = m /\ today'.day = d + 1
                BY <3>1, <3>6 DEF Monthly!LastDay
            <4>2. d \in 1..31 /\ d <= l /\ l \in 1..31
                BY <3>2, <3>4
            <4> HIDE DEF d, l
            <4>3. d + 1 \in 1..31 /\ d + 1 <= l
                BY <3>6, <4>2
            <4> QED
                BY <3>3, <4>1, <4>3 DEF l
        <3> QED
            BY <3>5, <3>6
    <2> QED
        BY <1>5, <2>1 DEF Monthly!Midnight
<1>6. CASE UNCHANGED monthlyVars
    BY <1>6 DEF monthlyVars
<1> QED
    BY <1>1, <1>2, <1>3, <1>4, <1>5, <1>6 DEF Monthly!Next, Monthly!Claim, Monthly!Deliver,
        Monthly!Release, Monthly!Die

\* The worker that moves lets go of its month, or takes one nobody holds.
LEMMA OneHolderStep ==
    ASSUME Monthly!TypeOK, OneHolder, [Monthly!Next]_monthlyVars
    PROVE  OneHolder'
<1>1. CASE UNCHANGED <<claimed, sending, sent, failed>>
    BY <1>1 DEF OneHolder, Holds
<1>2. ASSUME NEW w \in Workers, Monthly!CheckDue(w)
      PROVE  OneHolder'
    BY <1>2 DEF OneHolder, Holds, Monthly!TypeOK, Monthly!CheckDue, Monthly!Sendings
<1>3. ASSUME NEW w \in Workers, sending[w] # None,
             Monthly!Claim(w) \/ Monthly!Deliver(w) \/ Monthly!Release(w) \/ Monthly!Die(w)
      PROVE  OneHolder'
    <2> DEFINE n == sending[w].month
    <2>1. sending[w] \in Monthly!Sendings /\ n \in Monthly!Months /\ sent[n] \in Nat
        BY <1>3 DEF Monthly!Sendings, Monthly!TypeOK
    <2>2. sending \in [Workers -> Monthly!Sendings \cup {None}] /\ sent \in [Monthly!Months -> Nat]
        BY DEF Monthly!TypeOK
    <2>3. \A s \in {"send", "release"} :
             LET next == [sending[w] EXCEPT !.step = s] IN next.month = n /\ next.step = s
        BY <2>1 DEF Monthly!Sendings
    <2>4. CASE Monthly!Claim(w)
        <3>1. CASE n \in claimed
            BY <1>1, <2>2, <2>4, <3>1 DEF OneHolder, Holds, Monthly!Claim, Monthly!Won
        <3>2. CASE n \notin claimed
            <4>1. /\ claimed' = claimed \cup {n} /\ UNCHANGED <<sent, failed>>
                  /\ sending' = [sending EXCEPT ![w] = [sending[w] EXCEPT !.step = "send"]]
                BY <2>4, <3>2 DEF Monthly!Claim, Monthly!Won
            <4>2. /\ \A v \in Workers \ {w} : sending'[v] = sending[v]
                  /\ sending'[w].month = n /\ sending'[w].step = "send"
                BY <2>2, <2>3, <4>1
            <4>3. /\ \A v \in Workers \ {w} : \A m \in Monthly!Months : Holds(v, m)' = Holds(v, m)
                  /\ \A m \in Monthly!Months : Holds(w, m)' => m = n
                BY <4>2 DEF Holds
            <4>4. \A v \in Workers : ~Holds(v, n)
                BY <2>1, <3>2 DEF OneHolder
            <4> QED
                BY <3>2, <4>1, <4>2, <4>3, <4>4 DEF OneHolder
        <3> QED
            BY <3>1, <3>2
    <2>5. CASE Monthly!Deliver(w)
        <3>1. Holds(w, n) /\ sent[n] = 0
            BY <1>3, <2>1, <2>5 DEF OneHolder, Holds, Monthly!Deliver
        <3>2. CASE server
            <4>1. /\ sent' = [sent EXCEPT ![n] = @ + 1] /\ UNCHANGED <<claimed, failed>>
                  /\ sending' = [sending EXCEPT ![w] = None]
                BY <2>5, <3>2 DEF Monthly!Deliver
            <4>2. /\ \A v \in Workers \ {w} : \A m \in Monthly!Months : Holds(v, m)' = Holds(v, m)
                  /\ \A m \in Monthly!Months : ~Holds(w, m)'
                BY <2>2, <4>1 DEF Holds
            <4>3. sent'[n] = 1 /\ \A m \in Monthly!Months \ {n} : sent'[m] = sent[m]
                BY <2>1, <2>2, <3>1, <4>1
            <4>4. \A v \in Workers : sending'[v] = IF v = w THEN None ELSE sending[v]
                BY <2>2, <4>1
            <4> QED
                BY <2>1, <3>1, <4>1, <4>2, <4>3, <4>4 DEF OneHolder
        <3>3. CASE ~server
            <4>1. /\ failed' = failed \cup {n} /\ UNCHANGED <<claimed, sent>>
                  /\ sending' = [sending EXCEPT ![w] = [sending[w] EXCEPT !.step = "release"]]
                BY <2>5, <3>3 DEF Monthly!Deliver
            <4>2. /\ \A v \in Workers \ {w} : sending'[v] = sending[v]
                  /\ sending'[w].month = n /\ sending'[w].step = "release"
                BY <2>2, <2>3, <4>1
            <4>3. /\ \A v \in Workers \ {w} : \A m \in Monthly!Months : Holds(v, m)' = Holds(v, m)
                  /\ \A m \in Monthly!Months : Holds(w, m)' => m = n
                BY <4>2 DEF Holds
            <4> QED
                BY <3>1, <4>1, <4>2, <4>3 DEF OneHolder
        <3> QED
            BY <3>2, <3>3
    <2>6. CASE Monthly!Release(w) \/ Monthly!Die(w)
        BY <2>1, <2>2, <2>6 DEF OneHolder, Holds, Monthly!Release, Monthly!Die
    <2> QED
        BY <1>3, <2>4, <2>5, <2>6
<1> QED
    <2>1. CASE \/ \E w \in Workers : Monthly!CheckIdle(w)
               \/ Monthly!MailFails \/ Monthly!MailReturns \/ Monthly!SendHour \/ Monthly!Midnight
               \/ UNCHANGED monthlyVars
        BY <1>1, <2>1 DEF Monthly!CheckIdle, Monthly!MailFails, Monthly!MailReturns,
            Monthly!SendHour, Monthly!Midnight, monthlyVars
    <2> QED
        BY <1>2, <1>3, <2>1 DEF Monthly!Next, Monthly!Claim, Monthly!Deliver, Monthly!Release,
            Monthly!Die

\* A check of the send day leaves the month claimed, and a claim is let go of
\* only by a delivery that is counted or failed, or by a death.
LEMMA NoneSkippedStep ==
    ASSUME Monthly!TypeOK, OneHolder, NoneSkipped, [Monthly!Next]_monthlyVars
    PROVE  NoneSkipped'
<1>0. today'.day <= Lengths[today'.month]
    BY MonthlyTypes
<1> SUFFICES ASSUME NEW n \in Monthly!Months, n \notin missed', n \notin failed'
             PROVE  /\ Checked(n)' => n \in claimed'
                    /\ n \in claimed' => sent'[n] = 1 \/ \E w \in Workers : Holds(w, n)'
    BY <1>0 DEF NoneSkipped
<1>1. n \notin missed /\ n \notin failed
    BY DEF Monthly!Next, monthlyVars, Monthly!CheckIdle, Monthly!CheckDue, Monthly!Claim,
        Monthly!Deliver, Monthly!Release, Monthly!Die, Monthly!MailFails, Monthly!MailReturns,
        Monthly!SendHour, Monthly!Midnight
<1>2. /\ Checked(n) => n \in claimed
      /\ n \in claimed => sent[n] = 1 \/ \E w \in Workers : Holds(w, n)
    BY <1>1 DEF NoneSkipped
<1>3. CASE UNCHANGED <<claimed, sending, sent>> /\ (Checked(n)' => Checked(n))
    BY <1>2, <1>3 DEF Holds
<1>4. CASE UNCHANGED <<mail, claimed, sending, sent, failed, missed, today>>
    BY <1>3, <1>4 DEF Checked
<1>5. ASSUME NEW w \in Workers, Monthly!CheckIdle(w)
      PROVE  Checked(n)' => n \in claimed
    <2>1. /\ today.due /\ (~Monthly!Due \/ today.month \in claimed)
          /\ today'.month = today.month /\ today'.day = today.day
        BY <1>5 DEF Monthly!CheckIdle, Monthly!TypeOK
    <2>2. CASE n # today.month
        BY <1>2, <2>1, <2>2 DEF Checked
    <2>3. CASE n = today.month
        <3>1. today.day = Monthly!SendDay(n) => n \in claimed
            BY <2>1, <2>3 DEF Monthly!Due
        <3>2. CASE today.day # Monthly!SendDay(n)
            BY <1>2, <2>1, <3>2 DEF Checked, Monthly!SendDay
        <3> QED
            BY <3>1, <3>2
    <2> QED
        BY <2>2, <2>3
<1>6. CASE Monthly!Midnight
    <2> DEFINE m == today.month  d == today.day  e == Monthly!SendDay(n)
    <2>1. /\ today'.month = IF Monthly!LastDay THEN m + 1 ELSE m
          /\ today'.day = IF Monthly!LastDay THEN 1 ELSE d + 1
          /\ ~today'.checked /\ UNCHANGED <<claimed, sending, sent>>
          /\ n = m => today.checked
        BY <1>6, <1>1 DEF Monthly!Midnight
    <2>2. /\ n \in Nat /\ m \in Nat /\ d \in Nat \ {0} /\ Lengths[n] \in Nat
          /\ e \in 1..Lengths[n] /\ d <= Lengths[m]
        <3>1. m \in Monthly!Months /\ d \in 1..31 /\ d <= Lengths[m]
            BY DEF Monthly!TypeOK, NoneSkipped
        <3>2. n \in Nat /\ m \in Nat /\ Lengths[n] \in 1..31 /\ e \in 1..Lengths[n]
            BY <3>1, MonthsNumbered
        <3> QED
            BY <3>1, <3>2
    <2>3. Monthly!SendDay(n)' = e
        BY DEF Monthly!SendDay
    <2>4. Monthly!LastDay <=> d = Lengths[m]
        BY DEF Monthly!LastDay
    <2> HIDE DEF m, d, e
    <2>5. Checked(n) <=> n < m \/ (n = m /\ (d > e \/ (d = e /\ today.checked)))
        BY DEF Checked, m, d, e
    <2>6. Checked(n)' <=> n < today'.month \/ (n = today'.month /\ today'.day > e)
        BY <2>1, <2>3 DEF Checked
    <2>7. Checked(n)' => Checked(n)
        <3>1. CASE Monthly!LastDay
            <4>1. today'.month = m + 1 /\ today'.day = 1 /\ d = Lengths[m]
                BY <2>1, <2>4, <3>1
            <4>2. ~(today'.day > e)
                BY <2>2, <4>1
            <4>3. Checked(n)' <=> n < m + 1
                BY <2>6, <4>1, <4>2
            <4>4. n = m => d >= e
                BY <2>2, <4>1
            <4> QED
                BY <2>1, <2>2, <2>5, <4>3, <4>4
        <3>2. CASE ~Monthly!LastDay
            BY <2>1, <2>2, <2>5, <2>6, <3>2
        <3> QED
            BY <3>1, <3>2
    <2> QED
        BY <1>2, <2>1, <2>7 DEF Holds
<1>7. ASSUME NEW w \in Workers, Monthly!CheckDue(w)
      PROVE  /\ Checked(n)' => n \in claimed'
             /\ n \in claimed' => sent'[n] = 1 \/ \E v \in Workers : Holds(v, n)'
    <2>1. sending[w] = None /\ UNCHANGED <<today, claimed, sent>>
        BY <1>7 DEF Monthly!CheckDue
    <2>2. \A v \in Workers \ {w} : sending'[v] = sending[v]
        BY <1>7 DEF Monthly!CheckDue, Monthly!TypeOK
    <2>3. Checked(n)' = Checked(n)
        BY <2>1 DEF Checked, Monthly!SendDay
    <2>4. \A v \in Workers : Holds(v, n) => Holds(v, n)'
        BY <2>1, <2>2 DEF Holds
    <2> QED
        BY <1>2, <2>1, <2>3, <2>4
<1>8. ASSUME NEW w \in Workers, sending[w] # None,
             Monthly!Claim(w) \/ Monthly!Deliver(w) \/ Monthly!Release(w) \/ Monthly!Die(w)
      PROVE  /\ Checked(n)' => n \in claimed'
             /\ n \in claimed' => sent'[n] = 1 \/ \E v \in Workers : Holds(v, n)'
    <2> DEFINE m == sending[w].month
    <2>0. today' = today /\ sending \in [Workers -> Monthly!Sendings \cup {None}]
        BY <1>8 DEF Monthly!Claim, Monthly!Deliver, Monthly!Release, Monthly!Die, Monthly!TypeOK
    <2>1. sending[w] \in Monthly!Sendings /\ m \in Monthly!Months
          /\ sent \in [Monthly!Months -> Nat]
        BY <1>8, <2>0 DEF Monthly!Sendings, Monthly!TypeOK
    <2>2. Checked(n)' = Checked(n)
        BY <2>0 DEF Checked, Monthly!SendDay
    <2>3. \A v \in Workers \ {w} : sending'[v] = sending[v]
        BY <1>8, <2>0 DEF Monthly!Claim, Monthly!Deliver, Monthly!Release, Monthly!Die
    <2>4. \A v \in Workers \ {w} : Holds(v, n) => Holds(v, n)'
        BY <2>3 DEF Holds
    <2>5. CASE n # m
        <3>1. ~Holds(w, n) /\ (n \in claimed' <=> n \in claimed) /\ sent'[n] = sent[n]
            BY <1>8, <2>1, <2>5 DEF Holds, Monthly!Claim, Monthly!Deliver, Monthly!Release,
                Monthly!Die
        <3> QED
            BY <1>2, <2>2, <2>4, <3>1
    <2>6. CASE n = m /\ Monthly!Claim(w)
        <3>1. CASE n \in claimed
            <4>1. claimed' = claimed /\ sent' = sent /\ sending[w].step = "claim"
                BY <2>6, <3>1 DEF Monthly!Claim, Monthly!Won
            <4>2. ~Holds(w, n)
                BY <4>1 DEF Holds
            <4> QED
                BY <1>2, <2>2, <2>4, <4>1, <4>2
        <3>2. CASE n \notin claimed
            <4>1. /\ n \in claimed'
                  /\ sending'[w] = [sending[w] EXCEPT !.step = "send"]
                BY <2>0, <2>6, <3>2 DEF Monthly!Claim, Monthly!Won
            <4>2. sending'[w] \in Monthly!Sendings /\ sending'[w].month = n
                  /\ sending'[w].step = "send"
                BY <2>1, <2>6, <4>1 DEF Monthly!Sendings
            <4>3. Holds(w, n)'
                BY <4>2, DataAssumption DEF Holds, Monthly!ReportAssumption
            <4> QED
                BY <4>1, <4>3
        <3> QED
            BY <3>1, <3>2
    <2>7. CASE n = m /\ Monthly!Deliver(w)
        <3>1. server /\ sent' = [sent EXCEPT ![n] = @ + 1] /\ claimed' = claimed
            BY <2>7 DEF Monthly!Deliver
        <3>2. sent[n] = 0
            BY <1>8, <2>1, <2>7 DEF OneHolder, Holds, Monthly!Deliver
        <3> QED
            BY <1>2, <2>1, <2>2, <3>1, <3>2
    <2>8. CASE n = m /\ Monthly!Release(w)
        BY <1>1, <1>8, <2>1, <2>8 DEF OneHolder, Holds, Monthly!Release
    <2>9. CASE n = m /\ Monthly!Die(w)
        BY <2>9 DEF Monthly!Die
    <2> QED
        BY <1>8, <2>5, <2>6, <2>7, <2>8, <2>9
<1> QED
    <2>1. CASE \E w \in Workers : Monthly!CheckIdle(w)
        <3>1. UNCHANGED <<claimed, sending, sent>>
            BY <2>1 DEF Monthly!CheckIdle
        <3> QED
            BY <1>2, <1>5, <2>1, <3>1 DEF Holds
    <2>2. CASE Monthly!MailFails \/ Monthly!MailReturns \/ Monthly!SendHour \/ UNCHANGED monthlyVars
        <3>1. UNCHANGED <<claimed, sending, sent>>
            BY <2>2 DEF Monthly!MailFails, Monthly!MailReturns, Monthly!SendHour, monthlyVars
        <3>2. today'.month = today.month /\ today'.day = today.day /\ today'.checked = today.checked
            BY <2>2 DEF Monthly!MailFails, Monthly!MailReturns, Monthly!SendHour, monthlyVars,
                Monthly!TypeOK
        <3> QED
            BY <1>3, <3>1, <3>2 DEF Checked, Monthly!SendDay
    <2> QED
        BY <1>6, <1>7, <1>8, <2>1, <2>2 DEF Monthly!Next, Monthly!Claim, Monthly!Deliver,
            Monthly!Release, Monthly!Die

\* For any calendar and workers: a month is held by one worker at most, and one that
\* went well is claimed once its send day was checked.
THEOREM MonthlyInvariant == Monthly!Spec => [](Monthly!TypeOK /\ OneHolder /\ NoneSkipped)
<1>1. Monthly!Init => Monthly!TypeOK /\ OneHolder /\ NoneSkipped
    <2> SUFFICES ASSUME Monthly!Init
                 PROVE  Monthly!TypeOK /\ OneHolder /\ NoneSkipped
        OBVIOUS
    <2> USE DEF Monthly!Init
    <2>1. 1 \in Monthly!Months /\ 1 <= Lengths[1]
        <3>1. 1 \in Monthly!Months
            BY MonthsNumbered
        <3>2. Lengths[1] \in 1..31
            BY <3>1, MonthsNumbered
        <3> QED
            BY <3>1, <3>2
    <2>2. Monthly!TypeOK
        BY <2>1 DEF Monthly!TypeOK
    <2>3. OneHolder
        BY DEF OneHolder, Holds
    <2>4. \A n \in Monthly!Months : ~Checked(n)
        <3> SUFFICES ASSUME NEW n \in Monthly!Months
                     PROVE  ~Checked(n)
            OBVIOUS
        <3>1. n \in Nat /\ n >= 1 /\ Monthly!SendDay(n) \in Nat /\ Monthly!SendDay(n) >= 1
            BY MonthsNumbered
        <3>2. today.month = 1 /\ today.day = 1 /\ today.checked = FALSE
            OBVIOUS
        <3> QED
            BY <3>1, <3>2 DEF Checked
    <2> QED
        BY <2>1, <2>2, <2>3, <2>4 DEF NoneSkipped
<1>2. /\ Monthly!TypeOK /\ OneHolder /\ NoneSkipped /\ [Monthly!Next]_monthlyVars
      => (Monthly!TypeOK /\ OneHolder /\ NoneSkipped)'
    BY MonthlyTypes, OneHolderStep, NoneSkippedStep
<1> QED
    BY <1>1, <1>2, PTL DEF Monthly!Spec, Monthly!vars, monthlyVars

\* For any calendar and workers: no month is reported twice, and none is skipped for
\* being short, whichever workers race or die.
THEOREM MonthsReported == Monthly!Spec => []Monthly!OneReportAMonth
<1>1. Monthly!TypeOK /\ OneHolder /\ NoneSkipped => Monthly!OneReportAMonth
    <2> SUFFICES ASSUME Monthly!TypeOK, OneHolder, NoneSkipped, NEW n \in Monthly!Months
                 PROVE  /\ sent[n] <= 1
                        /\ Monthly!Over(n) /\ n \notin missed \cup failed =>
                              sent[n] = 1 \/ \E w \in Workers : sending[w] # None /\ sending[w].month = n
        BY DEF Monthly!OneReportAMonth
    <2>1. Monthly!Over(n) => Checked(n)
        BY DEF Monthly!Over, Checked
    <2> QED
        BY <2>1 DEF OneHolder, NoneSkipped, Holds
<1> QED
    BY <1>1, MonthlyInvariant, PTL

-----------------------------------------------------------------------------
(* Retention.                                                              *)

LEMMA RetainCounts ==
    ASSUME NEW S
    PROVE  Retain!Cardinality(S) = Cardinality(S)
BY DEF Retain!Cardinality, Cardinality

\* No two of these readings are of one printer at one time.
Apart(S) == \A r, s \in S : r.printer = s.printer /\ r.ts = s.ts => r = s

\* The readings of one printer and day that are stored, and those deleted.
StoredOf(p, d) == Retain!Of(raw, p, d)
GoneOf(p, d)   == Retain!Of(deleted, p, d)

LEMMA ReadingDays ==
    ASSUME NEW r \in Retain!ReadingRows
    PROVE  Retain!DayOf(r) \in Nat /\ r.ts \in Nat /\ r.ts < PerDay * (MaxDay + 1)
<1>1. PerDay \in Nat \ {0} /\ MaxDay \in Nat
    BY DataAssumption DEF Retain!RetentionAssumption
<1>2. r.ts \in 0..(PerDay * (MaxDay + 1) - 1)
    BY DEF Retain!ReadingRows
<1>3. PerDay * (MaxDay + 1) \in Nat
    BY <1>1
<1>4. r.ts \in Nat /\ r.ts < PerDay * (MaxDay + 1)
    <2> DEFINE b == PerDay * (MaxDay + 1)
    <2> HIDE DEF b
    <2> QED
        BY <1>2, <1>3 DEF b
<1>5. r.ts \div PerDay \in Nat
    BY <1>1, <1>4
<1> QED
    BY <1>4, <1>5 DEF Retain!DayOf

\* Which of a day's readings is the first, and which the last.
LEMMA FirstAndLast ==
    ASSUME NEW p, NEW S \in SUBSET Retain!ReadingRows, S # {}, Apart(S),
           \A r \in S : r.printer = p
    PROVE  /\ Retain!Earliest(S) \in S /\ Retain!Latest(S) \in S
           /\ \A r \in S : Retain!Earliest(S).ts <= r.ts /\ r.ts <= Retain!Latest(S).ts
           /\ \A r \in S : (\A s \in S : r.ts <= s.ts) => r = Retain!Earliest(S)
           /\ \A r \in S : (\A s \in S : r.ts >= s.ts) => r = Retain!Latest(S)
<1> DEFINE bound == PerDay * (MaxDay + 1)
           f == [r \in S |-> r.ts]
           left == [r \in S |-> bound - r.ts]
<1>1. \A r \in S : r.ts \in Nat /\ r.ts < bound
    BY ReadingDays
<1>2. bound \in Nat
    BY DataAssumption DEF Retain!RetentionAssumption
<1>3. PICK last \in S : \A s \in S : f[s] <= f[last]
    <2> HIDE DEF bound
    <2>1. f \in [S -> Nat] /\ \A r \in S : f[r] <= bound
        BY <1>1, <1>2
    <2> HIDE DEF f
    <2> QED
        BY <1>2, <2>1, GreatestMeasured
<1>4. PICK first \in S : \A s \in S : left[s] <= left[first]
    <2> HIDE DEF bound
    <2>1. left \in [S -> Nat] /\ \A r \in S : left[r] <= bound
        BY <1>1, <1>2
    <2> HIDE DEF left
    <2> QED
        BY <1>2, <2>1, GreatestMeasured
<1>5. \A s \in S : first.ts <= s.ts /\ s.ts <= last.ts
    <2> HIDE DEF bound
    <2> QED
        BY <1>1, <1>2, <1>3, <1>4
<1>6. /\ Retain!Earliest(S) \in S /\ \A s \in S : Retain!Earliest(S).ts <= s.ts
      /\ Retain!Latest(S) \in S /\ \A s \in S : Retain!Latest(S).ts >= s.ts
    BY <1>1, <1>5 DEF Retain!Earliest, Retain!Latest
<1>7. ASSUME NEW r \in S, \A s \in S : r.ts <= s.ts
      PROVE  r = Retain!Earliest(S)
    <2>1. r.ts = Retain!Earliest(S).ts
        BY <1>1, <1>6, <1>7
    <2> QED
        BY <1>6, <2>1 DEF Apart
<1>8. ASSUME NEW r \in S, \A s \in S : r.ts >= s.ts
      PROVE  r = Retain!Latest(S)
    <2>1. r.ts = Retain!Latest(S).ts
        BY <1>1, <1>6, <1>8
    <2> QED
        BY <1>6, <2>1 DEF Apart
<1> QED
    BY <1>1, <1>6, <1>7, <1>8

\* The first and the last of two sets of a day's readings put together.
LEMMA FirstAndLastOfBoth ==
    ASSUME NEW p, NEW S \in SUBSET Retain!ReadingRows, NEW T \in SUBSET Retain!ReadingRows,
           S # {}, T # {}, Apart(S \cup T), \A r \in S \cup T : r.printer = p
    PROVE  /\ Retain!Earliest(S \cup T) = IF Retain!Earliest(T).ts < Retain!Earliest(S).ts
                                          THEN Retain!Earliest(T) ELSE Retain!Earliest(S)
           /\ Retain!Latest(S \cup T) = IF Retain!Latest(T).ts > Retain!Latest(S).ts
                                        THEN Retain!Latest(T) ELSE Retain!Latest(S)
<1> DEFINE U == S \cup T
           head == IF Retain!Earliest(T).ts < Retain!Earliest(S).ts
                   THEN Retain!Earliest(T) ELSE Retain!Earliest(S)
           tail == IF Retain!Latest(T).ts > Retain!Latest(S).ts
                   THEN Retain!Latest(T) ELSE Retain!Latest(S)
<1>1. Apart(S) /\ Apart(T)
    BY DEF Apart
<1>2. /\ Retain!Earliest(S) \in S /\ Retain!Latest(S) \in S
      /\ \A r \in S : Retain!Earliest(S).ts <= r.ts /\ r.ts <= Retain!Latest(S).ts
    BY <1>1, FirstAndLast
<1>3. /\ Retain!Earliest(T) \in T /\ Retain!Latest(T) \in T
      /\ \A r \in T : Retain!Earliest(T).ts <= r.ts /\ r.ts <= Retain!Latest(T).ts
    BY <1>1, FirstAndLast
<1>4. \A r \in U : r.ts \in Nat
    BY ReadingDays
<1>5. head \in U /\ \A r \in U : head.ts <= r.ts
    <2>1. /\ Retain!Earliest(S).ts \in Nat /\ Retain!Earliest(T).ts \in Nat
        BY <1>2, <1>3, <1>4
    <2> QED
        BY <1>2, <1>3, <1>4, <2>1
<1>6. tail \in U /\ \A r \in U : tail.ts >= r.ts
    <2>1. /\ Retain!Latest(S).ts \in Nat /\ Retain!Latest(T).ts \in Nat
        BY <1>2, <1>3, <1>4
    <2> QED
        BY <1>2, <1>3, <1>4, <2>1
<1> HIDE DEF U, head, tail
<1>7. U \in SUBSET Retain!ReadingRows /\ U # {} /\ Apart(U) /\ \A r \in U : r.printer = p
    BY DEF U
<1>8. head = Retain!Earliest(U) /\ tail = Retain!Latest(U)
    BY <1>5, <1>6, <1>7, FirstAndLast
<1> QED
    BY <1>8 DEF U, head, tail

\* The printers whose readings are followed, and the days of their rollups.
Days  == Retain!Days
Kept  == Printers \ {One}

\* Readings are finite in number, dated up to today, and no two are of one
\* printer at one time; what is deleted is stored no more.
ReadingsApart ==
    /\ IsFiniteSet(raw) /\ IsFiniteSet(deleted) /\ raw \cap deleted = {}
    /\ Apart(raw \cup deleted)
    /\ \A r \in raw : Retain!DayOf(r) <= keptOn

\* A pass works on days closed before the window when it began, and the rows
\* it has read are still there.
PassReads ==
    pass # None =>
        /\ pass.day + RawDays < pass.limit /\ pass.limit <= keptOn
        /\ pass.read # None => pass.ids \subseteq StoredOf(pass.read, pass.day)

\* A row is pruned where readings are gone, and counts them ...
Stands(entry, gone) ==
    /\ gone = {} => entry = None \/ ~entry.pruned
    /\ gone # {} => entry # None /\ entry.pruned /\ entry.count >= Cardinality(gone)

\* ... exactly, with the meters of the first and of the last.
Exact(entry, gone) ==
    gone # {} =>
        /\ entry.count = Cardinality(gone)
        /\ entry.first = Retain!Earliest(gone).ts /\ entry.start = Retain!Earliest(gone).meter
        /\ entry.last = Retain!Latest(gone).ts /\ entry.end = Retain!Latest(gone).meter

RowStands(p, d) ==
    /\ Stands(rollup[<<p, d>>], GoneOf(p, d))
    /\ <<p, d>> \notin mixed => Exact(rollup[<<p, d>>], GoneOf(p, d))

RowsStand == \A p \in Kept, d \in Days : RowStands(p, d)

LEMMA RetainConstants ==
    /\ PerDay \in Nat \ {0} /\ RawDays \in Nat /\ Budget \in Nat \ {0} /\ MaxDay \in Nat
    /\ None \notin Kept /\ None \notin Retain!RollupRows /\ Days = 0..MaxDay
BY DataAssumption DEF Retain!RetentionAssumption, Kept, Days, Retain!Days

\* The row made of a day's readings.
LEMMA Aggregated ==
    ASSUME NEW p, NEW S \in SUBSET Retain!ReadingRows, S # {}, IsFiniteSet(S), Apart(S),
           \A r \in S : r.printer = p
    PROVE  /\ Retain!Aggregate(S) \in Retain!RollupRows
           /\ Retain!Aggregate(S).count = Cardinality(S) /\ Cardinality(S) \in Nat
           /\ ~Retain!Aggregate(S).pruned
           /\ Retain!Aggregate(S).first = Retain!Earliest(S).ts
           /\ Retain!Aggregate(S).start = Retain!Earliest(S).meter
           /\ Retain!Aggregate(S).last = Retain!Latest(S).ts
           /\ Retain!Aggregate(S).end = Retain!Latest(S).meter
<1>1. Retain!Earliest(S) \in Retain!ReadingRows /\ Retain!Latest(S) \in Retain!ReadingRows
    BY FirstAndLast
<1>2. /\ Retain!Earliest(S).ts \in Nat /\ Retain!Latest(S).ts \in Nat
      /\ Retain!Earliest(S).meter \in PageCounts /\ Retain!Latest(S).meter \in PageCounts
    BY <1>1, ReadingDays DEF Retain!ReadingRows
<1>3. Cardinality(S) \in Nat /\ Retain!Cardinality(S) = Cardinality(S)
    BY FS_CardinalityType, RetainCounts
<1> QED
    BY <1>2, <1>3 DEF Retain!Aggregate, Retain!RollupRows

\* A row merged with another.
LEMMA Merged ==
    ASSUME NEW old \in Retain!RollupRows, NEW new \in Retain!RollupRows
    PROVE  /\ Retain!Merge(old, new) \in Retain!RollupRows
           /\ Retain!Merge(old, new).pruned
           /\ Retain!Merge(old, new).count = old.count + new.count
           /\ Retain!Merge(old, new).first = IF new.first < old.first THEN new.first ELSE old.first
           /\ Retain!Merge(old, new).start = IF new.first < old.first THEN new.start ELSE old.start
           /\ Retain!Merge(old, new).last = IF new.last > old.last THEN new.last ELSE old.last
           /\ Retain!Merge(old, new).end = IF new.last > old.last THEN new.end ELSE old.end
BY DEF Retain!Merge, Retain!RollupRows

RetainInv == Retain!TypeOK /\ ReadingsApart /\ PassReads /\ RowsStand

\* The row of readings that go.
Closing(entry) == [entry EXCEPT !.pruned = TRUE]

\* What the commit of a printer's day makes of its row: readings that go are
\* counted exactly if those gone before them were; readings that stay leave a
\* pruned row with no less than it stands for.
LEMMA Committed ==
    ASSUME NEW p \in Kept, NEW d \in Days, NEW ids \in SUBSET StoredOf(p, d),
           RetainInv, ids # {}
    PROVE  /\ Retain!Folded(rollup[<<p, d>>], ids) \in Retain!RollupRows
           /\ Closing(Retain!Folded(rollup[<<p, d>>], ids)) \in Retain!RollupRows
           /\ Stands(Closing(Retain!Folded(rollup[<<p, d>>], ids)),
                     GoneOf(p, d) \cup ids)
           /\ <<p, d>> \notin mixed =>
                 Exact(Closing(Retain!Folded(rollup[<<p, d>>], ids)),
                       GoneOf(p, d) \cup ids)
           /\ Stands(Retain!Folded(rollup[<<p, d>>], ids), GoneOf(p, d))
<1> DEFINE old == rollup[<<p, d>>]  new == Retain!Aggregate(ids)  before == GoneOf(p, d)
           both == before \cup ids
<1>1. /\ ids \in SUBSET Retain!ReadingRows /\ before \in SUBSET Retain!ReadingRows
      /\ \A r \in both : r.printer = p
      /\ ids \subseteq raw /\ before \subseteq deleted
    BY DEF RetainInv, Retain!TypeOK, StoredOf, GoneOf, Retain!Of
<1>2. IsFiniteSet(ids) /\ IsFiniteSet(before) /\ before \cap ids = {}
    BY <1>1, FS_Subset DEF RetainInv, ReadingsApart
<1>3. Apart(both) /\ Apart(ids) /\ Apart(before)
    BY <1>1 DEF Apart, RetainInv, ReadingsApart
<1>0. ids # {} /\ (\A r \in ids : r.printer = p)
    BY <1>1
<1>4. /\ new \in Retain!RollupRows /\ new.count = Cardinality(ids) /\ Cardinality(ids) \in Nat
      /\ ~new.pruned
      /\ new.first = Retain!Earliest(ids).ts /\ new.start = Retain!Earliest(ids).meter
      /\ new.last = Retain!Latest(ids).ts /\ new.end = Retain!Latest(ids).meter
    BY <1>0, <1>1, <1>2, <1>3, Aggregated
<1>5. /\ Cardinality(before) \in Nat
      /\ Cardinality(both) = Cardinality(before) + Cardinality(ids)
    <2>1. Cardinality(before) \in Nat
        BY <1>2, FS_CardinalityType
    <2>2. Cardinality(both) =
            Cardinality(before) + Cardinality(ids) - Cardinality(before \cap ids)
        BY <1>2, FS_Union
    <2>3. Cardinality(before \cap ids) = 0
        BY <1>2, FS_EmptySet
    <2> QED
        BY <1>4, <2>1, <2>2, <2>3
<1>6. /\ Stands(old, before) /\ (<<p, d>> \notin mixed => Exact(old, before))
      /\ old \in Retain!RollupRows \cup {None}
    <2>1. Stands(old, before) /\ (<<p, d>> \notin mixed => Exact(old, before))
        BY DEF RetainInv, RowsStand, RowStands
    <2>2. old \in Retain!RollupRows \cup {None}
        BY DEF RetainInv, Retain!TypeOK, Kept, Days
    <2> QED
        BY <2>1, <2>2
<1>7. both # {} /\ ids # {}
    OBVIOUS
<1> SUFFICES /\ Retain!Folded(old, ids) \in Retain!RollupRows
             /\ Closing(Retain!Folded(old, ids)) \in Retain!RollupRows
             /\ Stands(Closing(Retain!Folded(old, ids)), both)
             /\ <<p, d>> \notin mixed => Exact(Closing(Retain!Folded(old, ids)), both)
             /\ Stands(Retain!Folded(old, ids), before)
    OBVIOUS
<1>8. Retain!Folded(old, ids) = IF old # None /\ old.pruned THEN Retain!Merge(old, new) ELSE new
    BY DEF Retain!Folded
<1> HIDE DEF old, new, before, both
<1>9. CASE old # None /\ old.pruned
    <2> DEFINE mix == Retain!Merge(old, new)
    <2>1. old \in Retain!RollupRows /\ old.count \in Nat
        BY <1>6, <1>9 DEF Retain!RollupRows
    <2>2. before # {} /\ old.count >= Cardinality(before)
        BY <1>6, <1>9 DEF Stands
    <2>3. /\ mix \in Retain!RollupRows /\ mix.pruned
          /\ mix.count = old.count + new.count
          /\ mix.first = IF new.first < old.first THEN new.first ELSE old.first
          /\ mix.start = IF new.first < old.first THEN new.start ELSE old.start
          /\ mix.last = IF new.last > old.last THEN new.last ELSE old.last
          /\ mix.end = IF new.last > old.last THEN new.end ELSE old.end
        BY <1>4, <2>1, Merged
    <2>4. Retain!Folded(old, ids) = mix
        BY <1>8, <1>9
    <2> HIDE DEF mix
    <2>5. Closing(mix) = mix
        BY <2>3 DEF Retain!RollupRows, Closing
    <2>6. mix.count >= Cardinality(both) /\ mix.count >= Cardinality(before)
        BY <1>4, <1>5, <2>1, <2>2, <2>3
    <2>7. ASSUME <<p, d>> \notin mixed
          PROVE  /\ mix.count = Cardinality(both)
                 /\ mix.first = Retain!Earliest(both).ts
                 /\ mix.start = Retain!Earliest(both).meter
                 /\ mix.last = Retain!Latest(both).ts
                 /\ mix.end = Retain!Latest(both).meter
        <3>1. /\ old.count = Cardinality(before)
              /\ old.first = Retain!Earliest(before).ts /\ old.start = Retain!Earliest(before).meter
              /\ old.last = Retain!Latest(before).ts /\ old.end = Retain!Latest(before).meter
            BY <1>6, <2>2, <2>7 DEF Exact
        <3>2. /\ Retain!Earliest(both) =
                    IF Retain!Earliest(ids).ts < Retain!Earliest(before).ts
                    THEN Retain!Earliest(ids) ELSE Retain!Earliest(before)
              /\ Retain!Latest(both) =
                    IF Retain!Latest(ids).ts > Retain!Latest(before).ts
                    THEN Retain!Latest(ids) ELSE Retain!Latest(before)
            BY <1>1, <1>3, <1>7, <2>2, FirstAndLastOfBoth DEF both
        <3>3. mix.count = Cardinality(both)
            BY <1>4, <1>5, <2>3, <3>1
        <3>4. mix.first = Retain!Earliest(both).ts /\ mix.start = Retain!Earliest(both).meter
            BY <1>4, <2>3, <3>1, <3>2
        <3>5. mix.last = Retain!Latest(both).ts /\ mix.end = Retain!Latest(both).meter
            BY <1>4, <2>3, <3>1, <3>2
        <3> QED
            BY <3>3, <3>4, <3>5
    <2>8. mix # None
        BY <2>3, RetainConstants
    <2>9. Stands(mix, both) /\ (<<p, d>> \notin mixed => Exact(mix, both))
        BY <1>7, <2>3, <2>6, <2>7, <2>8 DEF Stands, Exact
    <2>10. Stands(mix, before)
        BY <2>2, <2>3, <2>6, <2>8 DEF Stands
    <2> QED
        BY <2>3, <2>4, <2>5, <2>9, <2>10
<1>10. CASE ~(old # None /\ old.pruned)
    <2> DEFINE final == Closing(new)
    <2>1. before = {} /\ both = ids /\ Retain!Folded(old, ids) = new
        BY <1>6, <1>8, <1>10 DEF Stands, both
    <2>2. /\ final \in Retain!RollupRows /\ final.pruned /\ final.count = new.count
          /\ final.first = new.first /\ final.start = new.start
          /\ final.last = new.last /\ final.end = new.end
        BY <1>4 DEF Retain!RollupRows, Closing
    <2> HIDE DEF final
    <2>3. final # None
        BY <2>2, RetainConstants
    <2>4. Stands(final, ids) /\ Exact(final, ids)
        BY <1>4, <1>7, <2>2, <2>3 DEF Stands, Exact
    <2>5. Stands(new, before)
        BY <1>4, <2>1 DEF Stands
    <2> QED
        BY <1>4, <2>1, <2>2, <2>4, <2>5 DEF final
<1> QED
    BY <1>9, <1>10

\* The day a pass begins with is a day of the calendar.
LEMMA FirstDay ==
    ASSUME RetainInv, raw # {}, Retain!Closed(Retain!StartDay)
    PROVE  Retain!StartDay \in Days
<1> DEFINE S == {Retain!DayOf(r) : r \in raw}
           oldest == CHOOSE d \in Days : /\ \E r \in raw : Retain!DayOf(r) = d
                                         /\ \A r \in raw : Retain!DayOf(r) >= d
<1> USE DEF RetainInv, Retain!TypeOK, Days
<1>1. \A r \in raw : Retain!DayOf(r) \in Nat /\ Retain!DayOf(r) <= keptOn
    BY ReadingDays DEF ReadingsApart
<1>2. keptOn \in 0..MaxDay /\ Retain!Days = 0..MaxDay /\ MaxDay \in Nat /\ RawDays \in Nat
    BY RetainConstants
<1>3. S \in SUBSET Nat /\ S # {}
    BY <1>1
<1>4. PICK n \in S : \A m \in S : n <= m
    <2> HIDE DEF S
    <2> QED
        BY <1>3, LeastNatural
<1>5. n \in Retain!Days /\ (\E r \in raw : Retain!DayOf(r) = n) /\ \A r \in raw : Retain!DayOf(r) >= n
    BY <1>1, <1>2, <1>4
<1>6. oldest \in Retain!Days
    BY <1>5
<1>7. Retain!StartDay = IF deleting \/ watermark = None \/ watermark < oldest
                        THEN oldest ELSE watermark + 1
    BY DEF Retain!StartDay
<1>8. CASE deleting \/ watermark = None \/ watermark < oldest
    BY <1>6, <1>7, <1>8
<1>9. CASE ~(deleting \/ watermark = None \/ watermark < oldest)
    <2> HIDE DEF oldest
    <2>1. watermark \in 0..MaxDay /\ Retain!StartDay = watermark + 1
        BY <1>2, <1>7, <1>9
    <2>2. watermark + 1 + RawDays < keptOn
        BY <2>1 DEF Retain!Closed
    <2> QED
        BY <1>2, <2>1, <2>2
<1> QED
    BY <1>8, <1>9

LEMMA ReadingsRest ==
    ASSUME ReadingsApart, UNCHANGED <<raw, deleted, keptOn>>
    PROVE  ReadingsApart'
BY DEF ReadingsApart, Apart, Retain!DayOf

LEMMA RowsRest ==
    ASSUME RowsStand, UNCHANGED <<rollup, deleted, mixed>>
    PROVE  RowsStand'
<1>1. \A p \in Kept, d \in Days : GoneOf(p, d)' = GoneOf(p, d)
    BY DEF GoneOf, Retain!Of, Retain!DayOf
<1>2. ASSUME NEW p \in Kept, NEW d \in Days
      PROVE  RowStands(p, d)'
    <2>1. Stands(rollup[<<p, d>>], GoneOf(p, d))'
        BY <1>1 DEF RowsStand, RowStands, Stands
    <2>2. ASSUME <<p, d>> \notin mixed'
          PROVE  Exact(rollup[<<p, d>>], GoneOf(p, d))'
        <3> DEFINE e == rollup[<<p, d>>]  g == GoneOf(p, d)
        <3>1. Exact(e, g) /\ e' = e /\ g' = g
            BY <1>1, <2>2 DEF RowsStand, RowStands
        <3> HIDE DEF e, g
        <3>2. Retain!Earliest(g)' = Retain!Earliest(g) /\ Retain!Latest(g)' = Retain!Latest(g)
            BY <3>1 DEF Retain!Earliest, Retain!Latest
        <3>3. Exact(e, g)'
            BY <3>1, <3>2 DEF Exact
        <3> QED
            BY <3>3 DEF e, g
    <2> QED
        BY <2>1, <2>2 DEF RowStands
<1> QED
    BY <1>2 DEF RowsStand

LEMMA BeginPassKeeps ==
    ASSUME RetainInv, Retain!BeginPass
    PROVE  RetainInv'
<1> DEFINE d == Retain!StartDay
<1>1. d \in Days /\ d + RawDays < keptOn
    BY FirstDay DEF Retain!BeginPass, Retain!Closed
<1>2. pass' = [day |-> d, limit |-> keptOn, delete |-> deleting, used |-> 1,
               todo |-> Retain!Reporting(d), done |-> None, read |-> None, ids |-> {}]
    BY DEF Retain!BeginPass
<1>3. Retain!Reporting(d) \in SUBSET Kept
    BY DEF Retain!Reporting, Kept
<1> HIDE DEF d
<1>4. pass' \in Retain!Passes
    BY <1>1, <1>2, <1>3 DEF Retain!Passes, RetainInv, Retain!TypeOK, Days, Kept
<1>6. UNCHANGED <<raw, rollup, watermark, deleting, keptOn, deleted, mixed>>
    BY DEF Retain!BeginPass
<1>5. PassReads'
    BY <1>1, <1>2, <1>6, RetainConstants DEF PassReads, RetainInv, Retain!TypeOK, Days
<1>7. Retain!TypeOK'
    BY <1>4, <1>6 DEF RetainInv, Retain!TypeOK, Retain!Days, Retain!ReadingRows, Retain!Passes,
        Retain!RollupRows
<1>8. ReadingsApart' /\ RowsStand'
    BY <1>6, ReadingsRest, RowsRest DEF RetainInv
<1> QED
    BY <1>5, <1>7, <1>8 DEF RetainInv

LEMMA ArriveKeeps ==
    ASSUME RetainInv, NEW r \in Retain!ReadingRows, Retain!Arrive(r)
    PROVE  RetainInv'
<1> USE DEF RetainInv, Retain!Arrive
<1>1. Retain!TypeOK'
    BY DEF Retain!TypeOK, Retain!Days, Retain!Passes, Retain!RollupRows
<1>2. ReadingsApart'
    <2>1. IsFiniteSet(raw')
        BY FS_AddElement DEF ReadingsApart
    <2>2. r \notin raw \cup deleted
        <3>1. r.printer = r.printer /\ r.ts = r.ts
            OBVIOUS
        <3> QED
            BY <3>1
    <2>3. Apart(raw \cup deleted)'
        BY DEF ReadingsApart, Apart
    <2>4. \A s \in raw' : Retain!DayOf(s)' <= keptOn'
        BY DEF ReadingsApart, Retain!DayOf
    <2> QED
        BY <2>1, <2>2, <2>3, <2>4 DEF ReadingsApart
<1>3. PassReads'
    BY DEF PassReads, StoredOf, Retain!Of, Retain!DayOf
<1>4. RowsStand'
    BY RowsRest
<1> QED
    BY <1>1, <1>2, <1>3, <1>4

LEMMA ReadDayKeeps ==
    ASSUME RetainInv, NEW p \in Kept, Retain!ReadDay(p)
    PROVE  RetainInv'
<1> USE DEF RetainInv
<1>1. /\ pass # None
      /\ pass' = [pass EXCEPT !.read = p, !.ids = Retain!Of(raw, p, pass.day)]
      /\ UNCHANGED <<raw, rollup, deleted, mixed, watermark, deleting, keptOn>>
    BY DEF Retain!ReadDay
<1>2. Retain!Of(raw, p, pass.day) \in SUBSET Retain!ReadingRows
    BY DEF Retain!Of, Retain!TypeOK
<1>3. /\ pass' \in Retain!Passes /\ pass'.day = pass.day /\ pass'.limit = pass.limit
      /\ pass'.read = p /\ pass'.ids = StoredOf(p, pass.day)
    BY <1>1, <1>2 DEF Retain!TypeOK, Retain!Passes, StoredOf, Kept
<1>4. Retain!TypeOK'
    BY <1>1, <1>3 DEF Retain!TypeOK, Retain!Days, Retain!Passes, Retain!RollupRows,
        Retain!ReadingRows
<1>5. StoredOf(p, pass.day) = StoredOf(p, pass.day)'
    BY <1>1, <1>3 DEF StoredOf, Retain!Of, Retain!DayOf
<1>6. PassReads'
    BY <1>1, <1>3, <1>5 DEF PassReads, StoredOf, Retain!Of, Retain!DayOf
<1> QED
    BY <1>1, <1>4, <1>6, RowsRest, ReadingsRest

LEMMA PassMoves ==
    ASSUME RetainInv,
           Retain!SwitchDeletion \/ Retain!Tick \/ Retain!Crash \/ Retain!NextDay \/ Retain!EndPass
    PROVE  RetainInv'
<1>1. UNCHANGED <<raw, rollup, deleted, mixed>>
    <2>2. CASE Retain!NextDay
        BY <2>2 DEF Retain!NextDay
    <2>3. CASE Retain!EndPass
        BY <2>3 DEF Retain!EndPass
    <2>4. CASE Retain!SwitchDeletion \/ Retain!Tick \/ Retain!Crash
        BY <2>4 DEF Retain!SwitchDeletion, Retain!Tick, Retain!Crash
    <2> QED
        BY <2>2, <2>3, <2>4
<1> USE DEF RetainInv
<1>2. pass # None => /\ pass \in Retain!Passes /\ pass.day \in Days /\ pass.limit \in Days
                     /\ pass.used \in Nat /\ pass.todo \in SUBSET Kept
                     /\ pass.done \in Days \cup {None} /\ pass.read \in Kept \cup {None}
                     /\ pass.ids \in SUBSET Retain!ReadingRows
    BY DEF Retain!TypeOK, Retain!Passes, Days, Kept
<1>3. /\ Days \subseteq Nat /\ MaxDay \in Nat /\ RawDays \in Nat /\ None \notin Kept
      /\ Days = 0..MaxDay /\ keptOn \in Days
    BY RetainConstants DEF Retain!TypeOK, Days
<1>4. CASE Retain!SwitchDeletion \/ Retain!Tick \/ Retain!Crash
    <2>1. Retain!TypeOK'
        <3>1. deleting' \in BOOLEAN /\ keptOn' \in Days /\ watermark' = watermark
            <4>1. CASE Retain!SwitchDeletion
                BY <1>3, <4>1 DEF Retain!SwitchDeletion
            <4>2. CASE Retain!Tick \/ Retain!Crash
                BY <1>3, <4>2 DEF Retain!Tick, Retain!Crash, Retain!TypeOK
            <4> QED
                BY <1>4, <4>1, <4>2
        <3>2. pass' \in Retain!Passes \cup {None}
            BY <1>4 DEF Retain!SwitchDeletion, Retain!Tick, Retain!Crash, Retain!TypeOK
        <3> QED
            BY <1>1, <3>1, <3>2 DEF Retain!TypeOK, Retain!Days, Retain!Passes, Retain!RollupRows,
                Retain!ReadingRows, Days
    <2>2. keptOn' >= keptOn /\ keptOn' \in Nat
        BY <1>3, <1>4 DEF Retain!SwitchDeletion, Retain!Tick, Retain!Crash
    <2>3. ReadingsApart'
        <3>1. \A r \in raw : Retain!DayOf(r) \in Nat
            BY ReadingDays DEF Retain!TypeOK
        <3> QED
            BY <1>1, <1>3, <2>2, <3>1 DEF ReadingsApart, Apart, Retain!DayOf
    <2>4. PassReads'
        BY <1>1, <1>2, <1>3, <1>4, <2>2 DEF PassReads, Retain!SwitchDeletion, Retain!Tick, Retain!Crash,
            StoredOf, Retain!Of, Retain!DayOf
    <2> QED
        BY <1>1, <2>1, <2>3, <2>4, RowsRest
<1>6. CASE Retain!NextDay
    <2>1. /\ pass # None /\ pass.read = None /\ pass.day + 1 + RawDays < pass.limit
          /\ pass' = [pass EXCEPT !.day = @ + 1, !.done = pass.day, !.used = @ + 1,
                                  !.todo = Retain!Reporting(pass.day + 1)]
          /\ UNCHANGED <<watermark, deleting, keptOn>>
        BY <1>6 DEF Retain!NextDay
    <2>2. pass.day + 1 \in Days /\ pass.used + 1 \in Nat
        BY <1>2, <1>3, <2>1
    <2>3. Retain!Reporting(pass.day + 1) \in SUBSET Kept
        BY DEF Retain!Reporting, Kept
    <2>4. /\ pass' \in Retain!Passes /\ pass'.day = pass.day + 1 /\ pass'.limit = pass.limit
          /\ pass'.read = None
        BY <1>2, <2>1, <2>2, <2>3 DEF Retain!Passes, Days, Kept
    <2>5. Retain!TypeOK'
        BY <1>1, <2>1, <2>4 DEF Retain!TypeOK, Retain!Days, Retain!Passes, Retain!RollupRows,
            Retain!ReadingRows
    <2>6. PassReads'
        BY <2>1, <2>4 DEF PassReads
    <2> QED
        BY <1>1, <2>1, <2>5, <2>6, RowsRest, ReadingsRest
<1>7. CASE Retain!EndPass
    <2>1. pass' = None /\ watermark' \in Days \cup {None} /\ UNCHANGED <<deleting, keptOn>>
        BY <1>2, <1>7 DEF Retain!EndPass, Retain!TypeOK, Days
    <2>2. Retain!TypeOK'
        BY <1>1, <2>1 DEF Retain!TypeOK, Retain!Days, Retain!Passes, Retain!RollupRows,
            Retain!ReadingRows, Days
    <2> QED
        BY <1>1, <2>1, <2>2, RowsRest, ReadingsRest DEF PassReads
<1> QED
    BY <1>4, <1>6, <1>7

LEMMA CommitKeeps ==
    ASSUME RetainInv, Retain!CommitDay
    PROVE  RetainInv'
<1> DEFINE p == pass.read  d == pass.day  ids == pass.ids
           gone == IF pass.delete THEN ids ELSE {}
           entry == IF ids = {} THEN rollup[<<p, d>>] ELSE Retain!Folded(rollup[<<p, d>>], ids)
           final == IF gone = {} THEN entry ELSE Closing(entry)
<1>1. /\ pass # None /\ pass.read # None
      /\ rollup' = [rollup EXCEPT ![<<p, d>>] = final]
      /\ raw' = raw \ gone /\ deleted' = deleted \cup gone
      /\ mixed' = IF (rollup[<<p, d>>] # None /\ rollup[<<p, d>>].pruned) /\ ids # gone
                  THEN mixed \cup {<<p, d>>} ELSE mixed
      /\ pass' = [pass EXCEPT !.read = None, !.ids = {}, !.todo = @ \ {p}, !.used = @ + 1]
      /\ UNCHANGED <<watermark, deleting, keptOn>>
    BY DEF Retain!CommitDay, Retain!Doomed, Closing
<1>2. /\ pass \in Retain!Passes /\ p \in Kept /\ d \in Days /\ pass.used \in Nat
      /\ pass.todo \in SUBSET Kept /\ pass.limit \in Days /\ pass.delete \in BOOLEAN
    BY <1>1 DEF RetainInv, Retain!TypeOK, Retain!Passes, Kept, Days
<1>3. ids \in SUBSET StoredOf(p, d) /\ ids \subseteq raw
    BY <1>1 DEF RetainInv, PassReads, StoredOf, Retain!Of
<1>4. /\ RowStands(p, d) /\ rollup[<<p, d>>] \in Retain!RollupRows \cup {None}
      /\ rollup \in [Kept \X Days -> Retain!RollupRows \cup {None}]
    BY <1>2 DEF RetainInv, RowsStand, Retain!TypeOK, Kept, Days
<1>5. /\ pass' \in Retain!Passes /\ pass'.day = pass.day /\ pass'.limit = pass.limit
      /\ pass'.read = None
    <2>1. pass.todo \ {p} \in SUBSET Kept /\ pass.used + 1 \in Nat
        BY <1>2
    <2>2. pass' = [pass EXCEPT !.read = None, !.ids = {}, !.todo = pass.todo \ {p},
                               !.used = pass.used + 1]
        BY <1>1
    <2> HIDE DEF p
    <2> QED
        BY <1>2, <2>1, <2>2 DEF Retain!Passes, Kept
<1> HIDE DEF p, d, ids
<1>6. ids # {} => /\ Retain!Folded(rollup[<<p, d>>], ids) \in Retain!RollupRows
                  /\ Closing(Retain!Folded(rollup[<<p, d>>], ids)) \in Retain!RollupRows
                  /\ Stands(Closing(Retain!Folded(rollup[<<p, d>>], ids)), GoneOf(p, d) \cup ids)
                  /\ <<p, d>> \notin mixed =>
                        Exact(Closing(Retain!Folded(rollup[<<p, d>>], ids)), GoneOf(p, d) \cup ids)
                  /\ Stands(Retain!Folded(rollup[<<p, d>>], ids), GoneOf(p, d))
    BY <1>2, <1>3, Committed
<1>7. /\ final \in Retain!RollupRows \cup {None}
      /\ gone = {} \/ (gone = ids /\ ids # {})
    BY <1>4, <1>6
<1> HIDE DEF final
<1>8. rollup' \in [Kept \X Days -> Retain!RollupRows \cup {None}]
    BY <1>1, <1>4, <1>7
<1>9. gone \subseteq raw
    BY <1>3
<1> HIDE DEF gone
<1>10. mixed' \subseteq Kept \X Days
    BY <1>1, <1>2 DEF RetainInv, Retain!TypeOK, Kept, Days
<1>11. Retain!TypeOK'
    BY <1>1, <1>5, <1>8, <1>9, <1>10 DEF RetainInv, Retain!TypeOK, Kept, Days, Retain!Days,
        Retain!Passes, Retain!RollupRows, Retain!ReadingRows
<1>12. ReadingsApart'
    <2>1. IsFiniteSet(raw') /\ IsFiniteSet(gone)
        BY <1>1, <1>9, FS_Subset DEF RetainInv, ReadingsApart
    <2>2. IsFiniteSet(deleted')
        BY <1>1, <2>1, FS_Union DEF RetainInv, ReadingsApart
    <2>3. raw' \cup deleted' = raw \cup deleted /\ raw' \cap deleted' = {}
        BY <1>1, <1>9 DEF RetainInv, ReadingsApart
    <2>4. Apart(raw \cup deleted)'
        BY <2>3 DEF RetainInv, ReadingsApart, Apart
    <2>5. \A r \in raw' : Retain!DayOf(r)' <= keptOn'
        BY <1>1 DEF RetainInv, ReadingsApart, Retain!DayOf
    <2> QED
        BY <2>1, <2>2, <2>3, <2>4, <2>5 DEF ReadingsApart
<1>13. PassReads'
    BY <1>1, <1>5 DEF RetainInv, PassReads
<1>14. ASSUME NEW q \in Kept, NEW n \in Days
       PROVE  RowStands(q, n)'
    <2>1. \A r \in deleted : Retain!DayOf(r)' = Retain!DayOf(r)
        BY DEF Retain!DayOf
    <2>2. CASE <<q, n>> # <<p, d>>
        <3>1. rollup'[<<q, n>>] = rollup[<<q, n>>]
            BY <1>1, <1>4, <2>2
        <3>2. GoneOf(q, n)' = GoneOf(q, n)
            <4>1. \A r \in gone : r.printer = p /\ Retain!DayOf(r) = d
                BY <1>3, <1>7 DEF StoredOf, Retain!Of
            <4> QED
                BY <1>1, <2>2, <4>1 DEF GoneOf, Retain!Of, Retain!DayOf
        <3>3. <<q, n>> \notin mixed' => <<q, n>> \notin mixed
            BY <1>1
        <3> DEFINE e == rollup[<<q, n>>]  g == GoneOf(q, n)
        <3>4. Stands(e, g) /\ (<<q, n>> \notin mixed' => Exact(e, g)) /\ e' = e /\ g' = g
            BY <3>1, <3>2, <3>3 DEF RetainInv, RowsStand, RowStands
        <3> HIDE DEF e, g
        <3>5. Stands(e, g)'
            BY <3>4 DEF Stands
        <3>6. Retain!Earliest(g)' = Retain!Earliest(g) /\ Retain!Latest(g)' = Retain!Latest(g)
            BY <3>4 DEF Retain!Earliest, Retain!Latest
        <3>7. <<q, n>> \notin mixed' => Exact(e, g)'
            BY <3>4, <3>6 DEF Exact
        <3> QED
            BY <3>5, <3>7 DEF RowStands, e, g
    <2>3. CASE <<q, n>> = <<p, d>>
        <3>1. rollup'[<<q, n>>] = final /\ q = p /\ n = d
            BY <1>1, <1>2, <1>4, <2>3
        <3>2. GoneOf(q, n)' = GoneOf(p, d) \cup gone
            <4>1. \A r \in gone : r.printer = p /\ Retain!DayOf(r) = d
                BY <1>3, <1>7 DEF StoredOf, Retain!Of
            <4> QED
                BY <1>1, <3>1, <4>1 DEF GoneOf, Retain!Of, Retain!DayOf
        <3> DEFINE h == GoneOf(p, d) \cup gone
        <3>3. Stands(final, h) /\ (<<p, d>> \notin mixed' => Exact(final, h))
            <4>1. CASE gone = {} /\ ids = {}
                <5>1. final = rollup[<<p, d>>] /\ h = GoneOf(p, d) /\ mixed' = mixed
                    BY <1>1, <4>1 DEF final
                <5> QED
                    BY <1>4, <5>1 DEF RowStands
            <4>2. CASE gone = {} /\ ids # {}
                <5>1. final = Retain!Folded(rollup[<<p, d>>], ids) /\ h = GoneOf(p, d)
                    BY <4>2 DEF final
                <5>2. CASE rollup[<<p, d>>] # None /\ rollup[<<p, d>>].pruned
                    <6>1. <<p, d>> \in mixed'
                        BY <1>1, <4>2, <5>2
                    <6> QED
                        BY <1>6, <4>2, <5>1, <6>1
                <5>3. CASE ~(rollup[<<p, d>>] # None /\ rollup[<<p, d>>].pruned)
                    <6>1. h = {}
                        BY <1>4, <5>1, <5>3 DEF RowStands, Stands
                    <6> QED
                        BY <1>6, <4>2, <5>1, <6>1 DEF Exact
                <5> QED
                    BY <5>2, <5>3
            <4>3. CASE gone = ids /\ ids # {}
                <5>1. final = Closing(Retain!Folded(rollup[<<p, d>>], ids))
                    BY <4>3 DEF final
                <5>2. mixed' = mixed
                    BY <1>1, <4>3
                <5> QED
                    BY <1>6, <4>3, <5>1, <5>2
            <4> QED
                BY <1>7, <4>1, <4>2, <4>3
        <3> DEFINE e == rollup[<<q, n>>]  g == GoneOf(q, n)
        <3>4. e' = final /\ g' = h /\ (<<q, n>> \notin mixed' => Exact(final, h))
            BY <3>1, <3>2, <3>3
        <3> HIDE DEF e, g, h
        <3>5. Stands(e, g)'
            BY <3>3, <3>4 DEF Stands
        <3>6. Retain!Earliest(g)' = Retain!Earliest(h) /\ Retain!Latest(g)' = Retain!Latest(h)
            BY <3>4 DEF Retain!Earliest, Retain!Latest
        <3>7. <<q, n>> \notin mixed' => Exact(e, g)'
            BY <3>4, <3>6 DEF Exact
        <3> QED
            BY <3>5, <3>7 DEF RowStands, e, g
    <2> QED
        BY <2>2, <2>3
<1>15. RowsStand'
    BY <1>14 DEF RowsStand
<1> QED
    BY <1>11, <1>12, <1>13, <1>15 DEF RetainInv

LEMMA RetainKeeps ==
    ASSUME RetainInv, [Retain!Next]_retainVars
    PROVE  RetainInv'
<1>1. CASE UNCHANGED retainVars
    <2>1. UNCHANGED <<raw, rollup, watermark, deleting, pass, keptOn, deleted, mixed>>
        BY <1>1 DEF retainVars
    <2>2. Retain!TypeOK'
        BY <2>1 DEF RetainInv, Retain!TypeOK, Retain!Days, Retain!Passes, Retain!RollupRows,
            Retain!ReadingRows
    <2>3. PassReads'
        BY <2>1 DEF RetainInv, PassReads, StoredOf, Retain!Of, Retain!DayOf
    <2> QED
        BY <2>1, <2>2, <2>3, ReadingsRest, RowsRest DEF RetainInv
<1> QED
    BY <1>1, ArriveKeeps, BeginPassKeeps, ReadDayKeeps, PassMoves, CommitKeeps
    DEF Retain!Next, Retain!PassStep, Kept

\* For any printers, days and windows: a pruned row stands for the readings deleted
\* from its day, and for no others while deletion stays switched on.
THEOREM RetainInvariant == Retain!Spec => []RetainInv
<1>1. Retain!Init => RetainInv
    <2> SUFFICES ASSUME Retain!Init
                 PROVE  RetainInv
        OBVIOUS
    <2> USE DEF Retain!Init
    <2>1. Retain!TypeOK
        <3>1. deleting \in BOOLEAN
            OBVIOUS
        <3>2. /\ raw \subseteq Retain!ReadingRows /\ deleted \subseteq Retain!ReadingRows
              /\ mixed \subseteq (Printers \ {One}) \X Retain!Days
              /\ watermark \in Retain!Days \cup {None} /\ pass \in Retain!Passes \cup {None}
            OBVIOUS
        <3>3. keptOn \in Retain!Days
            BY RetainConstants DEF Days
        <3>4. rollup \in [(Printers \ {One}) \X Retain!Days -> Retain!RollupRows \cup {None}]
            OBVIOUS
        <3> QED
            BY <3>1, <3>2, <3>3, <3>4 DEF Retain!TypeOK
    <2>2. ReadingsApart
        BY FS_EmptySet DEF ReadingsApart, Apart
    <2>3. \A p \in Kept, d \in Days : GoneOf(p, d) = {} /\ rollup[<<p, d>>] = None
        BY DEF GoneOf, Retain!Of, Kept, Days
    <2>4. RowsStand
        <3> SUFFICES ASSUME NEW p \in Kept, NEW d \in Days
                     PROVE  RowStands(p, d)
            BY DEF RowsStand
        <3>1. GoneOf(p, d) = {} /\ rollup[<<p, d>>] = None
            BY <2>3
        <3>2. Stands(rollup[<<p, d>>], GoneOf(p, d)) /\ Exact(rollup[<<p, d>>], GoneOf(p, d))
            BY <3>1 DEF Stands, Exact
        <3> QED
            BY <3>2 DEF RowStands
    <2> QED
        BY <2>1, <2>2, <2>4 DEF RetainInv, PassReads
<1> QED
    BY <1>1, RetainKeeps, PTL DEF Retain!Spec, Retain!vars, retainVars

\* For any printers, days and windows: a reading that is gone is in its day's rollup,
\* whatever arrived between the read and the delete, later, or before a crash.
THEOREM DeletedCounted == Retain!Spec => []Retain!DeletedIsCounted
<1>1. RetainInv => Retain!DeletedIsCounted
    <2> SUFFICES ASSUME RetainInv, NEW p \in Kept, NEW d \in Days, GoneOf(p, d) # {}
                 PROVE  /\ rollup[<<p, d>>] # None /\ rollup[<<p, d>>].pruned
                        /\ rollup[<<p, d>>].count >= Retain!Cardinality(GoneOf(p, d))
                        /\ <<p, d>> \notin mixed =>
                              /\ rollup[<<p, d>>].count = Retain!Cardinality(GoneOf(p, d))
                              /\ rollup[<<p, d>>].start = Retain!Earliest(GoneOf(p, d)).meter
                              /\ rollup[<<p, d>>].end = Retain!Latest(GoneOf(p, d)).meter
        BY DEF Retain!DeletedIsCounted, GoneOf, Kept, Days
    <2>1. Retain!Cardinality(GoneOf(p, d)) = Cardinality(GoneOf(p, d))
        BY RetainCounts
    <2> QED
        BY <2>1 DEF RetainInv, RowsStand, RowStands, Stands, Exact
<1> QED
    BY <1>1, RetainInvariant, PTL

\* For any printers, days and windows: a day's readings are left alone until the day
\* closed before the window (retention.roll_up_readings).
THEOREM WindowsKept == Retain!Spec => Retain!WindowKept
<1>1. RetainInv /\ [Retain!Next]_retainVars
      => [\A r \in raw \ raw' : Retain!DayOf(r) + RawDays < keptOn]_retainVars
    <2> SUFFICES ASSUME RetainInv, Retain!Next, NEW r \in raw, r \notin raw'
                 PROVE  Retain!DayOf(r) + RawDays < keptOn
        BY DEF retainVars
    <2>1. CASE Retain!CommitDay
        <3>1. r \in pass.ids /\ pass # None /\ pass.read # None
            BY <2>1 DEF Retain!CommitDay, Retain!Doomed
        <3>2. Retain!DayOf(r) = pass.day /\ pass.day + RawDays < pass.limit /\ pass.limit <= keptOn
            BY <3>1 DEF RetainInv, PassReads, StoredOf, Retain!Of
        <3>3. pass.day \in Nat /\ pass.limit \in Nat /\ keptOn \in Nat /\ RawDays \in Nat
            BY <3>1, RetainConstants DEF RetainInv, Retain!TypeOK, Retain!Passes, Days
        <3> QED
            BY <3>2, <3>3
    <2>2. CASE Retain!BeginPass \/ Retain!NextDay \/ Retain!EndPass
        BY <2>2 DEF Retain!BeginPass, Retain!NextDay, Retain!EndPass
    <2>3. ASSUME NEW p \in Kept, Retain!ReadDay(p)
          PROVE  FALSE
        <3>1. raw' = raw
            BY <2>3 DEF Retain!ReadDay
        <3> QED
            BY <3>1
    <2>4. CASE Retain!Tick \/ Retain!SwitchDeletion \/ Retain!Crash
        BY <2>4 DEF Retain!Tick, Retain!SwitchDeletion, Retain!Crash
    <2>5. ASSUME NEW s \in Retain!ReadingRows, Retain!Arrive(s)
          PROVE  FALSE
        BY <2>5 DEF Retain!Arrive
    <2> QED
        BY <2>1, <2>2, <2>3, <2>4, <2>5 DEF Retain!Next, Retain!PassStep, Kept
<1> QED
    BY <1>1, RetainInvariant, PTL DEF Retain!Spec, Retain!WindowKept, Retain!vars, retainVars

-----------------------------------------------------------------------------
(* Invoices and rate cards.                                                *)

ActiveOf(rows) == Invoice!ActiveCards(rows)

\* At most one card is active.
OneActive == IsFiniteSet(ActiveOf(card)) /\ Cardinality(ActiveOf(card)) <= 1

CardsTyped ==
    /\ card \in [Cards -> Invoice!CardRows \cup {None}]
    /\ activating \in [Admins -> [card : Cards, incumbent : SUBSET Cards] \cup {None}]

InvoiceInv == Invoice!TypeOK /\ OneActive

LEMMA InvoiceCounts ==
    ASSUME NEW S
    PROVE  Invoice!Cardinality(S) = Cardinality(S)
BY DEF Invoice!Cardinality, Cardinality

\* What a step on a card makes of its row; the others stay as they are.
RowEdited(c, after) ==
    /\ card' = [card EXCEPT ![c] = after]
    /\ after \in Invoice!CardRows /\ after.active = card[c].active

LEMMA CardSteps ==
    ASSUME CardsTyped, Invoice!CardStep
    PROVE  \/ card' = card
           \/ \E c \in Cards : card[c] # None /\ \E after : RowEdited(c, after)
           \/ \E c \in Cards, after \in Invoice!CardRows :
                 card[c] = None /\ card' = [card EXCEPT ![c] = after]
                 /\ Cardinality(ActiveOf(card')) <= 1
           \/ \E c \in Cards : card[c] # None /\ card' = [card EXCEPT ![c] = None]
           \/ \E c \in Cards, old \in SUBSET Cards :
                 /\ \A k \in old \cup {c} : card[k] # None
                 /\ Cardinality(ActiveOf(card')) <= 1
                 /\ card' = Invoice!Switched(c, old)
<1> USE DEF CardsTyped
<1>1. ASSUME NEW c \in Cards, NEW mono \in Rates, NEW color \in Rates,
             NEW minimum \in {0} \cup Rates, NEW policy \in {"exclude", "bill_as_mono"},
             Invoice!CreateCard(c, mono, color, minimum, policy)
      PROVE  \E after \in Invoice!CardRows :
                 card[c] = None /\ card' = [card EXCEPT ![c] = after]
                 /\ Cardinality(ActiveOf(card')) <= 1
    <2> DEFINE after == [active |-> ActiveOf(card) = {}, mono |-> mono, color |-> color,
                         minimum |-> minimum, policy |-> policy, tiers |-> {}]
    <2>1. after \in Invoice!CardRows
        BY DEF Invoice!CardRows
    <2>2. card[c] = None /\ card' = [card EXCEPT ![c] = after]
        BY <1>1 DEF Invoice!CreateCard, Invoice!Commit, ActiveOf
    <2>3. Invoice!Cardinality(ActiveOf([card EXCEPT ![c] = after])) <= 1
        BY <1>1 DEF Invoice!CreateCard, Invoice!Commit, ActiveOf
    <2> QED
        BY <2>1, <2>2, <2>3, InvoiceCounts
<1>2. ASSUME NEW c \in Cards, NEW mono \in Rates, NEW color \in Rates,
             NEW minimum \in {0} \cup Rates, NEW policy \in {"exclude", "bill_as_mono"},
             Invoice!UpdateCard(c, mono, color, minimum, policy)
      PROVE  card[c] # None /\ \E after : RowEdited(c, after)
    <2> DEFINE after == [card[c] EXCEPT !.mono = mono, !.color = color, !.minimum = minimum,
                                        !.policy = policy]
    <2>1. card[c] \in Invoice!CardRows
        BY <1>2 DEF Invoice!UpdateCard
    <2>2. after \in Invoice!CardRows /\ after.active = card[c].active
        BY <2>1 DEF Invoice!CardRows
    <2>3. card' = [card EXCEPT ![c] = after]
        BY <1>2 DEF Invoice!UpdateCard
    <2> QED
        BY <1>2, <2>2, <2>3 DEF Invoice!UpdateCard, RowEdited
<1>3. ASSUME NEW c \in Cards, NEW tier \in Invoice!Tiers, Invoice!CreateTier(c, tier)
      PROVE  card[c] # None /\ \E after : RowEdited(c, after)
    <2> DEFINE after == [card[c] EXCEPT !.tiers = @ \cup {tier}]
    <2>1. card[c] \in Invoice!CardRows
        BY <1>3 DEF Invoice!CreateTier
    <2>2. after \in Invoice!CardRows /\ after.active = card[c].active
        BY <2>1 DEF Invoice!CardRows
    <2>3. card' = [card EXCEPT ![c] = after]
        BY <1>3 DEF Invoice!CreateTier
    <2> QED
        BY <1>3, <2>2, <2>3 DEF Invoice!CreateTier, RowEdited
<1>4. ASSUME NEW c \in Cards, NEW tier \in Invoice!Tiers, Invoice!DeleteTier(c, tier)
      PROVE  card[c] # None /\ \E after : RowEdited(c, after)
    <2> DEFINE after == [card[c] EXCEPT !.tiers = @ \ {tier}]
    <2>1. card[c] \in Invoice!CardRows
        BY <1>4 DEF Invoice!DeleteTier
    <2>2. after \in Invoice!CardRows /\ after.active = card[c].active
        BY <2>1 DEF Invoice!CardRows
    <2>3. card' = [card EXCEPT ![c] = after]
        BY <1>4 DEF Invoice!DeleteTier
    <2> QED
        BY <1>4, <2>2, <2>3 DEF Invoice!DeleteTier, RowEdited
<1>5. ASSUME NEW c \in Cards, Invoice!DeleteCard(c)
      PROVE  card[c] # None /\ card' = [card EXCEPT ![c] = None]
    BY <1>5 DEF Invoice!DeleteCard
<1>6. ASSUME NEW a \in Admins, Invoice!EndActivate(a), card' # card
      PROVE  \E c \in Cards, old \in SUBSET Cards :
                 /\ \A k \in old \cup {c} : card[k] # None
                 /\ Cardinality(ActiveOf(card')) <= 1
                 /\ card' = Invoice!Switched(c, old)
    <2> DEFINE c == activating[a].card  old == activating[a].incumbent
    <2>1. c \in Cards /\ old \in SUBSET Cards
        BY <1>6 DEF Invoice!EndActivate
    <2>2. /\ \A k \in old \cup {c} : card[k] # None
          /\ Invoice!Cardinality(ActiveOf(Invoice!Switched(c, old))) <= 1
          /\ card' = Invoice!Switched(c, old)
        BY <1>6 DEF Invoice!EndActivate, ActiveOf
    <2>3. Cardinality(ActiveOf(card')) <= 1
        BY <2>2, InvoiceCounts
    <2> HIDE DEF c, old
    <2> QED
        BY <2>1, <2>2, <2>3
<1>7. ASSUME NEW a \in Admins, NEW c \in Cards, Invoice!BeginActivate(a, c)
      PROVE  card' = card
    BY <1>7 DEF Invoice!BeginActivate
<1> QED
    BY <1>1, <1>2, <1>3, <1>4, <1>5, <1>6, <1>7 DEF Invoice!CardStep

\* A page moves one meter and what was printed.
LEMMA PageCounted ==
    ASSUME NEW B, NEW d \in [mono : Nat, color : Nat, printed : B], d.printed + 1 \in B
    PROVE  /\ [d EXCEPT !.mono = @ + 1, !.printed = @ + 1]
                  \in [mono : Nat, color : Nat, printed : B]
           /\ [d EXCEPT !.color = @ + 1, !.printed = @ + 1]
                  \in [mono : Nat, color : Nat, printed : B]
<1>1. d.mono \in Nat /\ d.color \in Nat
    OBVIOUS
<1>2. d.mono + 1 \in Nat /\ d.color + 1 \in Nat
    BY <1>1
<1> QED
    BY <1>2

\* The readings, the meters and what the handlers have begun.
LEMMA DevicesTyped ==
    ASSUME Invoice!TypeOK, [Invoice!Next]_invoiceVars
    PROVE  /\ metered' \in [mono : Nat, color : Nat, printed : 0..MaxPages]
           /\ \A t \in Invoice!Times : reading'[t] = None \/ DOMAIN reading'[t] = Invoice!Meters
           /\ activating' \in [Admins -> [card : Cards, incumbent : SUBSET Cards] \cup {None}]
<1> DEFINE Typed == /\ metered' \in [mono : Nat, color : Nat, printed : 0..MaxPages]
                    /\ \A t \in Invoice!Times : reading'[t] = None \/ DOMAIN reading'[t] = Invoice!Meters
                    /\ activating' \in [Admins -> [card : Cards, incumbent : SUBSET Cards] \cup {None}]
<1> USE DEF Invoice!TypeOK
<1>1. ASSUME NEW class \in Invoice!Classes, Invoice!PrintPage(class)
      PROVE  Typed
    <2>1. metered.printed + 1 \in 0..MaxPages
        BY <1>1, DataAssumption DEF Invoice!PrintPage, Invoice!BillingAssumption
    <2>2. metered' = IF class = "mono"
                     THEN [metered EXCEPT !.mono = @ + 1, !.printed = @ + 1]
                     ELSE [metered EXCEPT !.color = @ + 1, !.printed = @ + 1]
        BY <1>1 DEF Invoice!PrintPage
    <2>3. metered' \in [mono : Nat, color : Nat, printed : 0..MaxPages]
        <3>1. metered \in [mono : Nat, color : Nat, printed : 0..MaxPages]
            OBVIOUS
        <3>2. /\ [metered EXCEPT !.mono = @ + 1, !.printed = @ + 1]
                    \in [mono : Nat, color : Nat, printed : 0..MaxPages]
              /\ [metered EXCEPT !.color = @ + 1, !.printed = @ + 1]
                    \in [mono : Nat, color : Nat, printed : 0..MaxPages]
            BY <2>1, <3>1, PageCounted, Zenon
        <3> QED
            BY <2>2, <3>2, Zenon
    <2>4. UNCHANGED <<reading, activating>>
        BY <1>1 DEF Invoice!PrintPage
    <2> QED
        BY <2>3, <2>4
<1>2. CASE Invoice!ResetMeters
    BY <1>2 DEF Invoice!ResetMeters
<1>3. ASSUME NEW shown \in SUBSET Invoice!Meters, Invoice!Poll(shown)
      PROVE  Typed
    BY <1>3 DEF Invoice!Poll
<1>4. CASE Invoice!MissPoll
    BY <1>4 DEF Invoice!MissPoll
<1>5. ASSUME NEW month \in Invoice!AllMonths, Invoice!Prune(month)
      PROVE  Typed
    BY <1>5 DEF Invoice!Prune
<1>6. CASE Invoice!CardStep
    <2>1. ASSUME NEW a \in Admins, NEW c \in Cards, Invoice!BeginActivate(a, c)
          PROVE  Typed
        <3>1. Invoice!ActiveCards(card) \in SUBSET Cards
            BY DEF Invoice!ActiveCards
        <3> QED
            BY <2>1, <3>1 DEF Invoice!BeginActivate
    <2>2. ASSUME NEW a \in Admins, Invoice!EndActivate(a)
          PROVE  Typed
        BY <2>2 DEF Invoice!EndActivate
    <2>3. CASE UNCHANGED <<metered, reading, activating>>
        BY <2>3
    <2>4. ASSUME NEW c \in Cards, NEW mono \in Rates, NEW color \in Rates,
                 NEW minimum \in {0} \cup Rates, NEW policy \in {"exclude", "bill_as_mono"},
                 \/ Invoice!CreateCard(c, mono, color, minimum, policy)
                 \/ Invoice!UpdateCard(c, mono, color, minimum, policy)
          PROVE  Typed
        BY <2>3, <2>4 DEF Invoice!CreateCard, Invoice!UpdateCard
    <2>5. ASSUME NEW c \in Cards, NEW tier \in Invoice!Tiers,
                 Invoice!CreateTier(c, tier) \/ Invoice!DeleteTier(c, tier)
          PROVE  Typed
        BY <2>3, <2>5 DEF Invoice!CreateTier, Invoice!DeleteTier
    <2>6. ASSUME NEW c \in Cards, Invoice!DeleteCard(c)
          PROVE  Typed
        BY <2>3, <2>6 DEF Invoice!DeleteCard
    <2> QED
        BY <1>6, <2>1, <2>2, <2>4, <2>5, <2>6 DEF Invoice!CardStep
<1>7. CASE UNCHANGED invoiceVars
    BY <1>7 DEF invoiceVars
<1> QED
    BY <1>1, <1>2, <1>3, <1>4, <1>5, <1>6, <1>7 DEF Invoice!Next, Invoice!MeterStep

LEMMA OneLeft ==
    ASSUME CardsTyped, OneActive, Invoice!CardStep
    PROVE  /\ card' \in [Cards -> Invoice!CardRows \cup {None}]
           /\ IsFiniteSet(ActiveOf(card)') /\ Cardinality(ActiveOf(card)') <= 1
           /\ ActiveOf(card) # {} /\ ActiveOf(card)' = {}
              => \E c \in ActiveOf(card) : card'[c] = None
<1> USE DEF CardsTyped
<1>0. None \notin Invoice!CardRows
    BY DataAssumption DEF Invoice!BillingAssumption
<1>1. CASE card' = card
    BY <1>1 DEF OneActive, ActiveOf, Invoice!ActiveCards
<1>2. ASSUME NEW c \in Cards, card[c] # None, NEW after, RowEdited(c, after)
      PROVE  card' \in [Cards -> Invoice!CardRows \cup {None}] /\ ActiveOf(card)' = ActiveOf(card)
    <2>1. card' \in [Cards -> Invoice!CardRows \cup {None}]
        BY <1>2 DEF RowEdited
    <2>2. \A k \in Cards : (card'[k] # None /\ card'[k].active) <=> (card[k] # None /\ card[k].active)
        BY <1>0, <1>2 DEF RowEdited
    <2> QED
        BY <2>1, <2>2 DEF ActiveOf, Invoice!ActiveCards
<1>3. ASSUME NEW c \in Cards, NEW after \in Invoice!CardRows, card[c] = None,
             card' = [card EXCEPT ![c] = after], Cardinality(ActiveOf(card')) <= 1
      PROVE  /\ card' \in [Cards -> Invoice!CardRows \cup {None}]
             /\ IsFiniteSet(ActiveOf(card)') /\ ActiveOf(card) \subseteq ActiveOf(card)'
    <2>1. ActiveOf(card)' \subseteq ActiveOf(card) \cup {c} /\ ActiveOf(card) \subseteq ActiveOf(card)'
        BY <1>3 DEF ActiveOf, Invoice!ActiveCards
    <2>2. IsFiniteSet(ActiveOf(card) \cup {c})
        BY FS_AddElement DEF OneActive
    <2>3. IsFiniteSet(ActiveOf(card)')
        BY <2>1, <2>2, FS_Subset
    <2> QED
        BY <1>3, <2>1, <2>3
<1>4. ASSUME NEW c \in Cards, card[c] # None, card' = [card EXCEPT ![c] = None]
      PROVE  /\ card' \in [Cards -> Invoice!CardRows \cup {None}]
             /\ ActiveOf(card)' = ActiveOf(card) \ {c} /\ card'[c] = None
    BY <1>4 DEF ActiveOf, Invoice!ActiveCards
<1>5. ASSUME NEW c \in Cards, NEW old \in SUBSET Cards, \A k \in old \cup {c} : card[k] # None,
             Cardinality(ActiveOf(card')) <= 1, card' = Invoice!Switched(c, old)
      PROVE  /\ card' \in [Cards -> Invoice!CardRows \cup {None}]
             /\ IsFiniteSet(ActiveOf(card)') /\ c \in ActiveOf(card)'
    <2>1. \A k \in old \cup {c} : \A b \in BOOLEAN :
             LET after == [card[k] EXCEPT !.active = b]
             IN  after \in Invoice!CardRows /\ after.active = b
        <3> SUFFICES ASSUME NEW k \in old \cup {c}, NEW b \in BOOLEAN
                     PROVE  /\ [card[k] EXCEPT !.active = b] \in Invoice!CardRows
                            /\ [card[k] EXCEPT !.active = b].active = b
            OBVIOUS
        <3>1. card[k] \in Invoice!CardRows
            BY <1>5
        <3> QED
            BY <3>1 DEF Invoice!CardRows
    <2>2. /\ \A k \in Cards : card'[k] \in Invoice!CardRows \cup {None}
          /\ card'[c] \in Invoice!CardRows /\ card'[c].active
          /\ \A k \in Cards \ {c} : card'[k] # None /\ card'[k].active
                                       => card[k] # None /\ card[k].active
        BY <1>5, <2>1 DEF Invoice!Switched
    <2>3. card' = [k \in Cards |-> card'[k]]
        BY <1>5 DEF Invoice!Switched
    <2>4. ActiveOf(card)' \subseteq ActiveOf(card) \cup {c} /\ c \in ActiveOf(card)'
        BY <1>0, <2>2 DEF ActiveOf, Invoice!ActiveCards
    <2>5. IsFiniteSet(ActiveOf(card) \cup {c})
        BY FS_AddElement DEF OneActive
    <2>6. IsFiniteSet(ActiveOf(card)')
        BY <2>4, <2>5, FS_Subset
    <2> QED
        BY <2>2, <2>3, <2>4, <2>6
<1>6. \A c \in Cards : /\ IsFiniteSet(ActiveOf(card) \ {c})
                       /\ Cardinality(ActiveOf(card) \ {c}) <= 1
    BY FS_Subset, FS_CardinalityType DEF OneActive
<1> QED
    BY <1>1, <1>2, <1>3, <1>4, <1>5, <1>6, CardSteps DEF OneActive

\* For any cards, admins and rates: cards, meters and forms keep their types, and one
\* card at most is active.
THEOREM InvoiceInvariant == Invoice!Spec => []InvoiceInv
<1>1. Invoice!Init => InvoiceInv
    <2> SUFFICES ASSUME Invoice!Init
                 PROVE  InvoiceInv
        OBVIOUS
    <2> USE DEF Invoice!Init
    <2>1. ActiveOf(card) = {}
        BY DEF ActiveOf, Invoice!ActiveCards
    <2>2. OneActive
        BY <2>1, FS_EmptySet DEF OneActive
    <2>3. metered \in [mono : Nat, color : Nat, printed : 0..MaxPages]
        BY DataAssumption DEF Invoice!BillingAssumption
    <2>4. Invoice!Cardinality(Invoice!ActiveCards(card)) <= 1
        BY <2>2, InvoiceCounts DEF OneActive, ActiveOf
    <2> QED
        BY <2>2, <2>3, <2>4 DEF InvoiceInv, Invoice!TypeOK
<1>2. InvoiceInv /\ [Invoice!Next]_invoiceVars => InvoiceInv'
    <2> SUFFICES ASSUME InvoiceInv, [Invoice!Next]_invoiceVars
                 PROVE  InvoiceInv'
        OBVIOUS
    <2>1. CardsTyped
        BY DEF CardsTyped, InvoiceInv, Invoice!TypeOK
    <2>2. card' \in [Cards -> Invoice!CardRows \cup {None}] /\ OneActive'
        <3>1. CASE Invoice!CardStep
            BY <2>1, <3>1, OneLeft DEF InvoiceInv, OneActive
        <3>2. CASE Invoice!MeterStep \/ UNCHANGED invoiceVars
            <4>1. card' = card
                BY <3>2 DEF Invoice!MeterStep, Invoice!ResetMeters, Invoice!MissPoll,
                    Invoice!PrintPage, Invoice!Poll, Invoice!Prune, invoiceVars
            <4> QED
                BY <2>1, <4>1 DEF InvoiceInv, OneActive, CardsTyped, ActiveOf, Invoice!ActiveCards
        <3> QED
            BY <3>1, <3>2 DEF Invoice!Next
    <2>3. Invoice!Cardinality(Invoice!ActiveCards(card)') <= 1
        BY <2>2, InvoiceCounts DEF OneActive, ActiveOf
    <2>4. Invoice!Cardinality(Invoice!ActiveCards(card)') = Invoice!Cardinality(Invoice!ActiveCards(card))'
        BY DEF Invoice!Cardinality
    <2> QED
        BY <2>2, <2>3, <2>4, DevicesTyped DEF InvoiceInv, Invoice!TypeOK, Invoice!CardRows,
            Invoice!Tiers, Invoice!Times, Invoice!Meters
<1> QED
    BY <1>1, <1>2, PTL DEF Invoice!Spec, Invoice!vars, invoiceVars

\* For any cards, admins and rates: an active card is lost only by its deletion, never
\* by two admins activating, creating and deleting at once.
THEOREM TermsAreKept == Invoice!Spec => Invoice!ActiveKept
<1>1. InvoiceInv /\ [Invoice!Next]_invoiceVars
      => [ActiveOf(card) # {} /\ ActiveOf(card)' = {} =>
             \E c \in ActiveOf(card) : card'[c] = None]_invoiceVars
    <2> SUFFICES ASSUME InvoiceInv, Invoice!Next, ActiveOf(card) # {}, ActiveOf(card)' = {}
                 PROVE  \E c \in ActiveOf(card) : card'[c] = None
        BY DEF invoiceVars
    <2>1. CASE Invoice!CardStep
        <3>1. CardsTyped /\ OneActive
            BY DEF CardsTyped, InvoiceInv, Invoice!TypeOK
        <3> QED
            BY <2>1, <3>1, OneLeft
    <2>2. CASE Invoice!MeterStep
        <3>1. card' = card
            BY <2>2 DEF Invoice!MeterStep, Invoice!ResetMeters, Invoice!MissPoll,
                Invoice!PrintPage, Invoice!Poll, Invoice!Prune
        <3> QED
            BY <3>1 DEF ActiveOf, Invoice!ActiveCards
    <2> QED
        BY <2>1, <2>2 DEF Invoice!Next
<1> QED
    BY <1>1, InvoiceInvariant, PTL DEF Invoice!Spec, Invoice!ActiveKept, Invoice!vars, invoiceVars, ActiveOf

-----------------------------------------------------------------------------
(* What the months bill.                                                   *)

\* After every poll: when the meter shows what it shows now.
Finish == PerMonth * InvoiceMonths

\* The times a meter was read, and what it said, with what it shows now.
ReadAt(name) == Invoice!Carrying(name)
Says(name) == [t \in Nat |-> IF t = Finish THEN Invoice!Meter(name)
                            ELSE IF t \in ReadAt(name) THEN reading[t][name] ELSE 0]
Month == [t \in Nat |-> t \div PerMonth]

ReadingsTyped ==
    /\ billTime \in 0..Finish
    /\ reading \in [Invoice!Times -> [Invoice!Meters -> Nat \cup {None}] \cup {None}]
    /\ \A t \in Invoice!Times : reading[t] # None => t < billTime

ClimbOf(name) == Climb(Says(name), ReadAt(name) \cup {Finish})

\* What two meters climbed, up to what they show now, was printed.
ClimbsPrinted == ClimbOf("mono") + ClimbOf("color") <= metered.printed

MetersInv ==
    /\ metered \in [mono : Nat, color : Nat, printed : 0..MaxPages]
    /\ ReadingsTyped /\ ClimbsPrinted

LEMMA BillConstants ==
    /\ PerMonth \in Nat \ {0} /\ InvoiceMonths \in Nat /\ MaxPages \in Nat /\ None \notin Nat
    /\ Finish \in Nat /\ Invoice!Times = 0..(Finish - 1) /\ Invoice!AllMonths = 0..(InvoiceMonths - 1)
    /\ Invoice!Meters = {"pages", "mono", "color"}
<1>1. PerMonth \in Nat \ {0} /\ InvoiceMonths \in Nat /\ MaxPages \in Nat /\ None \notin Nat
    BY DataAssumption DEF Invoice!BillingAssumption
<1>2. Finish \in Nat
    BY <1>1 DEF Finish
<1> QED
    BY <1>1, <1>2 DEF Finish, Invoice!Times, Invoice!AllMonths, Invoice!Meters

\* The month of a time.
LEMMA MonthsOrdered ==
    /\ \A t \in Nat : Month[t] \in Nat /\ Month[t] = Invoice!MonthOf(t)
    /\ \A t, u \in Nat : t <= u => Month[t] <= Month[u]
    /\ \A t \in Invoice!Times : Month[t] \in Invoice!AllMonths
<1>0. PerMonth \in Nat \ {0} /\ InvoiceMonths \in Nat
    BY BillConstants
<1>1. \A t \in Nat : /\ t \div PerMonth \in Nat /\ t % PerMonth \in 0..(PerMonth - 1)
                     /\ t = PerMonth * (t \div PerMonth) + (t % PerMonth)
    BY <1>0
<1>2. \A t \in Nat : Month[t] \in Nat /\ Month[t] = Invoice!MonthOf(t)
    BY <1>1 DEF Month, Invoice!MonthOf
<1>3. \A t, u \in Nat : t <= u => Month[t] <= Month[u]
    BY <1>0, <1>1 DEF Month
<1>4. ASSUME NEW t \in Invoice!Times PROVE Month[t] \in Invoice!AllMonths
    <2> DEFINE q == t \div PerMonth
    <2>1. t \in Nat /\ t < PerMonth * InvoiceMonths
        BY BillConstants DEF Finish
    <2>2. q \in Nat /\ PerMonth * q <= t
        <3> DEFINE r == t % PerMonth
        <3>1. q \in Nat /\ r \in Nat /\ t = PerMonth * q + r
            BY <1>0, <1>1, <2>1
        <3>2. PerMonth * q \in Nat
            BY <1>0, <3>1
        <3> DEFINE pq == PerMonth * q
        <3> HIDE DEF q, r, pq
        <3>3. pq <= t
            BY <3>1, <3>2 DEF pq
        <3> QED
            BY <3>1, <3>3 DEF pq
    <2>3. Month[t] = q
        BY <2>1 DEF Month
    <2> HIDE DEF q
    <2>4. ASSUME InvoiceMonths <= q PROVE FALSE
        <3> DEFINE d == q - InvoiceMonths
        <3>1. d \in Nat /\ q = InvoiceMonths + d
            BY <1>0, <2>2, <2>4
        <3> HIDE DEF d
        <3>2. PerMonth * d \in Nat /\ PerMonth * q = PerMonth * InvoiceMonths + PerMonth * d
            BY <1>0, <3>1
        <3>3. PerMonth * q \in Nat /\ PerMonth * InvoiceMonths \in Nat
            BY <1>0, <2>2
        <3> QED
            BY <2>1, <2>2, <3>2, <3>3
    <2>5. q \in 0..(InvoiceMonths - 1)
        BY <1>0, <2>2, <2>4
    <2> QED
        BY <2>3, <2>5, BillConstants
<1> QED
    BY <1>2, <1>3, <1>4

\* What a meter said.
LEMMA SaysCounts ==
    ASSUME ReadingsTyped, metered \in [mono : Nat, color : Nat, printed : 0..MaxPages],
           NEW name \in Invoice!Meters
    PROVE  /\ ReadAt(name) \in SUBSET Invoice!Times /\ ReadAt(name) \in SUBSET Nat
           /\ IsFiniteSet(ReadAt(name))
           /\ \A t \in ReadAt(name) : /\ t < Finish /\ t < billTime
                                     /\ Says(name)[t] = reading[t][name] /\ Says(name)[t] \in Nat
           /\ Says(name)[Finish] = Invoice!Meter(name) /\ Says(name)[Finish] \in Nat
           /\ \A t \in Invoice!Times :
                 t \in ReadAt(name) <=> reading[t] # None /\ reading[t][name] # None
<1>1. ReadAt(name) \in SUBSET Invoice!Times
    BY DEF ReadAt, Invoice!Carrying
<1>2. ReadAt(name) \in SUBSET Nat /\ \A t \in ReadAt(name) : t < Finish
    BY <1>1, BillConstants
<1>3. IsFiniteSet(ReadAt(name))
    <2>1. IsFiniteSet(Invoice!Times)
        BY BillConstants, FS_Interval
    <2> QED
        BY <1>1, <2>1, FS_Subset
<1>4. \A t \in Invoice!Times : t \in ReadAt(name) <=> reading[t] # None /\ reading[t][name] # None
    BY DEF ReadAt, Invoice!Carrying
<1>5. \A t \in ReadAt(name) : t < billTime /\ reading[t][name] \in Nat
    BY <1>1, <1>4 DEF ReadingsTyped
<1>6. \A t \in ReadAt(name) : Says(name)[t] = reading[t][name]
    BY <1>2 DEF Says
<1>7. Says(name)[Finish] = Invoice!Meter(name)
    BY BillConstants DEF Says
<1>8. Invoice!Meter(name) \in Nat
    BY BillConstants DEF Invoice!Meter
<1> QED
    BY <1>1, <1>2, <1>3, <1>4, <1>5, <1>6, <1>7, <1>8

\* positive_delta is what a meter climbed.
LEMMA DeltaIs ==
    ASSUME ReadingsTyped, metered \in [mono : Nat, color : Nat, printed : 0..MaxPages],
           NEW name \in Invoice!Meters, NEW times \in SUBSET ReadAt(name)
    PROVE  Invoice!PositiveDelta(name, times) = Climb(Says(name), times)
<1> DEFINE E(t) == {u \in times : u < t}
           L(t) == CHOOSE u \in E(t) : \A w \in E(t) : w <= u
           Step(t) == IF E(t) # {} /\ reading[t][name] > reading[L(t)][name]
                      THEN reading[t][name] - reading[L(t)][name] ELSE 0
           One1(g) == g = [s \in SUBSET times |->
                             IF s = {} THEN 0 ELSE Step(FirstOf(s)) + g[s \ {FirstOf(s)}]]
           F == Rises(Says(name), times)
<1>1. Invoice!PositiveDelta(name, times) = (CHOOSE g : One1(g))[times]
    BY DEF Invoice!PositiveDelta, Invoice!MapThenSumSet, Invoice!MapThenFoldSet, FirstOf
<1>2. ASSUME NEW t \in times PROVE F[t] = Step(t)
    <2>1. E(t) = Earlier(times, t) /\ L(t) = LastOf(Earlier(times, t))
        BY DEF Earlier, LastOf
    <2>2. \A u \in times : Says(name)[u] = reading[u][name]
        BY SaysCounts
    <2>3. times \in SUBSET Nat /\ IsFiniteSet(times) /\ \A u \in times : Says(name)[u] \in Nat
        BY SaysCounts, FS_Subset
    <2>4. F[t] = RiseAt(Says(name), times, t)
        BY <2>3, RisesCount
    <2>5. E(t) # {} => L(t) \in times
        BY <2>1, <2>3, RisesCount
    <2> HIDE DEF E, L, F
    <2> QED
        BY <2>1, <2>2, <2>4, <2>5 DEF RiseAt
<1> HIDE DEF F
<1>3. \A s \in SUBSET times : s # {} => FirstOf(s) \in times
    BY DEF FirstOf
<1>4. \A s \in SUBSET times : s # {} => F[FirstOf(s)] = Step(FirstOf(s))
    BY <1>2, <1>3
<1> HIDE DEF Step
<1>5. \A g : Adds(F, times, g) <=> One1(g)
    BY <1>4 DEF Adds
<1>6. (CHOOSE g : Adds(F, times, g)) = CHOOSE g : One1(g)
    BY <1>5
<1> QED
    BY <1>1, <1>6 DEF SumOver, Climb, F

\* What a month is billed for one meter.
MonthBill(name) == [m \in Invoice!AllMonths |-> Invoice!Known(Invoice!PeriodMeter(name, m))]

LEMMA MonthBillIs ==
    ASSUME ReadingsTyped, metered \in [mono : Nat, color : Nat, printed : 0..MaxPages],
           NEW name \in Invoice!Meters
    PROVE  /\ \A m \in Invoice!AllMonths : MonthBill(name)[m] \in Nat
           /\ SumOver(MonthBill(name), Invoice!AllMonths) = Climb(Says(name), ReadAt(name))
<1> DEFINE C == ReadAt(name)
           v == Says(name)
           M == Invoice!AllMonths
           g == MonthBill(name)
<1>1. /\ C \subseteq Nat /\ IsFiniteSet(C) /\ \A t \in C : v[t] \in Nat
      /\ \A t \in C : t \in Invoice!Times
    BY SaysCounts
<1>2. M \subseteq Nat /\ IsFiniteSet(M)
    <2>1. IsFiniteSet(0..(InvoiceMonths - 1))
        BY BillConstants, FS_Interval
    <2> QED
        BY <2>1, BillConstants
<1>3. (\A t \in C : Month[t] \in M) /\ \A t, u \in C : t <= u => Month[t] <= Month[u]
    BY <1>1, MonthsOrdered
<1>4. ASSUME NEW m \in M
      PROVE  /\ g[m] = IF Inside(C, Month, m) = {} THEN 0
                       ELSE Climb(v, LastBefore(C, Month, m) \cup Inside(C, Month, m))
             /\ g[m] \in Nat
    <2> DEFINE I == Inside(C, Month, m)
               B == LastBefore(C, Month, m)
    <2>1. I = {t \in Invoice!Carrying(name) : Invoice!MonthOf(t) = m}
        BY <1>1, MonthsOrdered DEF Inside, ReadAt
    <2>2. B = Invoice!Baseline(name, m)
        <3>1. Prior(C, Month, m) = {t \in Invoice!Carrying(name) : Invoice!MonthOf(t) < m}
            BY <1>1, MonthsOrdered DEF Prior, ReadAt
        <3> QED
            BY <3>1 DEF LastBefore, Invoice!Baseline
    <2>3. Invoice!PeriodMeter(name, m) = IF I = {} THEN None
                                         ELSE Invoice!PositiveDelta(name, B \cup I)
        BY <2>1, <2>2 DEF Invoice!PeriodMeter
    <2>4. B \cup I \in SUBSET C
        BY DEF LastBefore, Prior, Inside
    <2> HIDE DEF B, I
    <2>5. Invoice!PositiveDelta(name, B \cup I) = Climb(v, B \cup I)
        BY <2>4, DeltaIs
    <2>6. Climb(v, B \cup I) \in Nat
        <3> DEFINE W == B \cup I
        <3>1. W \in SUBSET Nat /\ IsFiniteSet(W) /\ \A t \in W : v[t] \in Nat
            BY <1>1, <2>4, FS_Subset
        <3> HIDE DEF W, v
        <3>2. Climb(v, W) \in Nat
            BY <3>1, RisesCount
        <3> QED
            BY <3>2 DEF W
    <2>7. g[m] = Invoice!Known(Invoice!PeriodMeter(name, m))
        BY DEF MonthBill
    <2>8. g[m] = IF I = {} THEN 0 ELSE Climb(v, B \cup I)
        BY <2>3, <2>5, <2>6, <2>7, BillConstants DEF Invoice!Known
    <2> QED
        BY <2>6, <2>8 DEF B, I
<1> HIDE DEF C, v, M, g
<1>5. ByMonth(g, M, C, Month, v)
    BY ONLY <1>4 DEF ByMonth
<1>6. SumOver(g, M) = Climb(v, C)
    <2>1. (\A t \in C : v[t] \in Nat) /\ C \subseteq Nat /\ IsFiniteSet(C)
        BY ONLY <1>1
    <2>2. (\A t \in C : Month[t] \in M) /\ \A t, u \in C : t <= u => Month[t] <= Month[u]
        BY ONLY <1>3
    <2> QED
        BY ONLY <1>2, <1>5, <2>1, <2>2, MonthsClimb
<1> QED
    BY <1>4, <1>6 DEF g, M, v, C

\* A sum over the months, as the sum of a function on them.
LEMMA TileHolds ==
    ASSUME ReadingsTyped, metered \in [mono : Nat, color : Nat, printed : 0..MaxPages]
    PROVE  Invoice!MonthsTile
<1>1. ASSUME NEW name \in Invoice!Meters
      PROVE  Invoice!OverMonths(LAMBDA month : Invoice!Known(Invoice!PeriodMeter(name, month)))
                = Invoice!PositiveDelta(name, Invoice!Carrying(name))
    <2> DEFINE M == Invoice!AllMonths
               Bill(m) == Invoice!Known(Invoice!PeriodMeter(name, m))
               One1(g) == g = [s \in SUBSET M |->
                                 IF s = {} THEN 0 ELSE Bill(FirstOf(s)) + g[s \ {FirstOf(s)}]]
               F == MonthBill(name)
    <2>1. Invoice!OverMonths(LAMBDA month : Invoice!Known(Invoice!PeriodMeter(name, month)))
             = (CHOOSE g : One1(g))[M]
        BY DEF Invoice!OverMonths, Invoice!MapThenSumSet, Invoice!MapThenFoldSet, FirstOf
    <2>2. \A s \in SUBSET M : s # {} => F[FirstOf(s)] = Bill(FirstOf(s))
        BY DEF FirstOf, MonthBill
    <2>3. SumOver(F, M) = Climb(Says(name), ReadAt(name))
        BY MonthBillIs
    <2>4. Invoice!PositiveDelta(name, ReadAt(name)) = Climb(Says(name), ReadAt(name))
        BY DeltaIs
    <2> HIDE DEF Bill, M, F
    <2>5. \A g : Adds(F, M, g) <=> One1(g)
        BY <2>2 DEF Adds
    <2>6. (CHOOSE g : Adds(F, M, g)) = CHOOSE g : One1(g)
        BY <2>5
    <2> QED
        BY <2>1, <2>3, <2>4, <2>6 DEF SumOver, ReadAt
<1> QED
    BY <1>1 DEF Invoice!MonthsTile

\* Under a card that excludes unsplit pages a month bills both classes' meters,
\* and the months together no more than was printed.
LEMMA BilledHolds ==
    ASSUME MetersInv
    PROVE  Invoice!PagesBilledOnce
<1> DEFINE M == Invoice!AllMonths
           B == [m \in M |-> Invoice!Billed(m, "exclude")]
           One1(g) == g = [s \in SUBSET M |->
                             IF s = {} THEN 0
                             ELSE Invoice!Billed(FirstOf(s), "exclude") + g[s \ {FirstOf(s)}]]
           f == MonthBill("mono")
           h == MonthBill("color")
<1>0. /\ ReadingsTyped /\ metered \in [mono : Nat, color : Nat, printed : 0..MaxPages]
      /\ "mono" \in Invoice!Meters /\ "color" \in Invoice!Meters
      /\ metered.printed \in Nat
    BY BillConstants DEF MetersInv
<1>1. Invoice!OverMonths(LAMBDA month : Invoice!Billed(month, "exclude")) = (CHOOSE g : One1(g))[M]
    BY DEF Invoice!OverMonths, Invoice!MapThenSumSet, Invoice!MapThenFoldSet, FirstOf
<1>2. \A m \in M : B[m] = f[m] + h[m]
    BY DEF Invoice!Billed, Invoice!Classify, MonthBill
<1>3. \A s \in SUBSET M : s # {} => B[FirstOf(s)] = Invoice!Billed(FirstOf(s), "exclude")
    BY DEF FirstOf
<1>4. /\ \A m \in M : f[m] \in Nat /\ h[m] \in Nat
      /\ SumOver(f, M) = Climb(Says("mono"), ReadAt("mono"))
      /\ SumOver(h, M) = Climb(Says("color"), ReadAt("color"))
    BY <1>0, MonthBillIs
<1>5. IsFiniteSet(M)
    <2>1. IsFiniteSet(0..(InvoiceMonths - 1))
        BY BillConstants, FS_Interval
    <2> QED
        BY <2>1, BillConstants
<1>6. ASSUME NEW name \in {"mono", "color"}
      PROVE  /\ Climb(Says(name), ReadAt(name)) <= ClimbOf(name)
             /\ Climb(Says(name), ReadAt(name)) \in Nat /\ ClimbOf(name) \in Nat
    <2> DEFINE T == ReadAt(name) \cup {Finish}
               v == Says(name)
    <2>1. T \in SUBSET Nat /\ IsFiniteSet(T) /\ \A t \in T : v[t] \in Nat
        BY <1>0, SaysCounts, BillConstants, FS_AddElement
    <2>2. ReadAt(name) \in SUBSET T
        OBVIOUS
    <2>3. IsFiniteSet(ReadAt(name)) /\ ReadAt(name) \in SUBSET Nat /\ \A t \in ReadAt(name) : v[t] \in Nat
        BY <1>0, SaysCounts
    <2>4. ClimbOf(name) = Climb(v, T)
        BY DEF ClimbOf
    <2> HIDE DEF T, v
    <2>5. Climb(v, ReadAt(name)) <= Climb(v, T)
        BY <2>1, <2>2, ClimbFewer
    <2>6. Climb(v, T) \in Nat
        BY <2>1, RisesCount
    <2>7. Climb(v, ReadAt(name)) \in Nat
        BY <2>3, RisesCount
    <2> QED
        BY <2>4, <2>5, <2>6, <2>7 DEF v
<1> HIDE DEF f, h, M, B
<1>7. \A g : Adds(B, M, g) <=> One1(g)
    BY <1>3 DEF Adds
<1>8. (CHOOSE g : Adds(B, M, g)) = CHOOSE g : One1(g)
    BY <1>7
<1>9. SumOver(B, M) = SumOver(f, M) + SumOver(h, M)
    BY <1>2, <1>4, <1>5, SumBoth
<1>10. SumOver(B, M) <= metered.printed
    <2>1. ClimbOf("mono") + ClimbOf("color") <= metered.printed
        BY DEF MetersInv, ClimbsPrinted
    <2> QED
        BY <1>0, <1>4, <1>6, <1>9, <2>1
<1> QED
    BY <1>1, <1>8, <1>10 DEF SumOver, Invoice!PagesBilledOnce

\* What was read of every meter, as a fact of a state.
MeteredTyped == metered \in [mono : Nat, color : Nat, printed : 0..MaxPages]
SaysSound ==
    \A name \in Invoice!Meters :
        /\ ReadAt(name) \in SUBSET Nat /\ IsFiniteSet(ReadAt(name))
        /\ \A t \in ReadAt(name) : /\ t \in Invoice!Times /\ t < Finish /\ t < billTime
                                  /\ Says(name)[t] = reading[t][name] /\ Says(name)[t] \in Nat
        /\ Says(name)[Finish] = Invoice!Meter(name) /\ Says(name)[Finish] \in Nat
        /\ \A t \in Invoice!Times :
              t \in ReadAt(name) <=> reading[t] # None /\ reading[t][name] # None

LEMMA SaysNext ==
    /\ ReadingsTyped /\ MeteredTyped => SaysSound
    /\ (ReadingsTyped /\ MeteredTyped => SaysSound)'
<1>1. ReadingsTyped /\ MeteredTyped => SaysSound
    <2> SUFFICES ASSUME ReadingsTyped, MeteredTyped, NEW name \in Invoice!Meters
                 PROVE  /\ ReadAt(name) \in SUBSET Nat /\ IsFiniteSet(ReadAt(name))
                        /\ \A t \in ReadAt(name) :
                              /\ t \in Invoice!Times /\ t < Finish /\ t < billTime
                              /\ Says(name)[t] = reading[t][name] /\ Says(name)[t] \in Nat
                        /\ Says(name)[Finish] = Invoice!Meter(name) /\ Says(name)[Finish] \in Nat
                        /\ \A t \in Invoice!Times :
                              t \in ReadAt(name) <=> reading[t] # None /\ reading[t][name] # None
        BY DEF SaysSound
    <2> QED
        BY SaysCounts DEF MeteredTyped
<1> QED
    BY <1>1, PTL

\* Readings that are kept as they were, or go: a meter climbed no more than
\* before, but for the pages it shows in addition.
LEMMA KeptClimb ==
    ASSUME SaysSound, SaysSound', NEW name \in Invoice!Meters, NEW more \in Nat,
           ReadAt(name)' \subseteq ReadAt(name),
           \A t \in ReadAt(name)' : reading'[t][name] = reading[t][name],
           Invoice!Meter(name)' <= Invoice!Meter(name) + more
    PROVE  ClimbOf(name)' <= ClimbOf(name) + more
<1> DEFINE T == ReadAt(name)
           U == ReadAt(name)'
           v == Says(name)
           w == Says(name)'
<1>1. /\ T \in SUBSET Nat /\ IsFiniteSet(T) /\ \A t \in T : v[t] \in Nat /\ t < Finish
      /\ v[Finish] \in Nat /\ v[Finish] = Invoice!Meter(name)
      /\ \A t \in T : v[t] = reading[t][name]
    BY DEF SaysSound
<1>2. /\ U \in SUBSET Nat /\ IsFiniteSet(U) /\ \A t \in U : w[t] \in Nat
      /\ w[Finish] \in Nat /\ w[Finish] = Invoice!Meter(name)'
      /\ \A t \in U : w[t] = reading'[t][name]
    BY DEF SaysSound
<1>3. U \subseteq T /\ \A t \in U : w[t] = v[t]
    BY <1>1, <1>2
<1>4. w[Finish] <= v[Finish] + more
    BY <1>1, <1>2
<1>5. ClimbOf(name) = Climb(v, T \cup {Finish}) /\ ClimbOf(name)' = Climb(w, U \cup {Finish})
    BY DEF ClimbOf
<1>6. Finish \in Nat
    BY BillConstants
<1> HIDE DEF T, U, v, w
<1>7. Climb(w, U \cup {Finish}) <= Climb(v, U \cup {Finish}) + more
    <2>1. U \in SUBSET Nat /\ IsFiniteSet(U) /\ \A t \in U : t < Finish
        BY <1>1, <1>2, <1>3
    <2>2. \A t \in U : v[t] \in Nat /\ w[t] = v[t]
        BY <1>1, <1>3
    <2> QED
        BY <1>1, <1>2, <1>4, <1>6, <2>1, <2>2, ClimbTop
<1>8. /\ Climb(v, U \cup {Finish}) <= Climb(v, T \cup {Finish})
      /\ Climb(v, U \cup {Finish}) \in Nat /\ Climb(v, T \cup {Finish}) \in Nat
      /\ Climb(w, U \cup {Finish}) \in Nat
    <2> DEFINE TT == T \cup {Finish}
               UU == U \cup {Finish}
    <2>1. TT \in SUBSET Nat /\ IsFiniteSet(TT) /\ \A t \in TT : v[t] \in Nat
        BY <1>1, <1>6, FS_AddElement
    <2>2. UU \in SUBSET Nat /\ IsFiniteSet(UU) /\ \A t \in UU : v[t] \in Nat /\ w[t] \in Nat
        BY <1>1, <1>2, <1>3, <1>6, FS_AddElement
    <2>3. UU \in SUBSET TT
        BY <1>3
    <2> HIDE DEF TT, UU
    <2>4. Climb(v, UU) <= Climb(v, TT)
        BY <2>1, <2>3, ClimbFewer
    <2>5. Climb(v, UU) \in Nat /\ Climb(v, TT) \in Nat /\ Climb(w, UU) \in Nat
        BY <2>1, <2>2, RisesCount
    <2> QED
        BY <2>4, <2>5 DEF TT, UU
<1> QED
    BY <1>5, <1>7, <1>8

\* One reading more, of what the meter shows: nothing more climbed.
LEMMA ReadClimb ==
    ASSUME SaysSound, SaysSound', NEW name \in Invoice!Meters,
           billTime \in Nat, billTime < Finish,
           ReadAt(name)' = ReadAt(name) \cup {billTime},
           \A t \in ReadAt(name) : reading'[t][name] = reading[t][name],
           reading'[billTime][name] = Invoice!Meter(name),
           Invoice!Meter(name)' = Invoice!Meter(name)
    PROVE  ClimbOf(name)' <= ClimbOf(name)
<1> DEFINE T == ReadAt(name)
           v == Says(name)
           w == Says(name)'
<1>1. /\ T \in SUBSET Nat /\ IsFiniteSet(T) /\ \A t \in T : v[t] \in Nat /\ t < billTime
      /\ v[Finish] \in Nat /\ v[Finish] = Invoice!Meter(name)
      /\ \A t \in T : v[t] = reading[t][name]
    BY DEF SaysSound
<1>2. /\ w[Finish] = Invoice!Meter(name)'
      /\ \A t \in ReadAt(name)' : w[t] = reading'[t][name]
    BY DEF SaysSound
<1>3. (\A t \in T : w[t] = v[t]) /\ w[Finish] = v[Finish] /\ w[billTime] = v[Finish]
    BY <1>1, <1>2
<1>4. ClimbOf(name) = Climb(v, T \cup {Finish})
    BY DEF ClimbOf
<1>5. ClimbOf(name)' = Climb(w, T \cup {billTime, Finish})
    <2>1. ReadAt(name)' \cup {Finish} = T \cup {billTime, Finish}
        OBVIOUS
    <2> QED
        BY <2>1 DEF ClimbOf
<1>6. Finish \in Nat
    BY BillConstants
<1> HIDE DEF T, v, w
<1>7. Climb(w, T \cup {billTime, Finish}) <= Climb(v, T \cup {Finish})
    BY <1>1, <1>3, <1>6, ClimbRead
<1> QED
    BY <1>4, <1>5, <1>7

\* Before the first reading nothing climbed.
LEMMA ClimbOne ==
    ASSUME NEW x \in Nat, NEW v, v[x] \in Nat
    PROVE  Climb(v, {x}) = 0
<1>1. {x} \in SUBSET Nat /\ IsFiniteSet({x}) /\ \A t \in {x} : v[t] \in Nat
    BY FS_Singleton
<1>2. RiseAt(v, {x}, x) = 0
    <2>1. \A u \in {x} : ~(u < x)
        OBVIOUS
    <2> QED
        BY <1>1, <2>1, RiseIs
<1> DEFINE F == Rises(v, {x})
<1>3. F[x] = 0
    BY <1>1, <1>2, RisesCount
<1> HIDE DEF F
<1>4. SumOver(F, {x}) = F[x] + SumOver(F, {x} \ {x})
    <2>1. \A y \in {x} : F[y] \in Nat
        BY <1>3
    <2>2. IsFiniteSet({x}) /\ x \in {x}
        BY <1>1
    <2> QED
        BY ONLY <2>1, <2>2, SumOut
<1>5. SumOver(F, {}) = 0
    BY SumStep, FS_EmptySet
<1>6. {x} \ {x} = {}
    OBVIOUS
<1> QED
    BY <1>3, <1>4, <1>5, <1>6 DEF Climb, F

LEMMA ClimbsCount ==
    ASSUME SaysSound, SaysSound', NEW name \in Invoice!Meters
    PROVE  ClimbOf(name) \in Nat /\ ClimbOf(name)' \in Nat
<1>1. Finish \in Nat
    BY BillConstants
<1>2. ASSUME NEW T \in SUBSET Nat, IsFiniteSet(T), NEW v, \A t \in T : v[t] \in Nat,
             v[Finish] \in Nat
      PROVE  Climb(v, T \cup {Finish}) \in Nat
    <2> DEFINE U == T \cup {Finish}
    <2>1. U \in SUBSET Nat /\ IsFiniteSet(U) /\ \A t \in U : v[t] \in Nat
        BY <1>1, <1>2, FS_AddElement
    <2> HIDE DEF U
    <2>2. Climb(v, U) \in Nat
        BY <2>1, RisesCount
    <2> QED
        BY <2>2 DEF U
<1> QED
    BY <1>2 DEF SaysSound, ClimbOf

\* Every step of the meters keeps what they climbed within what was printed.
LEMMA MetersStep ==
    ASSUME MetersInv, [Invoice!Next]_invoiceVars
    PROVE  MetersInv'
<1> DEFINE Mono == ClimbOf("mono")
           Color == ClimbOf("color")
<1>0. /\ MeteredTyped /\ ReadingsTyped /\ SaysSound
      /\ "mono" \in Invoice!Meters /\ "color" \in Invoice!Meters
      /\ metered.printed \in Nat /\ Finish \in Nat
    BY SaysNext, BillConstants DEF MetersInv, MeteredTyped
<1>1. ASSUME MeteredTyped', ReadingsTyped',
             NEW a \in Nat, NEW b \in Nat,
             metered'.printed = metered.printed + a + b,
             SaysSound' => Mono' <= Mono + a /\ Color' <= Color + b
      PROVE  MetersInv'
    <2>1. SaysSound'
        BY <1>1, SaysNext
    <2>2. Mono \in Nat /\ Color \in Nat /\ Mono' \in Nat /\ Color' \in Nat
        BY <1>0, <2>1, ClimbsCount
    <2>3. Mono + Color <= metered.printed
        BY DEF MetersInv, ClimbsPrinted
    <2>4. Mono' <= Mono + a /\ Color' <= Color + b
        BY <1>1, <2>1
    <2> HIDE DEF Mono, Color
    <2>5. Mono' + Color' <= metered'.printed
        BY <1>0, <1>1, <2>2, <2>3, <2>4
    <2> QED
        BY <1>1, <2>5 DEF MetersInv, ClimbsPrinted, MeteredTyped, Mono, Color
<1>2. ASSUME MeteredTyped', reading' = reading, billTime' = billTime,
             NEW a \in Nat, NEW b \in Nat,
             metered'.printed = metered.printed + a + b,
             metered'.mono <= metered.mono + a, metered'.color <= metered.color + b
      PROVE  MetersInv'
    <2>1. ReadingsTyped'
        BY <1>0, <1>2 DEF ReadingsTyped, Invoice!Times, Invoice!Meters, Finish
    <2>2. \A name : ReadAt(name)' = ReadAt(name)
        BY <1>2 DEF ReadAt, Invoice!Carrying, Invoice!Times
    <2>3. /\ Invoice!Meter("mono") = metered.mono /\ Invoice!Meter("mono")' = metered'.mono
          /\ Invoice!Meter("color") = metered.color /\ Invoice!Meter("color")' = metered'.color
        BY DEF Invoice!Meter
    <2>4. ASSUME SaysSound' PROVE Mono' <= Mono + a /\ Color' <= Color + b
        <3>1. \A name \in Invoice!Meters :
                 /\ ReadAt(name)' \subseteq ReadAt(name)
                 /\ \A t \in ReadAt(name)' : reading'[t][name] = reading[t][name]
            BY <1>2, <2>2
        <3>2. Mono' <= Mono + a
            BY <1>0, <1>2, <2>3, <2>4, <3>1, KeptClimb
        <3>3. Color' <= Color + b
            BY <1>0, <1>2, <2>3, <2>4, <3>1, KeptClimb
        <3> QED
            BY <3>2, <3>3
    <2> QED
        BY <1>1, <1>2, <2>1, <2>4
<1>20. /\ metered = [mono |-> metered.mono, color |-> metered.color, printed |-> metered.printed]
       /\ metered.mono \in Nat /\ metered.color \in Nat /\ metered.printed \in 0..MaxPages
       /\ MaxPages \in Nat
    BY <1>0, BillConstants DEF MeteredTyped
<1>3. CASE UNCHANGED <<metered, reading, billTime>>
    <2>1. /\ MeteredTyped' /\ metered'.printed = metered.printed + 0 + 0
          /\ metered'.mono <= metered.mono + 0 /\ metered'.color <= metered.color + 0
        BY <1>0, <1>3 DEF MeteredTyped
    <2> QED
        BY <1>2, <1>3, <2>1
<1>4. ASSUME NEW class \in Invoice!Classes, Invoice!PrintPage(class) PROVE MetersInv'
    <2>1. metered.printed < MaxPages /\ reading' = reading /\ billTime' = billTime
        BY <1>4 DEF Invoice!PrintPage
    <2>2. CASE class = "mono"
        <3>1. metered' = [mono |-> metered.mono + 1, color |-> metered.color,
                          printed |-> metered.printed + 1]
            <4>1. metered' = [metered EXCEPT !.mono = @ + 1, !.printed = @ + 1]
                BY <1>4, <2>2 DEF Invoice!PrintPage
            <4> QED
                BY <1>20, <4>1
        <3>2. /\ MeteredTyped' /\ metered'.printed = metered.printed + 1 + 0
              /\ metered'.mono <= metered.mono + 1 /\ metered'.color <= metered.color + 0
            BY <1>0, <1>20, <2>1, <3>1, BillConstants DEF MeteredTyped
        <3> QED
            BY <1>2, <2>1, <3>2
    <2>3. CASE class # "mono"
        <3>1. metered' = [mono |-> metered.mono, color |-> metered.color + 1,
                          printed |-> metered.printed + 1]
            <4>1. metered' = [metered EXCEPT !.color = @ + 1, !.printed = @ + 1]
                BY <1>4, <2>3 DEF Invoice!PrintPage
            <4> QED
                BY <1>20, <4>1
        <3>2. /\ MeteredTyped' /\ metered'.printed = metered.printed + 0 + 1
              /\ metered'.mono <= metered.mono + 0 /\ metered'.color <= metered.color + 1
            BY <1>0, <1>20, <2>1, <3>1, BillConstants DEF MeteredTyped
        <3> QED
            BY <1>2, <2>1, <3>2
    <2> QED
        BY <2>2, <2>3
<1>5. CASE Invoice!ResetMeters
    <2>1. /\ reading' = reading /\ billTime' = billTime
          /\ metered' = [mono |-> 0, color |-> 0, printed |-> metered.printed]
        <3>1. /\ reading' = reading /\ billTime' = billTime
              /\ metered' = [metered EXCEPT !.mono = 0, !.color = 0]
            BY <1>5 DEF Invoice!ResetMeters
        <3> QED
            BY <1>20, <3>1
    <2>2. /\ MeteredTyped' /\ metered'.printed = metered.printed + 0 + 0
          /\ metered'.mono <= metered.mono + 0 /\ metered'.color <= metered.color + 0
        BY <1>0, <1>20, <2>1 DEF MeteredTyped
    <2> QED
        BY <1>2, <2>1, <2>2
<1>6. ASSUME metered' = metered, ReadingsTyped',
             \A name \in Invoice!Meters : SaysSound' => ClimbOf(name)' <= ClimbOf(name)
      PROVE  MetersInv'
    <2>1. MeteredTyped' /\ metered'.printed = metered.printed + 0 + 0
        BY <1>0, <1>6 DEF MeteredTyped
    <2>2. ASSUME SaysSound' PROVE Mono' <= Mono + 0 /\ Color' <= Color + 0
        <3>1. Mono \in Nat /\ Color \in Nat /\ Mono' <= Mono /\ Color' <= Color
            BY <1>0, <1>6, <2>2, ClimbsCount
        <3> HIDE DEF Mono, Color
        <3> QED
            BY <3>1
    <2> QED
        BY <1>1, <1>6, <2>1, <2>2
<1>7. ASSUME metered' = metered, ReadingsTyped', NEW name \in Invoice!Meters, SaysSound',
             ReadAt(name)' \subseteq ReadAt(name),
             \A t \in ReadAt(name)' : reading'[t][name] = reading[t][name]
      PROVE  ClimbOf(name)' <= ClimbOf(name)
    <2>1. Invoice!Meter(name)' = Invoice!Meter(name)
        BY <1>7 DEF Invoice!Meter
    <2>2. Invoice!Meter(name) \in Nat
        BY <1>0 DEF SaysSound
    <2>3. Invoice!Meter(name)' <= Invoice!Meter(name) + 0
        BY <2>1, <2>2
    <2>4. ClimbOf(name)' <= ClimbOf(name) + 0
        BY <1>0, <1>7, <2>3, KeptClimb
    <2>5. ClimbOf(name) \in Nat /\ ClimbOf(name)' \in Nat
        BY <1>0, <1>7, ClimbsCount
    <2> QED
        BY <2>4, <2>5
<1>8. ASSUME NEW shown \in SUBSET Invoice!Meters, Invoice!Poll(shown) PROVE MetersInv'
    <2> DEFINE new == [name \in Invoice!Meters |-> IF name \in shown THEN Invoice!Meter(name) ELSE None]
    <2>1. /\ billTime \in Invoice!Times /\ billTime' = billTime + 1 /\ metered' = metered
          /\ reading' = [reading EXCEPT ![billTime] = new]
        BY <1>8 DEF Invoice!Poll
    <2>2. billTime \in Nat /\ billTime < Finish /\ billTime + 1 \in 0..Finish
        BY <2>1, BillConstants
    <2>3. \A name \in Invoice!Meters : Invoice!Meter(name) \in Nat
        BY <1>0 DEF SaysSound
    <2>4. new \in [Invoice!Meters -> Nat \cup {None}]
        BY <2>3
    <2> HIDE DEF new
    <2>5. /\ \A t \in Invoice!Times \ {billTime} : reading'[t] = reading[t]
          /\ reading'[billTime] = new
          /\ reading' \in [Invoice!Times -> [Invoice!Meters -> Nat \cup {None}] \cup {None}]
        BY <1>0, <2>1, <2>4 DEF ReadingsTyped
    <2>6. ReadingsTyped'
        <3>1. \A t \in Invoice!Times : reading'[t] # None => t < billTime'
            <4> SUFFICES ASSUME NEW t \in Invoice!Times, reading'[t] # None
                         PROVE  t < billTime + 1
                BY <2>1
            <4>1. CASE t = billTime
                BY <2>2, <4>1
            <4>2. CASE t # billTime
                <5>1. t < billTime /\ t \in Nat
                    BY <1>0, <2>5, <4>2, BillConstants DEF ReadingsTyped
                <5> QED
                    BY <2>2, <5>1
            <4> QED
                BY <4>1, <4>2
        <3> QED
            BY <2>1, <2>2, <2>5, <3>1 DEF ReadingsTyped, Invoice!Times, Invoice!Meters, Finish
    <2>7. ASSUME NEW name \in Invoice!Meters, SaysSound' PROVE ClimbOf(name)' <= ClimbOf(name)
        <3>1. billTime \notin ReadAt(name)
            <4>1. \A t \in ReadAt(name) : t < billTime
                BY <1>0 DEF SaysSound
            <4> QED
                BY <2>2, <4>1
        <3>2. \A t \in Invoice!Times : t \in ReadAt(name) <=> reading[t] # None /\ reading[t][name] # None
            BY <1>0 DEF SaysSound
        <3>3. /\ \A t \in Invoice!Times : t \in ReadAt(name)' <=> reading'[t] # None /\ reading'[t][name] # None
              /\ \A t \in ReadAt(name)' : t \in Invoice!Times
            BY <2>7 DEF SaysSound, Invoice!Times
        <3>4. \A t \in ReadAt(name) : t \in Invoice!Times
            BY <1>0 DEF SaysSound
        <3>5. \A t \in ReadAt(name) : reading'[t][name] = reading[t][name] /\ t \in ReadAt(name)'
            BY <2>5, <3>1, <3>2, <3>3, <3>4
        <3>6. \A t \in ReadAt(name)' : t # billTime => t \in ReadAt(name)
            BY <2>5, <3>2, <3>3
        <3>7. CASE billTime \in ReadAt(name)'
            <4>1. new[name] = Invoice!Meter(name)
                BY <2>1, <2>5, <3>3, <3>7 DEF new
            <4>2. ReadAt(name)' = ReadAt(name) \cup {billTime}
                BY <3>5, <3>6, <3>7
            <4>3. Invoice!Meter(name)' = Invoice!Meter(name)
                BY <2>1 DEF Invoice!Meter
            <4> QED
                BY <1>0, <2>2, <2>5, <2>7, <3>5, <4>1, <4>2, <4>3, ReadClimb
        <3>8. CASE billTime \notin ReadAt(name)'
            <4>1. /\ ReadAt(name)' \subseteq ReadAt(name)
                  /\ \A t \in ReadAt(name)' : reading'[t][name] = reading[t][name]
                BY <3>5, <3>6, <3>8
            <4> QED
                BY <1>7, <2>1, <2>6, <2>7, <4>1
        <3> QED
            BY <3>7, <3>8
    <2> QED
        BY <1>6, <2>1, <2>6, <2>7
<1>9. CASE Invoice!MissPoll
    <2>1. billTime \in Invoice!Times /\ billTime' = billTime + 1 /\ metered' = metered /\ reading' = reading
        BY <1>9 DEF Invoice!MissPoll
    <2>2. billTime \in Nat /\ billTime < Finish /\ billTime + 1 \in 0..Finish
        BY <2>1, BillConstants
    <2>3. ReadingsTyped'
        <3>1. \A t \in Invoice!Times : reading'[t] # None => t < billTime + 1
            <4> SUFFICES ASSUME NEW t \in Invoice!Times, reading'[t] # None
                         PROVE  t < billTime + 1
                OBVIOUS
            <4>1. t < billTime /\ t \in Nat
                BY <1>0, <2>1, BillConstants DEF ReadingsTyped
            <4> QED
                BY <2>2, <4>1
        <3> QED
            BY <1>0, <2>1, <2>2, <3>1 DEF ReadingsTyped, Invoice!Times, Invoice!Meters, Finish
    <2>4. ASSUME NEW name \in Invoice!Meters, SaysSound' PROVE ClimbOf(name)' <= ClimbOf(name)
        <3>1. ReadAt(name)' = ReadAt(name)
            BY <2>1 DEF ReadAt, Invoice!Carrying, Invoice!Times
        <3> QED
            BY <1>7, <2>1, <2>3, <2>4, <3>1
    <2> QED
        BY <1>6, <2>1, <2>3, <2>4
<1>10. ASSUME NEW month \in Invoice!AllMonths, Invoice!Prune(month) PROVE MetersInv'
    <2>1. /\ billTime' = billTime /\ metered' = metered
          /\ reading' = [t \in Invoice!Times |-> IF Invoice!MonthOf(t) = month THEN None ELSE reading[t]]
        BY <1>10 DEF Invoice!Prune
    <2>2. \A t \in Invoice!Times : reading'[t] = reading[t] \/ reading'[t] = None
        BY <2>1
    <2>3. ReadingsTyped'
        <3>1. reading' \in [Invoice!Times -> [Invoice!Meters -> Nat \cup {None}] \cup {None}]
            BY <1>0, <2>1 DEF ReadingsTyped
        <3>2. \A t \in Invoice!Times : reading'[t] # None => t < billTime'
            BY <1>0, <2>1, <2>2 DEF ReadingsTyped
        <3> QED
            BY <1>0, <2>1, <3>1, <3>2 DEF ReadingsTyped, Invoice!Times, Invoice!Meters, Finish
    <2>4. ASSUME NEW name \in Invoice!Meters, SaysSound' PROVE ClimbOf(name)' <= ClimbOf(name)
        <3>1. \A t \in Invoice!Times : t \in ReadAt(name) <=> reading[t] # None /\ reading[t][name] # None
            BY <1>0 DEF SaysSound
        <3>2. /\ \A t \in Invoice!Times : t \in ReadAt(name)' <=> reading'[t] # None /\ reading'[t][name] # None
              /\ \A t \in ReadAt(name)' : t \in Invoice!Times
            BY <2>4 DEF SaysSound, Invoice!Times
        <3>3. /\ ReadAt(name)' \subseteq ReadAt(name)
              /\ \A t \in ReadAt(name)' : reading'[t][name] = reading[t][name]
            BY <2>2, <3>1, <3>2
        <3> QED
            BY <1>7, <2>1, <2>3, <2>4, <3>3
    <2> QED
        BY <1>6, <2>1, <2>3, <2>4
<1>11. CASE Invoice!CardStep
    <2> DEFINE Rests == UNCHANGED <<metered, reading, billTime>>
    <2>1. ASSUME NEW c \in Cards, NEW mono, NEW color, NEW minimum, NEW policy,
                 Invoice!CreateCard(c, mono, color, minimum, policy)
                    \/ Invoice!UpdateCard(c, mono, color, minimum, policy)
          PROVE  Rests
        BY <2>1 DEF Invoice!CreateCard, Invoice!UpdateCard
    <2>2. ASSUME NEW a \in Admins, Invoice!EndActivate(a) \/ \E c \in Cards : Invoice!BeginActivate(a, c)
          PROVE  Rests
        BY <2>2 DEF Invoice!EndActivate, Invoice!BeginActivate
    <2>3. ASSUME NEW c \in Cards, Invoice!DeleteCard(c)
          PROVE  Rests
        BY <2>3 DEF Invoice!DeleteCard
    <2>4. ASSUME NEW c \in Cards, NEW tier, Invoice!CreateTier(c, tier) \/ Invoice!DeleteTier(c, tier)
          PROVE  Rests
        BY <2>4 DEF Invoice!CreateTier, Invoice!DeleteTier
    <2> HIDE DEF Rests
    <2>5. Rests
        BY <1>11, <2>1, <2>2, <2>3, <2>4 DEF Invoice!CardStep
    <2> QED
        BY <1>3, <2>5 DEF Rests
<1>12. CASE UNCHANGED invoiceVars
    BY <1>3, <1>12 DEF invoiceVars
<1> QED
    BY <1>4, <1>5, <1>8, <1>9, <1>10, <1>11, <1>12 DEF Invoice!Next, Invoice!MeterStep

\* For any number of polls, months and pages: what a printer's meters climbed, each
\* reading and each reset counted, is no more than it printed.
THEOREM MetersInvariant == Invoice!Spec => []MetersInv
<1>1. Invoice!Init => MetersInv
    <2> SUFFICES ASSUME Invoice!Init
                 PROVE  MetersInv
        OBVIOUS
    <2>1. /\ metered = [mono |-> 0, color |-> 0, printed |-> 0]
          /\ reading = [t \in Invoice!Times |-> None] /\ billTime = 0
        BY DEF Invoice!Init
    <2>2. MeteredTyped
        BY <2>1, BillConstants DEF MeteredTyped
    <2>3. ReadingsTyped
        BY <2>1, BillConstants DEF ReadingsTyped
    <2>4. SaysSound
        BY <2>2, <2>3, SaysNext
    <2>5. ASSUME NEW name \in Invoice!Meters PROVE ClimbOf(name) = 0
        <3>1. ReadAt(name) = {}
            BY <2>1 DEF ReadAt, Invoice!Carrying
        <3>2. Says(name)[Finish] \in Nat
            BY <2>4 DEF SaysSound
        <3>3. Climb(Says(name), {Finish}) = 0
            BY <3>2, ClimbOne, BillConstants
        <3>4. {} \cup {Finish} = {Finish}
            OBVIOUS
        <3> QED
            BY <3>1, <3>3, <3>4 DEF ClimbOf
    <2>6. ClimbsPrinted
        BY <2>1, <2>5, BillConstants DEF ClimbsPrinted
    <2> QED
        BY <2>2, <2>3, <2>6 DEF MetersInv, MeteredTyped
<1>2. MetersInv /\ [Invoice!Next]_invoiceVars => MetersInv'
    BY MetersStep
<1> QED
    BY <1>1, <1>2, PTL DEF Invoice!Spec, Invoice!vars, invoiceVars

\* For any number of polls, months, pages and meter resets, whatever a poll leaves out
\* and whatever retention deletes: while nothing is deleted the months of a meter add
\* up to what its readings climbed, and no month bills a page that was not printed or
\* that another month bills.
THEOREM MonthsAreTrue == Invoice!Spec => [](Invoice!MonthsTile /\ Invoice!PagesBilledOnce)
<1>1. MetersInv => Invoice!MonthsTile /\ Invoice!PagesBilledOnce
    BY TileHolds, BilledHolds DEF MetersInv
<1> QED
    BY <1>1, MetersInvariant, PTL

-----------------------------------------------------------------------------
(* The maintenance desk.                                                   *)

\* What the last service said of a schedule is true of its row: without a
\* page target it is not due on the day of the service; with one the row's
\* target is the one that was told, and a date that was there still is.
KeepsPromise(s) ==
    promise[s] # None =>
        /\ schedule[s] # None
        /\ promise[s].pages = None => \/ schedule[s].due = None
                                      \/ schedule[s].due > promise[s].day
        /\ promise[s].pages # None =>
              /\ schedule[s].threshold # 0 /\ schedule[s].printer # None
              /\ meter[schedule[s].printer] # None
              /\ promise[s].pages = Desk!PageTarget(schedule[s])
              /\ promise[s].dated => schedule[s].due # None

DeskInv == Desk!TypeOK /\ \A s \in Schedules : KeepsPromise(s)

LEMMA DeskConstants ==
    /\ Worn \in Nat /\ NewPart \in Nat /\ MaxDay \in Nat /\ MaxPages \in Nat
    /\ Dates \subseteq Nat /\ Intervals \subseteq Nat /\ Thresholds \subseteq Nat
    /\ None \notin Printers /\ None \notin Nat /\ None \notin Desk!Rows
    /\ None \notin Desk!Promises
BY DataAssumption DEF Desk!DeskAssumption

\* A row, and the target its pages give it.
LEMMA RowFields ==
    ASSUME Desk!TypeOK, NEW s \in Schedules, schedule[s] # None
    PROVE  /\ schedule[s] \in Desk!Rows
           /\ schedule[s].printer \in Printers \cup {None}
           /\ schedule[s].interval \in Nat /\ schedule[s].threshold \in Nat
           /\ schedule[s].due \in Nat \cup {None}
           /\ Desk!PageTarget(schedule[s]) \in Nat
           /\ schedule[s].printer # None => meter[schedule[s].printer] \in Nat \cup {None}
<1>1. /\ schedule[s] \in Desk!Rows
      /\ schedule[s].printer \in Printers \cup {None}
      /\ schedule[s].interval \in Nat /\ schedule[s].threshold \in Nat
      /\ schedule[s].due \in Nat \cup {None} /\ schedule[s].base \in Nat \cup {None}
    BY DeskConstants DEF Desk!TypeOK, Desk!Rows
<1>2. \A p \in Printers : meter[p] \in Nat \cup {None}
    BY DeskConstants DEF Desk!TypeOK
<1>3. Desk!PageTarget(schedule[s]) \in Nat
    BY <1>1 DEF Desk!PageTarget
<1> QED
    BY <1>1, <1>2, <1>3

\* The service of a schedule: its new row, and what is said of it.
LEMMA Serviced ==
    ASSUME Desk!TypeOK, NEW s \in Schedules, Desk!LogService(s)
    PROVE  /\ schedule' \in [Schedules -> Desk!Rows \cup {None}]
           /\ promise' \in [Schedules -> Desk!Promises \cup {None}]
           /\ records' \subseteq Printers
           /\ KeepsPromise(s)'
           /\ \A t \in Schedules \ {s} : schedule'[t] = schedule[t] /\ promise'[t] = promise[t]
<1> DEFINE r     == schedule[s]
           fixed == Desk!Anchored(r)
           due   == Desk!NextDue(r)
           base  == IF fixed THEN meter[r.printer] ELSE r.base
           after == [r EXCEPT !.due = due, !.base = base]
           pages == IF fixed /\ r.interval = 0 THEN Desk!PageTarget(after) ELSE None
           said  == [day |-> deskDay, dated |-> r.due # None, pages |-> pages]
<1>1. /\ r # None
      /\ schedule' = [schedule EXCEPT ![s] = after] /\ promise' = [promise EXCEPT ![s] = said]
      /\ records' = records \cup ({r.printer} \ {None})
      /\ UNCHANGED <<deskDay, meter, life, approved, alerts>>
    BY DEF Desk!LogService, Desk!Kept, Desk!fleetVars
<1>2. /\ r \in Desk!Rows /\ r.printer \in Printers \cup {None}
      /\ r.interval \in Nat /\ r.threshold \in Nat /\ r.due \in Nat \cup {None}
      /\ r.base \in Nat \cup {None}
      /\ r.printer # None => meter[r.printer] \in Nat \cup {None}
    BY <1>1, RowFields DEF Desk!Rows
<1>3. deskDay \in Nat
    BY DeskConstants DEF Desk!TypeOK
<1>4. fixed <=> r.threshold # 0 /\ r.printer # None /\ meter[r.printer] # None
    BY DEF Desk!Anchored
<1>5. due = IF r.interval # 0 THEN deskDay + r.interval ELSE IF fixed THEN r.due ELSE None
    BY DEF Desk!NextDue
<1>6. schedule \in [Schedules -> Desk!Rows \cup {None}]
      /\ promise \in [Schedules -> Desk!Promises \cup {None}]
    BY DEF Desk!TypeOK
<1> HIDE DEF r, fixed, due
<1>7. due \in Nat \cup {None} /\ base \in Nat \cup {None} /\ (fixed => base \in Nat)
    BY <1>2, <1>3, <1>4, <1>5
<1> HIDE DEF base
<1>8. /\ after \in Desk!Rows /\ after.due = due /\ after.base = base
      /\ after.threshold = r.threshold /\ after.printer = r.printer
    BY <1>2, <1>7 DEF Desk!Rows
<1> HIDE DEF after
<1>9. /\ Desk!PageTarget(after) \in Nat
      /\ fixed => Desk!PageTarget(after) # None
    BY <1>2, <1>7, <1>8, DeskConstants DEF Desk!PageTarget
<1>10. pages \in Nat \cup {None}
    BY <1>9
<1> HIDE DEF pages
<1>11. said \in Desk!Promises /\ said.day = deskDay /\ said.pages = pages
       /\ said.dated = (r.due # None)
    BY <1>3, <1>10 DEF Desk!Promises
<1> HIDE DEF said
<1>12. schedule'[s] = after /\ promise'[s] = said
    BY <1>1, <1>6
<1>13. KeepsPromise(s)'
    <2>1. after # None
        BY <1>8, DeskConstants
    <2>2. pages = None => due = None \/ due > deskDay
        <3>1. CASE fixed /\ r.interval = 0
            BY <1>9, <3>1 DEF pages
        <3>2. CASE r.interval # 0
            BY <1>2, <1>3, <1>5, <3>2
        <3>3. CASE ~fixed /\ r.interval = 0
            BY <1>5, <3>3
        <3> QED
            BY <3>1, <3>2, <3>3
    <2>3. pages # None => /\ fixed /\ due = r.due /\ pages = Desk!PageTarget(after)
        BY <1>5 DEF pages
    <2>4. meter' = meter /\ Desk!PageTarget(schedule'[s]) = Desk!PageTarget(after)
        BY <1>1, <1>12
    <2>5. Desk!PageTarget(schedule[s])' = Desk!PageTarget(schedule'[s])
        BY DEF Desk!PageTarget
    <2> QED
        BY <1>4, <1>8, <1>11, <1>12, <2>1, <2>2, <2>3, <2>4, <2>5 DEF KeepsPromise
<1>14. schedule' \in [Schedules -> Desk!Rows \cup {None}]
       /\ promise' \in [Schedules -> Desk!Promises \cup {None}]
    BY <1>1, <1>6, <1>8, <1>11
<1>15. records' \subseteq Printers
    BY <1>1, <1>2 DEF Desk!TypeOK
<1>16. \A t \in Schedules \ {s} : schedule'[t] = schedule[t] /\ promise'[t] = promise[t]
    BY <1>1, <1>6
<1> QED
    BY <1>13, <1>14, <1>15, <1>16

\* What is said of a schedule stays true while its row, and the count of a
\* printer that has one, are left alone.
LEMMA PromiseRests ==
    ASSUME Desk!TypeOK, NEW s \in Schedules, KeepsPromise(s),
           schedule'[s] = schedule[s], promise'[s] = promise[s] \/ promise'[s] = None,
           \A p \in Printers : meter[p] # None => meter'[p] # None
    PROVE  KeepsPromise(s)'
<1>1. schedule[s] # None => schedule[s].printer \in Printers \cup {None}
    BY RowFields
<1>2. Desk!PageTarget(schedule[s])' = Desk!PageTarget(schedule[s])
    BY DEF Desk!PageTarget
<1> QED
    BY <1>1, <1>2 DEF KeepsPromise

\* The worker's pass: what it finds due are keys of alerts.
LEMMA DueKeys ==
    ASSUME Desk!TypeOK
    PROVE  Desk!Due \subseteq Desk!Keys
<1> SUFFICES ASSUME NEW k \in Desk!Due
             PROVE  k \in Desk!Keys
    OBVIOUS
<1>1. CASE \E s \in Desk!Kept : Desk!DateDue(s)
                 /\ k = [schedule |-> s, printer |-> None, due |-> schedule[s].due]
    <2>1. PICK s \in Desk!Kept : Desk!DateDue(s)
                 /\ k = [schedule |-> s, printer |-> None, due |-> schedule[s].due]
        BY <1>1
    <2>2. s \in Schedules /\ schedule[s].due \in Nat
        BY <2>1, RowFields DEF Desk!Kept, Desk!DateDue
    <2> QED
        BY <2>1, <2>2 DEF Desk!Keys
<1>2. CASE k \in [schedule : Desk!Kept, printer : Printers, due : {None}]
    BY <1>2 DEF Desk!Keys, Desk!Kept
<1> QED
    BY <1>1, <1>2 DEF Desk!Due

\* What is done to the schedules of a printer.
LEMMA Rescheduled ==
    ASSUME DeskInv, NEW p \in Printers, NEW due \in Dates \cup {None}, Desk!AddMaintenance(p, due)
    PROVE  DeskInv'
<1> USE DEF DeskInv
<1> DEFINE moved(s) == [schedule[s] EXCEPT !.due =
                          IF due # None THEN due
                          ELSE IF schedule[s].interval # 0 THEN deskDay + schedule[s].interval
                          ELSE @]
<1>1. /\ schedule' = [s \in Schedules |-> IF s \notin Desk!Kept \/ schedule[s].printer # p
                                          THEN schedule[s] ELSE moved(s)]
      /\ promise' = [s \in Schedules |-> IF s \in Desk!Kept /\ schedule[s].printer = p
                                         THEN None ELSE promise[s]]
      /\ records' = records \cup {p}
      /\ UNCHANGED <<deskDay, meter, life, approved, alerts>>
    BY DEF Desk!AddMaintenance, Desk!fleetVars
<1>2. \A s \in Desk!Kept : moved(s) \in Desk!Rows
    <2> SUFFICES ASSUME NEW s \in Desk!Kept
                 PROVE  moved(s) \in Desk!Rows
        OBVIOUS
    <2>1. /\ s \in Schedules /\ schedule[s] \in Desk!Rows /\ schedule[s].interval \in Nat
          /\ schedule[s].due \in Nat \cup {None}
        BY RowFields DEF Desk!Kept
    <2>2. deskDay \in Nat /\ Dates \subseteq Nat
        BY DeskConstants DEF Desk!TypeOK
    <2> DEFINE next == IF due # None THEN due
                       ELSE IF schedule[s].interval # 0 THEN deskDay + schedule[s].interval
                       ELSE schedule[s].due
    <2>3. next \in Nat \cup {None}
        BY <2>1, <2>2
    <2> HIDE DEF next
    <2>4. [schedule[s] EXCEPT !.due = next] \in Desk!Rows
        BY <2>1, <2>3 DEF Desk!Rows
    <2> QED
        BY <2>4 DEF next
<1> HIDE DEF moved
<1>3. Desk!TypeOK'
    <2>1. schedule' \in [Schedules -> Desk!Rows \cup {None}]
        BY <1>1, <1>2 DEF Desk!TypeOK
    <2>2. promise' \in [Schedules -> Desk!Promises \cup {None}]
        BY <1>1 DEF Desk!TypeOK
    <2> QED
        BY <1>1, <2>1, <2>2 DEF Desk!TypeOK, Desk!Rows, Desk!Promises, Desk!Keys
<1>4. ASSUME NEW s \in Schedules
      PROVE  KeepsPromise(s)'
    <2>1. CASE s \in Desk!Kept /\ schedule[s].printer = p
        BY <1>1, <2>1 DEF KeepsPromise
    <2>2. CASE ~(s \in Desk!Kept /\ schedule[s].printer = p)
        <3>1. schedule'[s] = schedule[s] /\ promise'[s] = promise[s] /\ meter' = meter
            BY <1>1, <2>2
        <3> QED
            BY <3>1, PromiseRests
    <2> QED
        BY <2>1, <2>2
<1> QED
    BY <1>3, <1>4

LEMMA ScheduleEdited ==
    ASSUME DeskInv, NEW s \in Schedules, NEW i \in Intervals, NEW t \in Thresholds,
           NEW fit \in BOOLEAN, NEW d \in Dates \cup {None}, NEW p \in Printers \cup {None},
           Desk!UpdateSchedule(s, i, t, fit, d) \/ Desk!CreateSchedule(s, p, i, t, fit, d)
    PROVE  DeskInv'
<1> USE DEF DeskInv
<1>1. UNCHANGED <<deskDay, meter, life, approved, records, alerts>>
    BY DEF Desk!UpdateSchedule, Desk!CreateSchedule, Desk!fleetVars
<1>2. d \in Nat \cup {None}
    BY DeskConstants
<1>3. CASE Desk!CreateSchedule(s, p, i, t, fit, d)
    <2> DEFINE row2 == [printer |-> p, interval |-> i, threshold |-> t, part |-> fit,
                        due |-> d, base |-> None]
    <2>1. row2 \in Desk!Rows
        BY <1>2 DEF Desk!Rows
    <2>2. schedule[s] = None /\ schedule' = [schedule EXCEPT ![s] = row2] /\ promise' = promise
        BY <1>3 DEF Desk!CreateSchedule
    <2> HIDE DEF row2
    <2>3. Desk!TypeOK'
        <3>1. schedule' \in [Schedules -> Desk!Rows \cup {None}]
            BY <2>1, <2>2 DEF Desk!TypeOK
        <3> QED
            BY <1>1, <2>2, <3>1 DEF Desk!TypeOK, Desk!Rows, Desk!Promises, Desk!Keys
    <2>4. promise[s] = None
        BY <2>2 DEF KeepsPromise
    <2>5. KeepsPromise(s)'
        BY <2>2, <2>4 DEF KeepsPromise
    <2>6. \A x \in Schedules \ {s} : schedule'[x] = schedule[x]
        BY <2>2 DEF Desk!TypeOK
    <2> QED
        BY <1>1, <2>2, <2>3, <2>5, <2>6, PromiseRests
<1>4. CASE Desk!UpdateSchedule(s, i, t, fit, d)
    <2> DEFINE row2 == [schedule[s] EXCEPT !.interval = i, !.threshold = t, !.part = fit, !.due = d]
    <2>1. schedule[s] \in Desk!Rows
        BY <1>4, RowFields DEF Desk!UpdateSchedule, Desk!Kept
    <2>2. row2 \in Desk!Rows
        BY <1>2, <2>1 DEF Desk!Rows
    <2>3. schedule' = [schedule EXCEPT ![s] = row2] /\ promise' = [promise EXCEPT ![s] = None]
        BY <1>4 DEF Desk!UpdateSchedule
    <2> HIDE DEF row2
    <2>4. /\ schedule' \in [Schedules -> Desk!Rows \cup {None}]
          /\ promise' \in [Schedules -> Desk!Promises \cup {None}]
        BY <2>2, <2>3 DEF Desk!TypeOK
    <2>5. Desk!TypeOK'
        BY <1>1, <2>4 DEF Desk!TypeOK, Desk!Rows, Desk!Promises, Desk!Keys
    <2>6. promise'[s] = None
        BY <2>3 DEF Desk!TypeOK
    <2>7. KeepsPromise(s)'
        BY <2>6 DEF KeepsPromise
    <2>8. \A x \in Schedules \ {s} : schedule'[x] = schedule[x] /\ promise'[x] = promise[x]
        BY <2>3 DEF Desk!TypeOK
    <2> QED
        BY <1>1, <2>5, <2>7, <2>8, PromiseRests
<1> QED
    BY <1>3, <1>4

LEMMA FleetMoves ==
    ASSUME DeskInv,
           \/ Desk!CheckMaintenanceDue \/ Desk!Tick \/ UNCHANGED deskVars
           \/ \E p \in Printers :
                 \/ Desk!DeleteRecord(p) \/ Desk!ChangeApproval(p)
                 \/ \E n \in 1..MaxPages : Desk!PrintPages(p, n)
                 \/ \E n \in 0..NewPart : Desk!ChangeLife(p, n)
    PROVE  DeskInv'
<1> USE DEF DeskInv
<1> DEFINE Rests == /\ UNCHANGED <<schedule, promise>>
                    /\ \A p \in Printers : meter[p] # None => meter'[p] # None
<1>1. CASE Desk!CheckMaintenanceDue
    <2>1. Rests
        BY <1>1 DEF Desk!CheckMaintenanceDue, Desk!fleetVars
    <2>2. Desk!TypeOK'
        BY <1>1, DueKeys DEF Desk!CheckMaintenanceDue, Desk!fleetVars, Desk!TypeOK, Desk!Rows,
            Desk!Promises, Desk!Keys
    <2> QED
        BY <2>1, <2>2, PromiseRests
<1>2. CASE Desk!Tick
    <2>1. Rests
        BY <1>2 DEF Desk!Tick
    <2>2. deskDay' \in 0..MaxDay
        BY <1>2, DeskConstants DEF Desk!Tick, Desk!TypeOK
    <2>3. Desk!TypeOK'
        BY <1>2, <2>2 DEF Desk!Tick, Desk!TypeOK, Desk!Rows, Desk!Promises, Desk!Keys
    <2> QED
        BY <2>1, <2>3, PromiseRests
<1>3. CASE UNCHANGED deskVars
    <2>1. Rests
        BY <1>3 DEF deskVars
    <2>2. Desk!TypeOK'
        BY <1>3 DEF deskVars, Desk!TypeOK, Desk!Rows, Desk!Promises, Desk!Keys
    <2> QED
        BY <2>1, <2>2, PromiseRests
<1>4. ASSUME NEW p \in Printers, Desk!DeleteRecord(p)
      PROVE  DeskInv'
    <2>1. Rests
        BY <1>4 DEF Desk!DeleteRecord, Desk!fleetVars
    <2>2. Desk!TypeOK'
        BY <1>4 DEF Desk!DeleteRecord, Desk!fleetVars, Desk!TypeOK, Desk!Rows, Desk!Promises, Desk!Keys
    <2> QED
        BY <2>1, <2>2, PromiseRests
<1>5. ASSUME NEW p \in Printers, Desk!ChangeApproval(p)
      PROVE  DeskInv'
    <2>1. Rests
        BY <1>5 DEF Desk!ChangeApproval
    <2>2. Desk!TypeOK'
        BY <1>5 DEF Desk!ChangeApproval, Desk!TypeOK, Desk!Rows, Desk!Promises, Desk!Keys
    <2> QED
        BY <2>1, <2>2, PromiseRests
<1>6. ASSUME NEW p \in Printers, NEW n \in 1..MaxPages, Desk!PrintPages(p, n)
      PROVE  DeskInv'
    <2>1. n # None /\ n \in 0..MaxPages
        BY DeskConstants
    <2>2. meter' = [meter EXCEPT ![p] = n] /\ meter \in [Printers -> 0..MaxPages \cup {None}]
        BY <1>6 DEF Desk!PrintPages, Desk!TypeOK
    <2>3. \A q \in Printers : meter[q] # None => meter'[q] # None
        BY <2>1, <2>2
    <2>4. Rests
        BY <1>6, <2>3 DEF Desk!PrintPages
    <2>5. meter' \in [Printers -> 0..MaxPages \cup {None}]
        BY <2>1, <2>2
    <2>6. Desk!TypeOK'
        BY <1>6, <2>5 DEF Desk!PrintPages, Desk!TypeOK, Desk!Rows, Desk!Promises, Desk!Keys
    <2> QED
        BY <2>4, <2>6, PromiseRests
<1>7. ASSUME NEW p \in Printers, NEW n \in 0..NewPart, Desk!ChangeLife(p, n)
      PROVE  DeskInv'
    <2>1. Rests
        BY <1>7 DEF Desk!ChangeLife
    <2>2. Desk!TypeOK'
        BY <1>7 DEF Desk!ChangeLife, Desk!TypeOK, Desk!Rows, Desk!Promises, Desk!Keys
    <2> QED
        BY <2>1, <2>2, PromiseRests
<1> QED
    BY <1>1, <1>2, <1>3, <1>4, <1>5, <1>6, <1>7

\* A schedule serviced, or deleted.
LEMMA ScheduleClosed ==
    ASSUME DeskInv, NEW s \in Schedules, Desk!LogService(s) \/ Desk!DeleteSchedule(s)
    PROVE  DeskInv'
<1> USE DEF DeskInv
<1>1. CASE Desk!LogService(s)
    <2>1. UNCHANGED <<deskDay, meter, life, approved, alerts>>
        BY <1>1 DEF Desk!LogService, Desk!fleetVars
    <2>2. /\ schedule' \in [Schedules -> Desk!Rows \cup {None}]
          /\ promise' \in [Schedules -> Desk!Promises \cup {None}]
          /\ records' \subseteq Printers
          /\ KeepsPromise(s)'
          /\ \A t \in Schedules \ {s} : schedule'[t] = schedule[t] /\ promise'[t] = promise[t]
        BY <1>1, Serviced
    <2>3. Desk!TypeOK'
        BY <2>1, <2>2 DEF Desk!TypeOK, Desk!Rows, Desk!Promises, Desk!Keys
    <2> QED
        BY <2>1, <2>2, <2>3, PromiseRests
<1>2. CASE Desk!DeleteSchedule(s)
    <2>1. /\ schedule' = [schedule EXCEPT ![s] = None] /\ promise' = [promise EXCEPT ![s] = None]
          /\ UNCHANGED <<deskDay, meter, life, approved, records, alerts>>
        BY <1>2 DEF Desk!DeleteSchedule, Desk!fleetVars
    <2>2. /\ schedule' \in [Schedules -> Desk!Rows \cup {None}]
          /\ promise' \in [Schedules -> Desk!Promises \cup {None}]
        BY <2>1 DEF Desk!TypeOK
    <2>3. Desk!TypeOK'
        BY <2>1, <2>2 DEF Desk!TypeOK, Desk!Rows, Desk!Promises, Desk!Keys
    <2>4. promise'[s] = None
        BY <2>1 DEF Desk!TypeOK
    <2>5. KeepsPromise(s)'
        BY <2>4 DEF KeepsPromise
    <2>6. \A x \in Schedules \ {s} : schedule'[x] = schedule[x] /\ promise'[x] = promise[x]
        BY <2>1 DEF Desk!TypeOK
    <2> QED
        BY <2>1, <2>3, <2>5, <2>6, PromiseRests
<1> QED
    BY <1>1, <1>2

\* What a step of the desk is.
LEMMA DeskSteps ==
    ASSUME DeskInv, [Desk!Next]_(Desk!vars)
    PROVE  DeskInv'
<1>1. CASE \/ Desk!CheckMaintenanceDue \/ Desk!Tick \/ UNCHANGED Desk!vars
           \/ \E p \in Printers :
                 \/ Desk!DeleteRecord(p) \/ Desk!ChangeApproval(p)
                 \/ \E n \in 1..MaxPages : Desk!PrintPages(p, n)
                 \/ \E n \in 0..NewPart : Desk!ChangeLife(p, n)
    <2>1. UNCHANGED Desk!vars => UNCHANGED deskVars
        BY DEF Desk!vars, deskVars
    <2> QED
        BY <1>1, <2>1, FleetMoves
<1>2. ASSUME NEW s \in Schedules, NEW i \in Intervals, NEW t \in Thresholds,
             NEW fit \in BOOLEAN, NEW d \in Dates \cup {None},
             \/ Desk!UpdateSchedule(s, i, t, fit, d)
             \/ \E p \in Printers \cup {None} : Desk!CreateSchedule(s, p, i, t, fit, d)
      PROVE  DeskInv'
    BY <1>2, ScheduleEdited
<1>3. ASSUME NEW s \in Schedules, Desk!LogService(s) \/ Desk!DeleteSchedule(s)
      PROVE  DeskInv'
    BY <1>3, ScheduleClosed
<1>4. ASSUME NEW p \in Printers, NEW d \in Dates \cup {None}, Desk!AddMaintenance(p, d)
      PROVE  DeskInv'
    BY <1>4, Rescheduled
<1> QED
    BY <1>1, <1>2, <1>3, <1>4 DEF Desk!Next

\* For any printers, schedules, forms and dates: what the flash of "Mark
\* serviced" says of a schedule stays true of its row.
THEOREM DeskInvariant == Desk!Spec => []DeskInv
<1>1. Desk!Init => DeskInv
    <2> SUFFICES ASSUME Desk!Init
                 PROVE  DeskInv
        OBVIOUS
    <2> USE DEF Desk!Init
    <2>1. 0 \in 0..MaxPages /\ 0 \in 0..MaxDay /\ NewPart \in 0..NewPart
        BY DeskConstants
    <2>2. Desk!TypeOK
        BY <2>1 DEF Desk!TypeOK, Desk!Rows, Desk!Promises, Desk!Keys
    <2> QED
        BY <2>2 DEF DeskInv, KeepsPromise
<1> QED
    BY <1>1, DeskSteps, PTL DEF Desk!Spec

\* The page gate of a row, as the promises see it: the printer's count holds it
\* back exactly while the target is not reached.
LEMMA GateAtTarget ==
    ASSUME DeskInv, NEW s \in Schedules, promise[s] # None, promise[s].pages # None
    PROVE  Desk!GateOpen(schedule[s]) <=> Desk!Reached(s)
BY DEF DeskInv, KeepsPromise, Desk!GateOpen, Desk!Reached

\* What a pass opens for a schedule as such, and not for a part.
LEMMA DatesDue ==
    ASSUME DeskInv, NEW s \in Schedules
    PROVE  Desk!OnDate(s, Desk!Due) <=> s \in Desk!Kept /\ Desk!DateDue(s)
<1>1. ASSUME Desk!OnDate(s, Desk!Due)
      PROVE  s \in Desk!Kept /\ Desk!DateDue(s)
    <2>1. PICK k \in Desk!Due : k.schedule = s /\ k.printer = None
        BY <1>1 DEF Desk!OnDate
    <2>2. k \notin [schedule : Desk!Kept, printer : Printers, due : {None}]
        BY <2>1, DeskConstants
    <2>3. PICK x \in Desk!Kept : Desk!DateDue(x)
                 /\ k = [schedule |-> x, printer |-> None, due |-> schedule[x].due]
        BY <2>2 DEF Desk!Due
    <2> QED
        BY <2>1, <2>3
<1>2. ASSUME s \in Desk!Kept, Desk!DateDue(s)
      PROVE  Desk!OnDate(s, Desk!Due)
    <2> DEFINE k == [schedule |-> s, printer |-> None, due |-> schedule[s].due]
    <2>1. k \in Desk!Due
        BY <1>2 DEF Desk!Due
    <2> QED
        BY <2>1 DEF Desk!OnDate
<1> QED
    BY <1>1, <1>2

\* For any printers, schedules, forms and dates: after "Mark serviced" the next
\* pass of the same day finds the schedule not due, and one told to be due at a
\* page count is due when the meter is there (schedule_log_service).
THEOREM DeskWord == Desk!Spec => DeskKeepsWord
<1>1. ASSUME DeskInv, Desk!CheckMaintenanceDue, NEW s \in Schedules, Desk!JustServiced(s)
      PROVE  ~Desk!OnDate(s, alerts')
    <2>1. alerts' = Desk!Due
        BY <1>1 DEF Desk!CheckMaintenanceDue
    <2>2. schedule[s] # None /\ KeepsPromise(s)
        BY <1>1 DEF DeskInv, KeepsPromise, Desk!JustServiced
    <2>3. schedule[s].due \in Nat \cup {None} /\ deskDay \in Nat
        BY <1>1, <2>2, RowFields, DeskConstants DEF DeskInv, Desk!TypeOK
    <2>4. ~Desk!DateDue(s)
        <3>1. CASE promise[s].pages = None
            BY <1>1, <2>2, <2>3, <3>1 DEF KeepsPromise, Desk!JustServiced, Desk!DateDue
        <3>2. CASE promise[s].pages # None
            BY <1>1, <3>2, GateAtTarget DEF Desk!JustServiced, Desk!DateDue
        <3> QED
            BY <3>1, <3>2
    <2> QED
        BY <1>1, <2>1, <2>4, DatesDue
<1>2. ASSUME DeskInv, Desk!CheckMaintenanceDue, NEW s \in Schedules,
             Desk!PromiseIsUp(s), promise[s].dated
      PROVE  Desk!OnDate(s, alerts')
    <2>1. alerts' = Desk!Due
        BY <1>2 DEF Desk!CheckMaintenanceDue
    <2>2. schedule[s] # None /\ schedule[s].due # None /\ schedule[s].due <= deskDay
        BY <1>2 DEF DeskInv, KeepsPromise, Desk!PromiseIsUp
    <2>3. Desk!GateOpen(schedule[s])
        BY <1>2, GateAtTarget DEF Desk!PromiseIsUp
    <2> QED
        BY <1>2, <2>1, <2>2, <2>3, DatesDue DEF Desk!DateDue, Desk!Kept
<1>3. DeskInv => [/\ Desk!CheckMaintenanceDue =>
                       \A s \in Schedules : Desk!JustServiced(s) => ~Desk!OnDate(s, alerts')
                  /\ Desk!CheckMaintenanceDue =>
                       \A s \in Schedules : Desk!PromiseIsUp(s) /\ promise[s].dated
                                            => Desk!OnDate(s, alerts')]_(Desk!vars)
    BY <1>1, <1>2
<1> QED
    BY <1>3, DeskInvariant, PTL DEF DeskKeepsWord, Desk!ServiceClears, Desk!PagesRecur

-----------------------------------------------------------------------------
(* Levels and the forecast.                                                *)

ForecastDays   == 0..(MaxDay + 1)
ForecastPoints == [day : ForecastDays, level : Forecast!Levels]

\* The readings in the window: in the order they were taken, none of a day to come.
PointsInOrder ==
    /\ points \in Seq(ForecastPoints)
    /\ \A i \in 1..Len(points) : points[i].day <= forecastDay
    /\ \A i, j \in 1..Len(points) : i < j => points[i].day < points[j].day

ForecastInv ==
    /\ part \in Forecast!Levels /\ receptacle \in BOOLEAN /\ alert \in BOOLEAN
    /\ row.level \in Forecast!Levels \cup {None}
    /\ told \in {None, "order_soon", "order_now"}
    /\ override \in Overrides /\ forecastDay \in ForecastDays
    /\ PointsInOrder

LEMMA ForecastConstants ==
    /\ Full + 1 \in Nat /\ MaxDay + 1 \in Nat /\ MaxDay \in Nat /\ Tolerance \in Nat /\ MinSpan \in Nat
    /\ Window \in Nat /\ {ReorderLevel, UrgentLevel, FullLevel, UrgentFull} \subseteq Nat
    /\ Overrides \subseteq Nat /\ None \notin Nat /\ Forecast!Levels = 0..(Full + 1)
BY DataAssumption DEF Forecast!ForecastAssumption, Forecast!Levels, Desk!DeskAssumption

LEMMA ForecastSteps ==
    ASSUME ForecastInv, [Forecast!Next]_(Forecast!vars)
    PROVE  ForecastInv'
<1> DEFINE T == ForecastPoints
<1>0. points \in Seq(T) /\ forecastDay \in Nat /\ part \in Forecast!Levels
    BY ForecastConstants DEF ForecastInv, PointsInOrder, ForecastDays
<1>t. \A i \in 1..Len(points) : points[i] \in T /\ points[i].day \in Nat
    <2>1. \A x \in ForecastPoints : x.day \in Nat
        BY ForecastConstants DEF ForecastPoints, ForecastDays
    <2> QED
        BY <1>0, <2>1
<1>1. CASE Forecast!Use \/ Forecast!Replace
    <2>1. part' \in Forecast!Levels
        BY <1>1, ForecastConstants DEF Forecast!Use, Forecast!Replace
    <2> QED
        BY <1>1, <2>1 DEF Forecast!Use, Forecast!Replace, ForecastInv, PointsInOrder,
            Forecast!Levels
<1>2. CASE Forecast!Poll
    <2> DEFINE new == [day |-> forecastDay, level |-> part]
    <2>1. /\ points # <<>> => points[Len(points)].day < forecastDay
          /\ points' = Append(points, new)
          /\ row' = [row EXCEPT !.level = part]
          /\ UNCHANGED <<part, receptacle, alert, told, override, forecastDay>>
        BY <1>2 DEF Forecast!Poll
    <2>2. new \in T
        BY <1>0 DEF ForecastInv, ForecastPoints
    <2>3. new.day = forecastDay
        OBVIOUS
    <2> HIDE DEF new
    <2> HIDE DEF T
    <2>5. /\ points' \in Seq(T) /\ Len(points') = Len(points) + 1
          /\ points'[Len(points) + 1] = new
          /\ \A i \in 1..Len(points) : points'[i] = points[i]
        BY <1>0, <2>1, <2>2
    <2>6. \A i \in 1..Len(points) : points[i].day < forecastDay
        <3> SUFFICES ASSUME NEW i \in 1..Len(points)
                     PROVE  points[i].day < forecastDay
            OBVIOUS
        <3>1. points # <<>> /\ Len(points) \in 1..Len(points)
            BY <1>0
        <3>2. i < Len(points) => points[i].day < points[Len(points)].day
            BY <3>1 DEF ForecastInv, PointsInOrder
        <3> QED
            BY <1>0, <1>t, <2>1, <3>1, <3>2
    <2>7. \A i \in 1..Len(points') : points'[i].day <= forecastDay'
        BY <1>0, <1>t, <2>1, <2>3, <2>5, <2>6
    <2>8. \A i, j \in 1..Len(points') : i < j => points'[i].day < points'[j].day
        <3> SUFFICES ASSUME NEW i \in 1..Len(points'), NEW j \in 1..Len(points'), i < j
                     PROVE  points'[i].day < points'[j].day
            OBVIOUS
        <3>1. i \in 1..Len(points) /\ points'[i] = points[i]
            BY <1>0, <2>5
        <3>2. CASE j = Len(points) + 1
            BY <2>3, <2>5, <2>6, <3>1, <3>2
        <3>3. CASE j \in 1..Len(points)
            BY <2>5, <3>1, <3>3 DEF ForecastInv, PointsInOrder
        <3> QED
            BY <1>0, <2>5, <3>2, <3>3
    <2>9. row'.level \in Forecast!Levels \cup {None}
        BY <1>0, <2>1
    <2> QED
        BY <2>1, <2>5, <2>7, <2>8, <2>9 DEF ForecastInv, PointsInOrder, Forecast!Levels, T,
            ForecastPoints
<1>3. CASE Forecast!Tick
    <2>1. PICK first \in 1..(Len(points) + 1) : points' = SubSeq(points, first, Len(points))
        BY <1>3 DEF Forecast!Tick
    <2>2. /\ forecastDay < MaxDay + 1 /\ forecastDay' = forecastDay + 1
          /\ UNCHANGED <<part, receptacle, row, alert, told, override>>
        BY <1>3, Zenon DEF Forecast!Tick
    <2>3. forecastDay' \in ForecastDays
        BY <1>0, <2>2, ForecastConstants DEF ForecastDays
    <2> HIDE DEF T
    <2>4. /\ points' \in Seq(T) /\ Len(points') = Len(points) + 1 - first
          /\ \A i \in 1..Len(points') : /\ i + first - 1 \in 1..Len(points)
                                        /\ points'[i] = points[i + first - 1]
        BY <1>0, <2>1
    <2>5. \A i \in 1..Len(points') : points'[i].day <= forecastDay'
        <3> SUFFICES ASSUME NEW i \in 1..Len(points')
                     PROVE  points'[i].day <= forecastDay'
            OBVIOUS
        <3>1. PICK k \in 1..Len(points) : points'[i] = points[k]
            BY <2>4
        <3>2. points[k].day <= forecastDay /\ points[k].day \in Nat
            BY <1>t DEF ForecastInv, PointsInOrder
        <3> QED
            BY <1>0, <2>2, <3>1, <3>2
    <2>6. \A i, j \in 1..Len(points') : i < j => points'[i].day < points'[j].day
        <3> SUFFICES ASSUME NEW i \in 1..Len(points'), NEW j \in 1..Len(points'), i < j
                     PROVE  points'[i].day < points'[j].day
            OBVIOUS
        <3>1. i + first - 1 < j + first - 1
            OBVIOUS
        <3> QED
            BY <2>4, <3>1 DEF ForecastInv, PointsInOrder
    <2> QED
        BY <2>2, <2>3, <2>4, <2>5, <2>6 DEF ForecastInv, PointsInOrder, Forecast!Levels, T,
            ForecastPoints
<1>4. CASE Forecast!Forecast
    <2>1. /\ UNCHANGED <<part, receptacle, points, told, override, forecastDay>>
          /\ row' = IF points = <<>> THEN row ELSE [row EXCEPT !.days = Forecast!DaysToEmpty]
          /\ alert' \in BOOLEAN
        BY <1>4 DEF Forecast!Forecast
    <2>2. row'.level \in Forecast!Levels \cup {None}
        BY <2>1 DEF ForecastInv
    <2> QED
        BY <2>1, <2>2 DEF ForecastInv, PointsInOrder, Forecast!Levels
<1>5. CASE Forecast!Publish
    <2>1. Forecast!Urgency(override) \in {None, "order_soon", "order_now"}
        BY DEF Forecast!Urgency, Forecast!ConsumedUrgency, Forecast!ReceptacleUrgency
    <2> QED
        BY <1>5, <2>1 DEF Forecast!Publish, ForecastInv, PointsInOrder, Forecast!Levels
<1>6. CASE UNCHANGED Forecast!vars
    BY <1>6 DEF Forecast!vars, ForecastInv, PointsInOrder, Forecast!Levels
<1> QED
    BY <1>1, <1>2, <1>3, <1>4, <1>5, <1>6 DEF Forecast!Next

\* A forecast that says when the supply runs out is one fitted to the readings
\* since the level last rose, and those span the days a rate needs.
LEMMA FittedToOwn ==
    ASSUME ForecastInv, Forecast!DaysToEmpty # None,
           NEW i \in 2..Len(points), points[i].level > points[i - 1].level + Tolerance
    PROVE  points[Len(points)].day - points[i].day >= MinSpan
<1> DEFINE rises == {k \in 2..Len(points) : points[k].level > points[k - 1].level + Tolerance}
           last  == CHOOSE k \in rises : \A j \in rises : j <= k
           T     == ForecastPoints
           seg   == Forecast!Segment
<1>1. points \in Seq(T) /\ \A k \in 1..Len(points) : points[k].day \in Nat
    <2>1. \A x \in ForecastPoints : x.day \in Nat
        BY ForecastConstants DEF ForecastPoints, ForecastDays
    <2> QED
        BY <2>1 DEF ForecastInv, PointsInOrder
<1>2. i \in rises /\ rises \subseteq 2..Len(points) /\ Len(points) \in Nat
    BY <1>1
<1> HIDE DEF T, rises
<1>3. \E k \in rises : \A j \in rises : j <= k
    <2> DEFINE least == {Len(points) - k : k \in rises}
    <2>1. least \subseteq Nat /\ least # {}
        BY <1>2
    <2>2. PICK m \in least : \A n \in least : m <= n
        BY <2>1, LeastNatural
    <2>3. PICK k \in rises : m = Len(points) - k
        OBVIOUS
    <2>4. \A j \in rises : Len(points) - k <= Len(points) - j
        BY <2>2, <2>3
    <2>5. \A j \in rises : j <= k
        BY <1>2, <2>4
    <2> QED
        BY <2>5
<1>4. last \in rises /\ i <= last /\ last \in 2..Len(points)
    BY <1>2, <1>3
<1>5. seg = SubSeq(points, last, Len(points))
    BY <1>2 DEF Forecast!Segment, rises
<1> HIDE DEF last, seg
<1>6. /\ Len(seg) = Len(points) - last + 1 /\ seg[1] = points[last]
      /\ seg[Len(seg)] = points[Len(points)]
    BY <1>1, <1>2, <1>4, <1>5
<1>7. seg[Len(seg)].day - seg[1].day >= MinSpan
    BY DEF Forecast!DaysToEmpty, Forecast!Enough, seg
<1>8. points[i].day <= points[last].day
    <2>1. i = last \/ i < last
        BY <1>2, <1>4
    <2>2. i \in 1..Len(points) /\ last \in 1..Len(points)
        BY <1>2, <1>4
    <2>3. i < last => points[i].day < points[last].day
        BY <2>2 DEF ForecastInv, PointsInOrder
    <2> QED
        BY <1>1, <2>1, <2>2, <2>3
<1>9. /\ i \in 1..Len(points) /\ last \in 1..Len(points) /\ Len(points) \in 1..Len(points)
    BY <1>2, <1>4
<1>10. /\ points[i].day \in Nat /\ points[last].day \in Nat /\ points[Len(points)].day \in Nat
    BY <1>1, <1>9
<1>11. points[Len(points)].day - points[last].day >= MinSpan
    BY <1>6, <1>7
<1>12. \A a, b, c \in Nat : a <= b /\ c - b >= MinSpan => c - a >= MinSpan
    BY ForecastConstants
<1> QED
    BY <1>8, <1>10, <1>11, <1>12, Zenon

\* The ranks of what is said, before and after the level moves.
LEMMA CloserIsWorse ==
    ASSUME ForecastInv, Forecast!Poll, Forecast!Worse
    PROVE  Forecast!Rank(Forecast!Urgency(Forecast!LeadDays)')
              >= Forecast!Rank(Forecast!Urgency(Forecast!LeadDays))
<1>1. /\ row.level \in Int /\ row'.level \in Int /\ row'.days = row.days
      /\ row'.level # None /\ row.level # None
    <2>1. row' = [row EXCEPT !.level = part] /\ part \in Int /\ part # None
        BY ForecastConstants DEF Forecast!Poll, ForecastInv
    <2> QED
        BY <2>1, ForecastConstants DEF Forecast!Worse, ForecastInv
<1>2. receptacle' = receptacle /\ override' = override
    BY DEF Forecast!Poll
<1>3. /\ ReorderLevel \in Int /\ UrgentLevel \in Int /\ FullLevel \in Int /\ UrgentFull \in Int
    BY ForecastConstants
<1> DEFINE lead == Forecast!LeadDays
<1>4. Forecast!LeadDays' = lead
    BY <1>2 DEF Forecast!LeadDays
<1> HIDE DEF lead
<1> DEFINE x == row.level   y == row'.level
           was == Forecast!Urgency(lead)
           is  == Forecast!Urgency(Forecast!LeadDays)'
<1>5. /\ Forecast!Rank(None) = 0 /\ Forecast!Rank("order_soon") = 1
      /\ Forecast!Rank("order_now") = 2
    BY DataAssumption DEF Forecast!ForecastAssumption, Forecast!Rank
<1>6. CASE receptacle
    <2>1. is = IF y = None \/ y < FullLevel THEN None
               ELSE IF y >= UrgentFull THEN "order_now" ELSE "order_soon"
        BY <1>2, <1>6 DEF Forecast!Urgency, Forecast!ReceptacleUrgency
    <2>2. was = IF x = None \/ x < FullLevel THEN None
                ELSE IF x >= UrgentFull THEN "order_now" ELSE "order_soon"
        BY <1>6 DEF Forecast!Urgency, Forecast!ReceptacleUrgency
    <2>3. x \in Int /\ y \in Int /\ y > x /\ x # None /\ y # None
        BY <1>1, <1>6 DEF Forecast!Worse
    <2> HIDE DEF was, is, x, y
    <2>4. Forecast!Rank(is) >= Forecast!Rank(was)
        BY <1>3, <1>5, <2>1, <2>2, <2>3
    <2> QED
        BY <2>4 DEF is, was, lead
<1>7. CASE ~receptacle
    <2> DEFINE soon == row.days # None /\ row.days <= ReorderDays
               now  == row.days # None /\ row.days <= lead
    <2>1. is = IF ~((y # None /\ y <= ReorderLevel) \/ soon) THEN None
               ELSE IF now \/ (y # None /\ y <= UrgentLevel) THEN "order_now" ELSE "order_soon"
        BY <1>1, <1>2, <1>4, <1>7 DEF Forecast!Urgency, Forecast!ConsumedUrgency
    <2>2. was = IF ~((x # None /\ x <= ReorderLevel) \/ soon) THEN None
                ELSE IF now \/ (x # None /\ x <= UrgentLevel) THEN "order_now" ELSE "order_soon"
        BY <1>7 DEF Forecast!Urgency, Forecast!ConsumedUrgency
    <2>3. x \in Int /\ y \in Int /\ y < x /\ x # None /\ y # None
        BY <1>1, <1>7 DEF Forecast!Worse
    <2> HIDE DEF was, is, x, y, soon, now
    <2>4. Forecast!Rank(is) >= Forecast!Rank(was)
        BY <1>3, <1>5, <2>1, <2>2, <2>3
    <2> QED
        BY <2>4 DEF is, was, lead
<1> QED
    BY <1>6, <1>7

\* For any levels, thresholds and windows: the readings kept for the forecast
\* are those of the window, in order, none twice on a day.
THEOREM ForecastInvariant == Forecast!Spec => []ForecastInv
<1>1. Forecast!Init => ForecastInv
    <2> SUFFICES ASSUME Forecast!Init
                 PROVE  ForecastInv
        OBVIOUS
    <2> USE DEF Forecast!Init
    <2>1. PointsInOrder
        BY DEF PointsInOrder
    <2>2. part \in Forecast!Levels /\ forecastDay \in ForecastDays
        BY ForecastConstants DEF ForecastDays
    <2> QED
        BY <2>1, <2>2, ForecastConstants DEF ForecastInv
<1> QED
    BY <1>1, ForecastSteps, PTL DEF Forecast!Spec

\* For any levels, thresholds and windows: an alert that a part runs out rests on
\* readings of that part alone, over the days a rate needs (forecast_supplies).
THEOREM ForecastOnOwnReadings == Forecast!Spec => Forecast!OwnReadingsOnly
<1>1. ASSUME ForecastInv, Forecast!Forecast /\ alert'
      PROVE  \A i \in 2..Len(points) :
                points[i].level > points[i - 1].level + Tolerance
                   => points[Len(points)].day - points[i].day >= MinSpan
    <2>1. points # <<>> /\ row'.days # None /\ row' = [row EXCEPT !.days = Forecast!DaysToEmpty]
        BY <1>1 DEF Forecast!Forecast
    <2>2. Forecast!DaysToEmpty # None
        BY <2>1
    <2> QED
        BY <1>1, <2>2, FittedToOwn
<1>2. ForecastInv => [Forecast!Forecast /\ alert' =>
                        \A i \in 2..Len(points) :
                          points[i].level > points[i - 1].level + Tolerance
                             => points[Len(points)].day - points[i].day >= MinSpan]_(Forecast!vars)
    BY <1>1
<1> QED
    BY <1>2, ForecastInvariant, PTL DEF Forecast!OwnReadingsOnly

\* For any levels, thresholds and lead times: a poll that finds a supply closer to
\* stopping the printer never takes it off the list (reorder.evaluate_supply).
THEOREM ForecastNeverDrops == Forecast!Spec => Forecast!WorseNeverDrops
<1>1. ForecastInv => [Forecast!Poll /\ Forecast!Worse =>
                        Forecast!Rank(Forecast!Urgency(Forecast!LeadDays)')
                           >= Forecast!Rank(Forecast!Urgency(Forecast!LeadDays))]_(Forecast!vars)
    BY CloserIsWorse
<1> QED
    BY <1>1, ForecastInvariant, PTL DEF Forecast!WorseNeverDrops

-----------------------------------------------------------------------------
(* Stock, and the supplier's mail.                                         *)

\* A mail that the mailbox lists was sent, and it was sent before now.
MailsSent ==
    \A m \in Mails : /\ mail[m].shown => mail[m].at # None
                     /\ mail[m].at # None => mail[m].at <= stockDay

LEMMA StockConstants ==
    /\ Quantities \subseteq Nat /\ IsFiniteSet(Cycles)
    /\ Lookback \in Nat \ {0} /\ Overlap \in Nat /\ Lag \in Nat /\ Cap \in Nat /\ MaxTime \in Nat
    /\ None \notin Orders /\ None \notin Cycles /\ None \notin Products /\ None \notin Nat
<1>1. Stock!IsFiniteSet(Cycles) => IsFiniteSet(Cycles)
    BY DEF Stock!IsFiniteSet, IsFiniteSet
<1> QED
    BY <1>1, DataAssumption DEF Stock!SupplyAssumption

LEMMA StockCounts == \A S : Stock!Cardinality(S) = Cardinality(S)
BY DEF Stock!Cardinality, Cardinality

\* What the parts of the stock hold.
StockRows == /\ order \in [Orders -> Stock!OrderRows]
             /\ usage \in [Cycles -> Stock!UseRows]
             /\ worker \in Stock!Scans
             /\ counter \in [Desks -> [op : {"idle", "create", "delete"},
                                       order : Orders \cup {None}]]
             /\ catalogue \in [Products -> {"absent", "fits", "other"}]
MailRowsTyped == /\ mail \in [Mails -> Stock!MailRows]
                 /\ notice \in [Mails -> Stock!NoticeRows]
                 /\ marker \in 0..MaxTime \cup {None} /\ reach \in 0..MaxTime \cup {None}
                 /\ reachable \in BOOLEAN /\ stockDay \in 0..MaxTime

LEMMA StockTypeParts == Stock!TypeOK <=> StockRows /\ MailRowsTyped
BY DEF Stock!TypeOK, StockRows, MailRowsTyped

LEMMA IdleTyped == Stock!Idle \in Stock!Scans /\ Stock!NoOrder \in Stock!OrderRows
BY StockConstants DEF Stock!Idle, Stock!Scans, Stock!Statuses, Stock!UseRows, Stock!NoUse,
    Stock!NoOrder, Stock!OrderRows

\* The handlers of the staff.
LEMMA StaffTypes ==
    ASSUME Stock!TypeOK, Stock!StaffStep
    PROVE  Stock!TypeOK'
<1> USE DEF StockRows
<1>0. StockRows /\ MailRowsTyped
    BY StockTypeParts
<1>1. ASSUME NEW d \in Desks, Stock!CheckCreate(d)
      PROVE  StockRows' /\ MailRowsTyped'
    BY <1>0, <1>1 DEF Stock!CheckCreate, Stock!stockVars, Stock!mailVars, MailRowsTyped
<1>2. ASSUME NEW d \in Desks, NEW o \in Orders, NEW p \in Products, NEW q \in Quantities,
             NEW eta \in 0..MaxTime, Stock!InsertOrder(d, o, p, q, eta)
      PROVE  StockRows' /\ MailRowsTyped'
    <2> DEFINE new == [state |-> "ordered", product |-> p, quantity |-> q, eta |-> eta]
    <2>1. new \in Stock!OrderRows
        BY DEF Stock!OrderRows
    <2>2. order' = [order EXCEPT ![o] = new]
        BY <1>2 DEF Stock!InsertOrder
    <2> HIDE DEF new
    <2>3. order' \in [Orders -> Stock!OrderRows]
        BY <1>0, <2>1, <2>2
    <2> QED
        BY <1>0, <1>2, <2>3 DEF Stock!InsertOrder, Stock!stockVars, Stock!mailVars, MailRowsTyped
<1>3. ASSUME NEW o \in Orders, Stock!MarkDelivered(o)
      PROVE  StockRows' /\ MailRowsTyped'
    <2>1. order' \in [Orders -> Stock!OrderRows]
        BY <1>0, <1>3 DEF Stock!MarkDelivered, Stock!OrderRows
    <2> QED
        BY <1>0, <1>3, <2>1 DEF Stock!MarkDelivered, Stock!stockVars, Stock!mailVars, MailRowsTyped
<1>4. ASSUME NEW d \in Desks, NEW o \in Orders, Stock!CheckDelete(d, o)
      PROVE  StockRows' /\ MailRowsTyped'
    BY <1>0, <1>4 DEF Stock!CheckDelete, Stock!stockVars, Stock!mailVars, MailRowsTyped
<1>5. ASSUME NEW d \in Desks, Stock!DeleteOrder(d)
      PROVE  StockRows' /\ MailRowsTyped'
    <2> DEFINE o    == counter[d].order
               gone == [Stock!NoOrder EXCEPT !.state = "deleted"]
    <2>1. /\ order' = [order EXCEPT ![o] = gone]
          /\ usage' = [c \in Cycles |-> IF usage[c].order = o
                         THEN [usage[c] EXCEPT !.order = None] ELSE usage[c]]
          /\ notice' = [m \in Mails |-> IF notice[m].order = o
                          THEN [state |-> "open", order |-> None] ELSE notice[m]]
          /\ counter' = [counter EXCEPT ![d] = [op |-> "idle", order |-> None]]
          /\ UNCHANGED <<worker, catalogue, mail, marker, reach, reachable, stockDay>>
        BY <1>5 DEF Stock!DeleteOrder
    <2>2. gone \in Stock!OrderRows
        BY IdleTyped DEF Stock!OrderRows
    <2> HIDE DEF gone, o
    <2>3. order' \in [Orders -> Stock!OrderRows]
        BY <1>0, <2>1, <2>2
    <2>4. usage' \in [Cycles -> Stock!UseRows]
        <3>1. ASSUME NEW c \in Cycles
              PROVE  [usage[c] EXCEPT !.order = None] \in Stock!UseRows
            BY <1>0 DEF Stock!UseRows
        <3> QED
            BY <1>0, <2>1, <3>1
    <2>5. notice' \in [Mails -> Stock!NoticeRows]
        <3>1. [state |-> "open", order |-> None] \in Stock!NoticeRows
            BY DEF Stock!NoticeRows
        <3> QED
            BY <1>0, <2>1, <3>1 DEF MailRowsTyped
    <2> QED
        BY <1>0, <2>1, <2>3, <2>4, <2>5 DEF MailRowsTyped
<1>6. ASSUME NEW c \in Cycles, NEW o \in Orders, Stock!AssignUse(c, o)
      PROVE  StockRows' /\ MailRowsTyped'
    <2>1. usage' \in [Cycles -> Stock!UseRows]
        BY <1>0, <1>6 DEF Stock!AssignUse, Stock!UseRows, Stock!Statuses
    <2> QED
        BY <1>0, <1>6, <2>1 DEF Stock!AssignUse, Stock!mailVars, MailRowsTyped
<1>7. ASSUME NEW c \in Cycles, Stock!DeleteUse(c)
      PROVE  StockRows' /\ MailRowsTyped'
    <2>1. usage' \in [Cycles -> Stock!UseRows]
        BY <1>0, <1>7 DEF Stock!DeleteUse, Stock!UseRows, Stock!Statuses
    <2> QED
        BY <1>0, <1>7, <2>1 DEF Stock!DeleteUse, Stock!mailVars, MailRowsTyped
<1>8. ASSUME NEW p \in Products, NEW e \in {"absent", "fits", "other"}, Stock!EditCatalogue(p, e)
      PROVE  StockRows' /\ MailRowsTyped'
    BY <1>0, <1>8 DEF Stock!EditCatalogue, Stock!mailVars, MailRowsTyped
<1>9. StockRows' /\ MailRowsTyped'
    BY <1>1, <1>2, <1>3, <1>4, <1>5, <1>6, <1>7, <1>8 DEF Stock!StaffStep
<1>10. Stock!TypeOK' <=> StockRows' /\ MailRowsTyped'
    BY DEF Stock!TypeOK, StockRows, MailRowsTyped
<1> QED
    BY <1>9, <1>10

\* What the scan has matched is a use of the right type.
LEMMA ScanTypes ==
    ASSUME Stock!TypeOK, Stock!ScanStep
    PROVE  /\ Stock!TypeOK'
           /\ UNCHANGED <<order, counter, catalogue>> /\ UNCHANGED Stock!mailVars
           /\ UNCHANGED stockDay
<1> USE DEF StockRows
<1>0. StockRows /\ MailRowsTyped
    BY StockTypeParts
<1>1. ASSUME NEW closed \in SUBSET Cycles, Stock!StartScan(closed)
      PROVE  worker' \in Stock!Scans /\ UNCHANGED <<order, usage, counter, catalogue>>
                /\ UNCHANGED Stock!mailVars /\ UNCHANGED stockDay
    BY <1>1, IdleTyped DEF Stock!StartScan, Stock!Scans
<1>2. ASSUME NEW c \in Cycles, Stock!MatchCycle(c)
      PROVE  worker' \in Stock!Scans /\ UNCHANGED <<order, usage, counter, catalogue>>
                /\ UNCHANGED Stock!mailVars /\ UNCHANGED stockDay
    <2> DEFINE verdict == Stock!Verdict(Stock!Stocked(Stock!Visible))
    <2>1. verdict \in Stock!Statuses
        BY DEF Stock!Verdict, Stock!Statuses
    <2>2. PICK o \in Orders \cup {None} :
             worker' = [worker EXCEPT !.cycle = c, !.chosen = o, !.status = verdict]
        BY <1>2, Zenon DEF Stock!MatchCycle
    <2> HIDE DEF verdict
    <2>3. worker' \in Stock!Scans
        BY <1>0, <2>1, <2>2 DEF Stock!Scans
    <2> QED
        BY <1>2, <2>3 DEF Stock!MatchCycle
<1>3. ASSUME Stock!InsertUse
      PROVE  worker' \in Stock!Scans /\ UNCHANGED <<order, usage, counter, catalogue>>
                /\ UNCHANGED Stock!mailVars /\ UNCHANGED stockDay
    <2> DEFINE new   == [status |-> worker.status, order |-> worker.chosen]
               added == [worker.added EXCEPT ![worker.cycle] = new]
    <2>1. /\ worker.cycle # None
          /\ \/ worker' = Stock!Idle
             \/ worker' = [worker EXCEPT !.added[worker.cycle] = new,
                              !.todo = @ \ {worker.cycle}, !.cycle = None,
                              !.chosen = None, !.status = "none"]
          /\ UNCHANGED <<order, usage, counter, catalogue>> /\ UNCHANGED Stock!mailVars
          /\ UNCHANGED stockDay
        BY <1>3 DEF Stock!InsertUse
    <2>2. new \in Stock!UseRows /\ worker.added \in [Cycles -> Stock!UseRows]
        BY <1>0 DEF Stock!UseRows, Stock!Scans
    <2> HIDE DEF new
    <2>3. added \in [Cycles -> Stock!UseRows]
        BY <2>2
    <2>4. CASE worker' = Stock!Idle
        BY <2>1, <2>4, IdleTyped
    <2>5. CASE worker' = [worker EXCEPT !.added = added,
                              !.todo = @ \ {worker.cycle}, !.cycle = None,
                              !.chosen = None, !.status = "none"]
        <3> HIDE DEF added
        <3>1. worker' \in Stock!Scans
            BY <1>0, <2>3, <2>5 DEF Stock!Scans, Stock!Statuses
        <3> QED
            BY <2>1, <3>1
    <2> QED
        BY <2>1, <2>4, <2>5
<1>4. ASSUME Stock!CommitScan
      PROVE  /\ worker' \in Stock!Scans /\ usage' \in [Cycles -> Stock!UseRows]
             /\ UNCHANGED <<order, counter, catalogue>> /\ UNCHANGED Stock!mailVars
             /\ UNCHANGED stockDay
    <2>1. Stock!Seen \in [Cycles -> Stock!UseRows]
        BY <1>0 DEF Stock!Seen, Stock!Scans
    <2> QED
        BY <1>4, <2>1, IdleTyped DEF Stock!CommitScan
<1>5. ASSUME Stock!RollBack
      PROVE  worker' \in Stock!Scans /\ UNCHANGED <<order, usage, counter, catalogue>>
                /\ UNCHANGED Stock!mailVars /\ UNCHANGED stockDay
    BY <1>5, IdleTyped DEF Stock!RollBack
<1>6. worker' \in Stock!Scans /\ usage' \in [Cycles -> Stock!UseRows]
         /\ UNCHANGED <<order, counter, catalogue>> /\ UNCHANGED Stock!mailVars
         /\ UNCHANGED stockDay
    BY <1>0, <1>1, <1>2, <1>3, <1>4, <1>5 DEF Stock!ScanStep
<1>7. StockRows' /\ MailRowsTyped'
    BY <1>0, <1>6 DEF MailRowsTyped, Stock!mailVars
<1>8. Stock!TypeOK' <=> StockRows' /\ MailRowsTyped'
    BY DEF Stock!TypeOK, StockRows, MailRowsTyped
<1> QED
    BY <1>6, <1>7, <1>8

\* The ETA an order gets is one some mail gave, or the one it had.
LEMMA EtaTyped ==
    ASSUME Stock!TypeOK, MailsSent, NEW o \in Orders,
           NEW batch \in SUBSET Stock!InWindow
    PROVE  Stock!EtaAfter(o, Stock!Imported(batch)) \in 0..MaxTime
<1> DEFINE new  == Stock!Imported(batch)
           moved == {m \in Mails : new[m].order = o /\ notice[m] # new[m] /\ mail[m].eta > 0}
           at   == [m \in moved |-> MaxTime - mail[m].at]
<1>0. StockRows /\ MailRowsTyped
    BY StockTypeParts
<1>1. \A m \in Mails : /\ mail[m].at \in 0..MaxTime \cup {None} /\ mail[m].eta \in 0..MaxTime
    BY <1>0 DEF MailRowsTyped, Stock!MailRows
<1>2. order[o].eta \in 0..MaxTime
    BY <1>0 DEF StockRows, Stock!OrderRows
<1>3. \A m \in moved : mail[m].at \in 0..MaxTime
    <2>1. \A m \in moved : m \in batch
        BY DEF Stock!Imported
    <2>2. \A m \in batch : m \in Mails /\ mail[m].shown
        BY DEF Stock!InWindow
    <2> QED
        BY <1>1, <2>1, <2>2 DEF MailsSent
<1> HIDE DEF new
<1>4. CASE moved # {}
    <2> HIDE DEF moved
    <2>1. at \in [moved -> Nat] /\ \A m \in moved : at[m] <= MaxTime
        BY <1>3, StockConstants
    <2>2. PICK m \in moved : \A n \in moved : at[n] <= at[m]
        <3> HIDE DEF at
        <3> QED
            BY <1>4, <2>1, StockConstants, GreatestMeasured
    <2>3. \A n \in moved : mail[m].at <= mail[n].at
        BY <1>3, <2>2, StockConstants
    <2> DEFINE oldest == CHOOSE k \in moved : \A n \in moved : mail[k].at <= mail[n].at
    <2>4. oldest \in moved
        BY <2>3
    <2>5. Stock!EtaAfter(o, new) = mail[oldest].eta
        BY <1>4 DEF Stock!EtaAfter, moved
    <2>6. oldest \in Mails
        BY <2>4 DEF moved
    <2> HIDE DEF oldest
    <2> QED
        BY <1>1, <2>5, <2>6 DEF new
<1>5. CASE moved = {}
    BY <1>2, <1>5 DEF Stock!EtaAfter, new
<1> QED
    BY <1>4, <1>5

\* The poll of the mailbox and the orders assumed delivered.
LEMMA MailboxTypes ==
    ASSUME Stock!TypeOK, MailsSent, Stock!ShippingJob
    PROVE  /\ Stock!TypeOK'
           /\ UNCHANGED <<usage, worker, catalogue, counter, mail, reachable, stockDay>>
<1>0. StockRows /\ MailRowsTyped
    BY StockTypeParts
<1>1. UNCHANGED <<usage, worker, catalogue, counter, mail, reachable, stockDay>>
    BY DEF Stock!ShippingJob, Stock!stockVars
<1>2. ASSUME NEW rows, NEW etas, \A o \in Orders : etas[o] \in 0..MaxTime
      PROVE  Stock!Assumed(rows, etas) \in [Orders -> Stock!OrderRows]
    <2> DEFINE B == 0..MaxTime
               state(o) == IF Stock!Due(o, rows) THEN "delivered" ELSE order[o].state
    <2>1. order \in [Orders -> [state : {"none", "ordered", "delivered", "deleted"},
                                product : Products \cup {None},
                                quantity : Quantities \cup {0}, eta : B]]
        BY <1>0 DEF StockRows, Stock!OrderRows
    <2> HIDE DEF B
    <2> DEFINE changed(o, e, s) == [order[o] EXCEPT !.eta = e, !.state = s]
               after(o) == IF order[o].state # "ordered" THEN order[o]
                           ELSE changed(o, etas[o], state(o))
    <2>2. Stock!OrderRows = [state : {"none", "ordered", "delivered", "deleted"},
                             product : Products \cup {None},
                             quantity : Quantities \cup {0}, eta : B]
        BY DEF Stock!OrderRows, B
    <2>3. ASSUME NEW o \in Orders, NEW e \in B, NEW s \in {"delivered", order[o].state}
          PROVE  changed(o, e, s) \in Stock!OrderRows
        BY <2>1, <2>2
    <2>4. \A o \in Orders : etas[o] \in B
        BY <1>2 DEF B
    <2>5. \A o \in Orders : state(o) \in {"delivered", order[o].state}
        OBVIOUS
    <2>6. Stock!Assumed(rows, etas) = [o \in Orders |-> after(o)]
        BY DEF Stock!Assumed
    <2>7. \A o \in Orders : order[o] \in Stock!OrderRows
        BY <1>0 DEF StockRows
    <2> HIDE DEF state, changed
    <2>8. \A o \in Orders : after(o) \in Stock!OrderRows
        BY <2>3, <2>4, <2>5, <2>7
    <2> HIDE DEF after
    <2> QED
        BY <2>6, <2>8
<1>3. CASE ~Stock!PollDue /\ order' = Stock!Assumed(notice, [o \in Orders |-> order[o].eta])
              /\ UNCHANGED <<notice, marker, reach>>
    <2> DEFINE etas == [o \in Orders |-> order[o].eta]
    <2>1. \A o \in Orders : etas[o] \in 0..MaxTime
        BY <1>0 DEF StockRows, Stock!OrderRows
    <2>2. order' \in [Orders -> Stock!OrderRows]
        BY <1>2, <1>3, <2>1
    <2> QED
        BY <1>0, <1>1, <1>3, <2>2 DEF Stock!TypeOK, StockRows, MailRowsTyped
<1>4. CASE \E batch \in Stock!Fetched :
              /\ notice' = Stock!Imported(batch)
              /\ order' = Stock!Assumed(Stock!Imported(batch),
                             [o \in Orders |-> Stock!EtaAfter(o, Stock!Imported(batch))])
              /\ marker' = stockDay
              /\ reach' = IF marker = None THEN Stock!Since ELSE reach
    <2>1. PICK batch \in Stock!Fetched :
              /\ notice' = Stock!Imported(batch)
              /\ order' = Stock!Assumed(Stock!Imported(batch),
                             [o \in Orders |-> Stock!EtaAfter(o, Stock!Imported(batch))])
              /\ marker' = stockDay
              /\ reach' = IF marker = None THEN Stock!Since ELSE reach
        BY <1>4
    <2>2. batch \subseteq Stock!InWindow
        BY DEF Stock!Fetched
    <2> DEFINE etas == [o \in Orders |-> Stock!EtaAfter(o, Stock!Imported(batch))]
    <2>3. \A o \in Orders : etas[o] \in 0..MaxTime
        BY <2>2, EtaTyped
    <2>4. order' \in [Orders -> Stock!OrderRows]
        <3> HIDE DEF etas
        <3>1. Stock!Assumed(Stock!Imported(batch), etas) \in [Orders -> Stock!OrderRows]
            BY <1>2, <2>3
        <3> QED
            BY <2>1, <3>1 DEF etas
    <2>5. notice' \in [Mails -> Stock!NoticeRows]
        <3>1. ASSUME NEW m \in Mails
              PROVE  Stock!MatchOf(m) \in Orders \cup {None}
            <4> DEFINE same == {o \in Stock!Active : order[o].product = mail[m].sku}
            <4>1. CASE Cardinality(same) = 1
                <5>1. same # {}
                    <6> HIDE DEF same
                    <6> QED
                        BY <4>1, FS_EmptySet
                <5>2. (CHOOSE o \in same : TRUE) \in Orders
                    BY <5>1 DEF Stock!Active
                <5> QED
                    BY <5>2 DEF Stock!MatchOf
            <4>2. CASE Cardinality(same) # 1
                BY <4>2, StockCounts DEF Stock!MatchOf
            <4> QED
                BY <4>1, <4>2
        <3> QED
            BY <1>0, <2>1, <3>1 DEF Stock!Imported, Stock!NoticeRows, MailRowsTyped
    <2>6. stockDay \in 0..MaxTime
        BY <1>0 DEF MailRowsTyped
    <2>7. reach' \in 0..MaxTime \cup {None}
        BY <1>0, <2>1, <2>6, StockConstants DEF MailRowsTyped, Stock!Since
    <2> QED
        BY <1>0, <1>1, <2>1, <2>4, <2>5, <2>6, <2>7 DEF Stock!TypeOK, StockRows, MailRowsTyped
<1> QED
    BY <1>1, <1>3, <1>4 DEF Stock!ShippingJob

\* What else touches the mail: who resolves a notice, who sends, and the clock.
LEMMA MailTypes ==
    ASSUME Stock!TypeOK,
           \/ Stock!NoticeStep \/ Stock!MailStep \/ Stock!MailboxReturns \/ Stock!Tick
    PROVE  Stock!TypeOK'
<1> SUFFICES StockRows' /\ MailRowsTyped'
    BY DEF Stock!TypeOK, StockRows, MailRowsTyped
<1>0. StockRows /\ MailRowsTyped
    BY StockTypeParts
<1> USE DEF MailRowsTyped
<1>1. ASSUME NEW m \in Mails, NEW o \in Orders, Stock!AssignNotice(m, o)
      PROVE  StockRows' /\ MailRowsTyped'
    <2> DEFINE eta == IF mail[m].eta > 0 THEN mail[m].eta ELSE order[o].eta
               B   == 0..MaxTime
    <2>1. /\ notice' = [notice EXCEPT ![m] = [state |-> "linked", order |-> o]]
          /\ order' = [order EXCEPT ![o].eta = eta]
          /\ UNCHANGED <<usage, worker, catalogue, counter, mail, marker, reach, reachable, stockDay>>
        BY <1>1 DEF Stock!AssignNotice, Stock!stockVars
    <2>2. eta \in B /\ order[o].eta \in B
        BY <1>0 DEF Stock!MailRows, Stock!OrderRows, StockRows
    <2>3. notice' \in [Mails -> Stock!NoticeRows]
        <3>1. [state |-> "linked", order |-> o] \in Stock!NoticeRows
            BY DEF Stock!NoticeRows
        <3> QED
            BY <1>0, <2>1, <3>1
    <2>4. order' \in [Orders -> Stock!OrderRows]
        <3> HIDE DEF B, eta
        <3>1. Stock!OrderRows = [state : {"none", "ordered", "delivered", "deleted"},
                                 product : Products \cup {None},
                                 quantity : Quantities \cup {0}, eta : B]
            BY DEF Stock!OrderRows, B
        <3>2. [order[o] EXCEPT !.eta = eta] \in Stock!OrderRows
            BY <1>0, <2>2, <3>1 DEF StockRows
        <3> QED
            BY <1>0, <2>1, <3>2 DEF StockRows
    <2> QED
        BY <1>0, <2>1, <2>3, <2>4 DEF StockRows
<1>2. ASSUME NEW m \in Mails, Stock!DeleteNotice(m)
      PROVE  StockRows' /\ MailRowsTyped'
    <2>1. notice' \in [Mails -> Stock!NoticeRows]
        BY <1>0, <1>2 DEF Stock!DeleteNotice, Stock!NoticeRows
    <2> QED
        BY <1>0, <1>2, <2>1 DEF Stock!DeleteNotice, Stock!stockVars, StockRows
<1>3. ASSUME NEW m \in Mails, NEW sku \in Products, NEW eta \in 0..MaxTime,
             Stock!Send(m, sku, eta)
      PROVE  StockRows' /\ MailRowsTyped'
    <2> DEFINE new == [at |-> stockDay, sku |-> sku, eta |-> eta, shown |-> FALSE]
    <2>1. new \in Stock!MailRows
        BY <1>0 DEF Stock!MailRows
    <2>2. mail' = [mail EXCEPT ![m] = new]
        BY <1>3 DEF Stock!Send
    <2> HIDE DEF new
    <2>3. mail' \in [Mails -> Stock!MailRows]
        BY <1>0, <2>1, <2>2
    <2> QED
        BY <1>0, <1>3, <2>3 DEF Stock!Send, Stock!stockVars, StockRows
<1>4. ASSUME NEW m \in Mails, Stock!Show(m)
      PROVE  StockRows' /\ MailRowsTyped'
    <2>1. mail' \in [Mails -> Stock!MailRows]
        BY <1>0, <1>4 DEF Stock!Show, Stock!MailRows
    <2> QED
        BY <1>0, <1>4, <2>1 DEF Stock!Show, Stock!stockVars, StockRows
<1>5. CASE Stock!MailboxFails \/ Stock!MailboxReturns
    BY <1>0, <1>5 DEF Stock!MailboxFails, Stock!MailboxReturns, Stock!stockVars, StockRows
<1>6. CASE Stock!Tick
    <2>1. stockDay' = stockDay + 1 /\ stockDay < MaxTime
             /\ UNCHANGED <<order, usage, worker, catalogue, counter, mail, notice, marker, reach, reachable>>
        BY <1>6 DEF Stock!Tick, Stock!stockVars, Stock!mailVars
    <2>2. stockDay' \in 0..MaxTime
        BY <1>0, <2>1, StockConstants
    <2> QED
        BY <1>0, <2>1, <2>2 DEF StockRows
<1> QED
    BY <1>1, <1>2, <1>3, <1>4, <1>5, <1>6 DEF Stock!NoticeStep, Stock!MailStep

\* What the steps do to the mail, for the two lemmas that follow.
LEMMA MailMoves ==
    ASSUME Stock!TypeOK, [Stock!Next]_(Stock!vars)
    PROVE  \/ Stock!ShippingJob
           \/ Stock!Tick
           \/ /\ UNCHANGED <<marker, reach, stockDay>>
              /\ \/ mail' = mail
                 \/ \E m \in Mails, sku \in Products, eta \in 0..MaxTime : Stock!Send(m, sku, eta)
                 \/ \E m \in Mails : Stock!Show(m)
              /\ \A m \in Mails : notice[m].state # "none" => notice'[m].state # "none"
<1> USE DEF Stock!mailVars, Stock!stockVars
<1>0. notice \in [Mails -> Stock!NoticeRows]
    BY DEF Stock!TypeOK
<1> DEFINE still == /\ UNCHANGED <<mail, marker, reach, stockDay>>
                    /\ \A m \in Mails : notice[m].state # "none" => notice'[m].state # "none"
<1>1. CASE Stock!ScanStep
    BY <1>1, ScanTypes
<1>2. ASSUME NEW d \in Desks, Stock!DeleteOrder(d)
      PROVE  still
    <2>1. /\ UNCHANGED <<mail, marker, reach, stockDay>>
          /\ notice' = [m \in Mails |-> IF notice[m].order = counter[d].order
                          THEN [state |-> "open", order |-> None] ELSE notice[m]]
        BY <1>2 DEF Stock!DeleteOrder
    <2> QED
        BY <2>1
<1>3. ASSUME NEW d \in Desks, NEW o \in Orders, NEW p \in Products, NEW q \in Quantities,
             NEW eta \in 0..MaxTime, Stock!InsertOrder(d, o, p, q, eta)
      PROVE  still
    BY <1>3 DEF Stock!InsertOrder
<1>4. CASE \/ \E d \in Desks : Stock!CheckCreate(d)
           \/ \E o \in Orders : Stock!MarkDelivered(o)
           \/ \E d \in Desks, o \in Orders : Stock!CheckDelete(d, o)
           \/ \E c \in Cycles, o \in Orders : Stock!AssignUse(c, o)
           \/ \E c \in Cycles : Stock!DeleteUse(c)
           \/ \E p \in Products, e \in {"absent", "fits", "other"} : Stock!EditCatalogue(p, e)
    BY <1>4 DEF Stock!CheckCreate, Stock!MarkDelivered, Stock!CheckDelete, Stock!AssignUse,
        Stock!DeleteUse, Stock!EditCatalogue
<1>5. CASE Stock!StaffStep
    BY <1>2, <1>3, <1>4, <1>5 DEF Stock!StaffStep
<1>6. CASE Stock!NoticeStep
    <2>1. ASSUME NEW m \in Mails, NEW o \in Orders, Stock!AssignNotice(m, o)
          PROVE  still
        BY <1>0, <2>1 DEF Stock!AssignNotice
    <2>2. ASSUME NEW m \in Mails, Stock!DeleteNotice(m)
          PROVE  still
        BY <1>0, <2>2 DEF Stock!DeleteNotice, Stock!NoticeRows
    <2> QED
        BY <1>6, <2>1, <2>2 DEF Stock!NoticeStep
<1>7. CASE \/ \E m \in Mails, sku \in Products, eta \in 0..MaxTime : Stock!Send(m, sku, eta)
           \/ \E m \in Mails : Stock!Show(m)
    BY <1>7 DEF Stock!Send, Stock!Show
<1>8. CASE Stock!MailboxFails \/ Stock!MailboxReturns \/ UNCHANGED Stock!vars
    BY <1>8 DEF Stock!MailboxFails, Stock!MailboxReturns, Stock!vars
<1> QED
    BY <1>1, <1>5, <1>6, <1>7, <1>8 DEF Stock!Next, Stock!MailStep

LEMMA MailsSentStep ==
    ASSUME Stock!TypeOK, MailsSent, [Stock!Next]_(Stock!vars)
    PROVE  MailsSent'
<1>0. mail \in [Mails -> Stock!MailRows] /\ stockDay \in Nat
    BY StockConstants DEF Stock!TypeOK
<1>1. \A m \in Mails : mail[m].at \in Nat \cup {None}
    BY <1>0, StockConstants DEF Stock!MailRows
<1>2. CASE mail' = mail /\ stockDay' \in {stockDay, stockDay + 1}
    BY <1>0, <1>1, <1>2 DEF MailsSent
<1>3. CASE Stock!ShippingJob \/ Stock!Tick
    BY <1>2, <1>3 DEF Stock!ShippingJob, Stock!Tick, Stock!mailVars
<1>4. ASSUME NEW m \in Mails, NEW sku \in Products, NEW eta \in 0..MaxTime,
             Stock!Send(m, sku, eta)
      PROVE  MailsSent'
    <2>1. /\ mail' = [mail EXCEPT ![m] = [at |-> stockDay, sku |-> sku, eta |-> eta,
                                          shown |-> FALSE]]
          /\ stockDay' = stockDay
        BY <1>4 DEF Stock!Send
    <2> QED
        BY <1>0, <2>1, StockConstants DEF MailsSent
<1>5. ASSUME NEW m \in Mails, Stock!Show(m)
      PROVE  MailsSent'
    <2>1. mail' = [mail EXCEPT ![m].shown = TRUE] /\ mail[m].at # None /\ stockDay' = stockDay
        BY <1>5 DEF Stock!Show
    <2> QED
        BY <1>0, <2>1 DEF MailsSent, Stock!MailRows
<1>6. stockDay' = stockDay => stockDay' \in {stockDay, stockDay + 1}
    OBVIOUS
<1> QED
    BY <1>2, <1>3, <1>4, <1>5, <1>6, MailMoves

\* For any orders, cycles, mails and handlers: the stock's rows are of their types,
\* and no mail is listed that was not sent.
THEOREM StockTypes == Stock!Spec => [](Stock!TypeOK /\ MailsSent)
<1>1. Stock!Init => Stock!TypeOK /\ MailsSent
    <2> SUFFICES ASSUME Stock!Init
                 PROVE  Stock!TypeOK /\ MailsSent
        OBVIOUS
    <2> USE DEF Stock!Init
    <2>1. MailsSent
        BY DEF MailsSent, Stock!NoMail
    <2>2. /\ order \in [Orders -> Stock!OrderRows] /\ worker \in Stock!Scans
          /\ stockDay \in 0..MaxTime
        BY StockConstants, IdleTyped
    <2>3. /\ usage \in [Cycles -> Stock!UseRows]
          /\ mail \in [Mails -> Stock!MailRows] /\ notice \in [Mails -> Stock!NoticeRows]
        BY StockConstants DEF Stock!NoUse, Stock!NoMail, Stock!NoNotice, Stock!UseRows,
            Stock!Statuses, Stock!MailRows, Stock!NoticeRows
    <2> QED
        BY <2>1, <2>2, <2>3 DEF Stock!TypeOK
<1>2. Stock!TypeOK /\ MailsSent /\ [Stock!Next]_(Stock!vars) => (Stock!TypeOK /\ MailsSent)'
    <2> SUFFICES ASSUME Stock!TypeOK, MailsSent, [Stock!Next]_(Stock!vars)
                 PROVE  Stock!TypeOK'
        BY MailsSentStep
    <2>1. CASE UNCHANGED Stock!vars
        BY <2>1 DEF Stock!vars, Stock!TypeOK, Stock!OrderRows, Stock!UseRows, Stock!Scans,
            Stock!Statuses, Stock!MailRows, Stock!NoticeRows
    <2> QED
        BY <2>1, StaffTypes, ScanTypes, MailTypes, MailboxTypes DEF Stock!Next
<1> QED
    BY <1>1, <1>2, PTL DEF Stock!Spec

\* The mailbox keeps up: a poll reaches as far behind its marker as a mail is late,
\* and no window holds more mails than a poll reads.
MailboxKeepsUp == Lag <= Overlap /\ IsFiniteSet(Mails) /\ Cardinality(Mails) <= Cap

\* A mail not yet listed is not yet late, and the marker is not ahead of the clock.
MailInTime ==
    /\ \A m \in Mails : mail[m].at # None /\ ~mail[m].shown => stockDay <= mail[m].at + Lag
    /\ marker # None => marker <= stockDay

MailInv == Stock!TypeOK /\ MailsSent /\ MailInTime /\ Stock!MailImported

LEMMA MailNumbers ==
    ASSUME Stock!TypeOK
    PROVE  /\ \A m \in Mails : mail[m].at \in Nat \cup {None} /\ mail[m].shown \in BOOLEAN
           /\ marker \in Nat \cup {None} /\ stockDay \in Nat
           /\ mail \in [Mails -> Stock!MailRows]
<1>1. mail \in [Mails -> Stock!MailRows] /\ marker \in 0..MaxTime \cup {None}
      /\ stockDay \in 0..MaxTime
    BY DEF Stock!TypeOK
<1> QED
    BY <1>1, StockConstants DEF Stock!MailRows

\* A poll imports all that its window holds, and no mail falls out of a window
\* before it was imported.
LEMMA PollImports ==
    ASSUME MailboxKeepsUp, MailInv, Stock!ShippingJob
    PROVE  Stock!MailImported'
<1> USE MailNumbers, StockConstants DEF MailInv
<1>1. mail' = mail
    BY DEF Stock!ShippingJob
<1>2. CASE UNCHANGED <<notice, marker, reach>>
    BY <1>1, <1>2 DEF Stock!MailImported
<1>3. CASE /\ \E batch \in Stock!Fetched : notice' = Stock!Imported(batch)
           /\ reach' = IF marker = None THEN Stock!Since ELSE reach
    <2>1. PICK batch \in Stock!Fetched : notice' = Stock!Imported(batch)
        BY <1>3
    <2>2. batch = Stock!InWindow
        <3> DEFINE W == Stock!InWindow
        <3>1. W \subseteq Mails
            BY DEF Stock!InWindow
        <3>2. IsFiniteSet(W) /\ Cardinality(W) \in Nat /\ Cardinality(W) <= Cap
            BY <3>1, FS_Subset, FS_CardinalityType DEF MailboxKeepsUp
        <3>3. /\ batch \subseteq W
              /\ Stock!Cardinality(batch) = IF Stock!Cardinality(W) < Cap
                                            THEN Stock!Cardinality(W) ELSE Cap
            BY <2>1 DEF Stock!Fetched
        <3>4. Cardinality(batch) = Cardinality(W)
            BY <3>2, <3>3, StockCounts
        <3> HIDE DEF W
        <3>5. batch = W
            BY <3>2, <3>3, <3>4, FS_Subset
        <3> QED
            BY <3>5 DEF W
    <2>3. ASSUME NEW m \in Mails, mail[m].shown, mail[m].at >= reach', marker' # None
          PROVE  notice'[m].state # "none"
        <3>1. mail[m].at \in Nat
            BY <2>3 DEF MailsSent
        <3>2. CASE m \in Stock!InWindow
            <4>1. notice'[m] = IF notice[m].state \in {"none", "discarded"}
                               THEN [state |-> IF Stock!MatchOf(m) = None THEN "open" ELSE "linked",
                                     order |-> Stock!MatchOf(m)]
                               ELSE notice[m]
                BY <2>1, <2>2, <3>2 DEF Stock!Imported
            <4> QED
                BY <4>1
        <3>3. CASE m \notin Stock!InWindow
            <4>1. mail[m].at < Stock!Since /\ Stock!Since \in Nat
                BY <2>3, <3>1, <3>3 DEF Stock!InWindow, Stock!Since
            <4>6. marker # None /\ mail[m].at >= reach
                BY <1>3, <2>3, <3>1, <4>1
            <4>2. mail[m].at < marker - Overlap
                BY <3>1, <4>1, <4>6 DEF Stock!Since
            <4>3. mail[m].at + Lag < marker
                BY <3>1, <4>2, <4>6 DEF MailboxKeepsUp
            <4>4. notice[m].state # "none"
                BY <2>3, <4>3, <4>6 DEF Stock!MailImported
            <4>5. notice'[m] = notice[m]
                BY <2>1, <2>2, <3>3 DEF Stock!Imported
            <4> QED
                BY <4>4, <4>5
        <3> QED
            BY <3>2, <3>3
    <2> QED
        BY <1>1, <2>3 DEF Stock!MailImported
<1> QED
    BY <1>2, <1>3 DEF Stock!ShippingJob

LEMMA MailStays ==
    ASSUME MailboxKeepsUp, MailInv, [Stock!Next]_(Stock!vars)
    PROVE  MailInTime' /\ Stock!MailImported'
<1> USE DEF MailInv
<1> USE MailNumbers, StockConstants
<1>1. CASE Stock!ShippingJob
    <2>1. mail' = mail /\ stockDay' = stockDay /\ marker' \in {marker, stockDay}
        BY <1>1 DEF Stock!ShippingJob
    <2> QED
        BY <1>1, <2>1, PollImports DEF MailInTime
<1>2. CASE Stock!Tick
    <2>1. /\ \A m \in Mails : mail[m].at # None /\ ~mail[m].shown => stockDay < mail[m].at + Lag
          /\ stockDay' = stockDay + 1
          /\ UNCHANGED <<mail, notice, marker, reach>>
        BY <1>2 DEF Stock!Tick, Stock!mailVars
    <2>2. MailInTime'
        BY <2>1 DEF MailInTime
    <2> QED
        BY <2>1, <2>2 DEF Stock!MailImported
<1>3. ASSUME UNCHANGED <<marker, reach, stockDay>>, mail' = mail,
             \A m \in Mails : notice[m].state # "none" => notice'[m].state # "none"
      PROVE  MailInTime' /\ Stock!MailImported'
    BY <1>3 DEF MailInTime, Stock!MailImported
<1>4. ASSUME UNCHANGED <<marker, reach, stockDay>>, NEW m \in Mails,
             NEW sku \in Products, NEW eta \in 0..MaxTime, Stock!Send(m, sku, eta),
             \A n \in Mails : notice[n].state # "none" => notice'[n].state # "none"
      PROVE  MailInTime' /\ Stock!MailImported'
    <2>1. mail' = [mail EXCEPT ![m] = [at |-> stockDay, sku |-> sku, eta |-> eta,
                                       shown |-> FALSE]]
        BY <1>4 DEF Stock!Send
    <2>2. mail'[m].at = stockDay /\ ~mail'[m].shown /\ \A n \in Mails \ {m} : mail'[n] = mail[n]
        BY <2>1
    <2>3. stockDay <= stockDay + Lag
        OBVIOUS
    <2> QED
        BY <1>4, <2>2, <2>3 DEF MailInTime, Stock!MailImported
<1>5. ASSUME UNCHANGED <<marker, reach, stockDay>>, NEW m \in Mails, Stock!Show(m),
             \A n \in Mails : notice[n].state # "none" => notice'[n].state # "none"
      PROVE  MailInTime' /\ Stock!MailImported'
    <2>1. mail' = [mail EXCEPT ![m].shown = TRUE] /\ mail[m].at # None /\ ~mail[m].shown
        BY <1>5 DEF Stock!Show
    <2>2. /\ mail'[m].at = mail[m].at /\ mail'[m].shown
          /\ \A n \in Mails \ {m} : mail'[n] = mail[n]
        BY <2>1 DEF Stock!MailRows
    <2>3. stockDay <= mail[m].at + Lag /\ mail[m].at \in Nat
        BY <2>1 DEF MailInTime
    <2>4. marker # None => marker <= mail[m].at + Lag
        BY <2>3 DEF MailInTime
    <2> QED
        BY <1>5, <2>2, <2>3, <2>4 DEF MailInTime, Stock!MailImported
<1> QED
    BY <1>1, <1>2, <1>3, <1>4, <1>5, MailMoves

\* For any orders, mails, delays and clocks: while the mailbox keeps up, every mail
\* of the supplier that a poll has passed was imported, from the day on that the
\* first successful poll went back to (sync_mailbox).
THEOREM MailReachesLedger == MailboxKeepsUp => (Stock!Spec => []Stock!MailImported)
<1> SUFFICES ASSUME MailboxKeepsUp
             PROVE  Stock!Spec => []Stock!MailImported
    OBVIOUS
<1>1. Stock!Init => MailInTime /\ Stock!MailImported
    BY DEF Stock!Init, Stock!NoMail, MailInTime, Stock!MailImported
<1>2. /\ MailInTime /\ Stock!MailImported /\ Stock!TypeOK /\ MailsSent
      /\ [Stock!Next]_(Stock!vars)
      => (MailInTime /\ Stock!MailImported)'
    <2> SUFFICES ASSUME MailInTime, Stock!MailImported, Stock!TypeOK, MailsSent,
                        [Stock!Next]_(Stock!vars)
                 PROVE  MailInTime' /\ Stock!MailImported'
        OBVIOUS
    <2>1. MailInv
        BY DEF MailInv
    <2> QED
        BY <2>1, MailStays
<1> QED
    BY <1>1, <1>2, StockTypes, PTL DEF Stock!Spec

\* The uses of an order: those a scan has added, and all that the scan sees.
Adding(o) == Stock!UsesOf(worker.added, o)
Reckoned(o) == Stock!UsesOf(Stock!Seen, o)
NoneByHand(o) == \A c \in Stock!UsesOf(usage, o) : usage[c].status # "manually_assigned"

\* A cycle has one use: what a scan adds or has yet to match, nobody else has used.
UsesApart ==
    /\ \A c \in Cycles : /\ usage[c].status = "none" => usage[c].order = None
                         /\ worker.added[c].status = "none" => worker.added[c].order = None
                         /\ worker.added[c].status # "none" => usage[c].status = "none"
    /\ \A c \in worker.todo : usage[c].status = "none" /\ worker.added[c].status = "none"
    /\ worker.cycle # None => worker.cycle \in worker.todo /\ worker.status # "none"

\* The order a scan takes from was delivered, and it has enough for what the scan
\* takes.  Until somebody assigns one by hand it has enough for all its uses.
ScanCovered(o) ==
    /\ Adding(o) # {} =>
          /\ order[o].state = "delivered"
          /\ Cardinality(Adding(o)) <= order[o].quantity
          /\ NoneByHand(o) => Cardinality(Reckoned(o)) <= order[o].quantity
    /\ worker.cycle # None /\ worker.chosen = o =>
          \/ order[o].state = "deleted"
          \/ /\ order[o].state = "delivered"
             /\ Cardinality(Adding(o)) < order[o].quantity
             /\ NoneByHand(o) => Cardinality(Reckoned(o)) < order[o].quantity

ScansCovered == \A o \in Orders : ScanCovered(o)
StockInv == Stock!TypeOK /\ UsesApart /\ ScansCovered

LEMMA UseFields ==
    ASSUME Stock!TypeOK
    PROVE  /\ usage \in [Cycles -> Stock!UseRows]
           /\ worker.added \in [Cycles -> Stock!UseRows] /\ worker.todo \subseteq Cycles
           /\ worker.cycle \in Cycles \cup {None} /\ worker.chosen \in Orders \cup {None}
           /\ worker.status \in Stock!Statuses /\ worker \in Stock!Scans
           /\ \A c \in Cycles : /\ usage[c].order \in Orders \cup {None}
                                /\ worker.added[c].order \in Orders \cup {None}
           /\ order \in [Orders -> Stock!OrderRows]
           /\ \A o \in Orders : order[o].quantity \in Nat
<1>1. \A o \in Orders : order[o].quantity \in Nat
    <2>1. \A r \in Stock!OrderRows : r.quantity \in Quantities \cup {0}
        BY DEF Stock!OrderRows
    <2>2. \A o \in Orders : order[o] \in Stock!OrderRows
        BY DEF Stock!TypeOK
    <2>3. Quantities \cup {0} \subseteq Nat
        BY StockConstants
    <2> QED
        BY <2>1, <2>2, <2>3, Zenon
<1> QED
    BY <1>1 DEF Stock!TypeOK, Stock!Scans, Stock!UseRows

\* The sets of uses are finite, and what a scan adds is part of what it sees.
LEMMA UseSets ==
    ASSUME Stock!TypeOK, UsesApart, NEW o \in Orders
    PROVE  /\ IsFiniteSet(Adding(o)) /\ IsFiniteSet(Reckoned(o))
           /\ IsFiniteSet(Stock!UsesOf(usage, o))
           /\ Cardinality(Adding(o)) \in Nat /\ Cardinality(Reckoned(o)) \in Nat
           /\ Cardinality(Stock!UsesOf(usage, o)) \in Nat
           /\ Cardinality(Adding(o)) <= Cardinality(Reckoned(o))
           /\ Reckoned(o) = Adding(o) \cup Stock!UsesOf(usage, o)
<1>1. \A c \in Cycles : worker.added[c].order = o => worker.added[c].status # "none"
    BY StockConstants DEF UsesApart
<1>2. \A c \in Cycles : worker.added[c].status # "none" => usage[c].order # o
    BY StockConstants DEF UsesApart
<1>3. \A c \in Cycles : Stock!Seen[c] = IF worker.added[c].status # "none"
                                        THEN worker.added[c] ELSE usage[c]
    BY DEF Stock!Seen
<1>4. Reckoned(o) = Adding(o) \cup Stock!UsesOf(usage, o)
    BY <1>1, <1>2, <1>3 DEF Reckoned, Adding, Stock!UsesOf
<1>5. Reckoned(o) \subseteq Cycles /\ Adding(o) \subseteq Reckoned(o)
      /\ Stock!UsesOf(usage, o) \subseteq Cycles
    BY <1>4 DEF Reckoned, Stock!UsesOf
<1>6. IsFiniteSet(Reckoned(o)) /\ IsFiniteSet(Stock!UsesOf(usage, o))
    BY <1>5, StockConstants, FS_Subset
<1>7. IsFiniteSet(Adding(o)) /\ Cardinality(Adding(o)) <= Cardinality(Reckoned(o))
    BY <1>5, <1>6, FS_Subset
<1> QED
    BY <1>4, <1>6, <1>7, FS_CardinalityType

\* A step that leaves the scan, the uses and an order's row alone, but for what
\* the order's row does not say to the scan.
LEMMA CoverRests ==
    ASSUME Stock!TypeOK, ScansCovered, NEW o \in Orders, worker' = worker,
           Stock!UsesOf(usage, o)' = Stock!UsesOf(usage, o),
           \A c \in Stock!UsesOf(usage, o) : usage'[c].status = usage[c].status,
           Reckoned(o)' = Reckoned(o),
           order[o].state \in {"delivered", "deleted"} =>
              order'[o].state = order[o].state /\ order'[o].quantity = order[o].quantity
    PROVE  ScanCovered(o)'
<1>1. Adding(o)' = Adding(o)
    BY DEF Adding, Stock!UsesOf
<1>2. NoneByHand(o)' <=> NoneByHand(o)
    BY DEF NoneByHand
<1>3. ScanCovered(o)
    BY DEF ScansCovered
<1> QED
    BY <1>1, <1>2, <1>3 DEF ScanCovered

\* What the steps that leave the uses and the scan alone do to the orders.
LEMMA OrdersMove ==
    ASSUME StockInv, UNCHANGED <<usage, worker>>,
           \A o \in Orders : order[o].state \in {"delivered", "deleted"} =>
              order'[o].state = order[o].state /\ order'[o].quantity = order[o].quantity
    PROVE  UsesApart' /\ ScansCovered'
<1>1. UsesApart'
    BY DEF UsesApart, StockInv
<1>2. Stock!Seen' = Stock!Seen
    BY DEF Stock!Seen
<1>3. ASSUME NEW o \in Orders
      PROVE  ScanCovered(o)'
    <2>1. Reckoned(o)' = Reckoned(o) /\ Stock!UsesOf(usage, o)' = Stock!UsesOf(usage, o)
        BY <1>2 DEF Reckoned, Stock!UsesOf
    <2> QED
        BY <2>1, CoverRests DEF StockInv
<1> QED
    BY <1>1, <1>3 DEF ScansCovered

LEMMA OrdersOnly ==
    ASSUME StockInv,
           \/ \E d \in Desks : Stock!CheckCreate(d)
           \/ \E d \in Desks, o \in Orders, p \in Products, q \in Quantities,
                 eta \in 0..MaxTime : Stock!InsertOrder(d, o, p, q, eta)
           \/ \E o \in Orders : Stock!MarkDelivered(o)
           \/ \E d \in Desks, o \in Orders : Stock!CheckDelete(d, o)
           \/ \E p \in Products, e \in {"absent", "fits", "other"} : Stock!EditCatalogue(p, e)
           \/ Stock!NoticeStep \/ Stock!MailStep \/ Stock!MailboxReturns \/ Stock!Tick
           \/ Stock!ShippingJob \/ UNCHANGED Stock!vars
    PROVE  UsesApart' /\ ScansCovered'
<1> DEFINE Rests == /\ UNCHANGED <<usage, worker>>
                    /\ \A o \in Orders : order[o].state \in {"delivered", "deleted"} =>
                          order'[o].state = order[o].state /\ order'[o].quantity = order[o].quantity
<1> USE DEF Stock!stockVars, Stock!mailVars
<1>0. order \in [Orders -> Stock!OrderRows]
    BY DEF StockInv, Stock!TypeOK
<1>r. \A r \in Stock!OrderRows : DOMAIN r = {"state", "product", "quantity", "eta"}
    BY DEF Stock!OrderRows
<1>1. ASSUME NEW d \in Desks, Stock!CheckCreate(d)
      PROVE  Rests
    BY <1>1 DEF Stock!CheckCreate
<1>2. ASSUME NEW d \in Desks, NEW o \in Orders, NEW p \in Products, NEW q \in Quantities,
             NEW eta \in 0..MaxTime, Stock!InsertOrder(d, o, p, q, eta)
      PROVE  Rests
    <2>1. /\ order[o].state = "none" /\ UNCHANGED <<usage, worker>>
          /\ order' = [order EXCEPT ![o] = [state |-> "ordered", product |-> p,
                                            quantity |-> q, eta |-> eta]]
        BY <1>2 DEF Stock!InsertOrder
    <2> QED
        BY <1>0, <2>1
<1>3. ASSUME NEW o \in Orders, Stock!MarkDelivered(o)
      PROVE  Rests
    <2>1. /\ order[o].state = "ordered" /\ UNCHANGED <<usage, worker>>
          /\ order' = [order EXCEPT ![o].state = "delivered"]
        BY <1>3 DEF Stock!MarkDelivered
    <2> QED
        BY <1>0, <2>1
<1>4. ASSUME NEW d \in Desks, NEW o \in Orders, Stock!CheckDelete(d, o)
      PROVE  Rests
    BY <1>4 DEF Stock!CheckDelete
<1>5. ASSUME NEW p \in Products, NEW e \in {"absent", "fits", "other"}, Stock!EditCatalogue(p, e)
      PROVE  Rests
    BY <1>5 DEF Stock!EditCatalogue
<1>6. ASSUME NEW m \in Mails, NEW o \in Orders, Stock!AssignNotice(m, o)
      PROVE  Rests
    <2> DEFINE eta == IF mail[m].eta > 0 THEN mail[m].eta ELSE order[o].eta
    <2>1. /\ order' = [order EXCEPT ![o].eta = eta] /\ UNCHANGED <<usage, worker>>
        BY <1>6 DEF Stock!AssignNotice
    <2> HIDE DEF eta
    <2>2. order'[o].state = order[o].state /\ order'[o].quantity = order[o].quantity
        BY <1>0, <2>1 DEF Stock!OrderRows
    <2> QED
        BY <1>0, <2>1, <2>2
<1>7. ASSUME NEW m \in Mails, Stock!DeleteNotice(m)
      PROVE  Rests
    BY <1>7 DEF Stock!DeleteNotice
<1>8. CASE Stock!MailStep \/ Stock!MailboxReturns \/ Stock!Tick \/ UNCHANGED Stock!vars
    <2>1. Rests
        BY <1>8 DEF Stock!MailStep, Stock!Send, Stock!Show, Stock!MailboxFails,
            Stock!MailboxReturns, Stock!Tick, Stock!vars
    <2> QED
        BY <2>1, OrdersMove
<1>9. CASE Stock!ShippingJob
    <2>1. \E rows, etas : order' = Stock!Assumed(rows, etas)
        BY <1>9 DEF Stock!ShippingJob
    <2>2. ASSUME NEW o \in Orders, order[o].state \in {"delivered", "deleted"}
          PROVE  order'[o] = order[o]
        <3>1. PICK rows, etas : order' = Stock!Assumed(rows, etas)
            BY <2>1
        <3>2. order[o].state # "ordered"
            BY <2>2
        <3> QED
            BY <3>1, <3>2, Zenon DEF Stock!Assumed
    <2>3. UNCHANGED <<usage, worker>>
        BY <1>9 DEF Stock!ShippingJob
    <2> QED
        BY <2>2, <2>3, OrdersMove
<1> QED
    BY <1>1, <1>2, <1>3, <1>4, <1>5, <1>6, <1>7, <1>8, <1>9, OrdersMove DEF Stock!NoticeStep

\* A use assigned, or deleted, by hand.
LEMMA UsesByHand ==
    ASSUME StockInv, NEW c \in Cycles,
           Stock!DeleteUse(c) \/ \E o \in Orders : Stock!AssignUse(c, o)
    PROVE  UsesApart' /\ ScansCovered'
<1> USE UseFields DEF StockInv
<1>0. /\ usage[c].status # "none" /\ usage[c].order = None
      /\ UNCHANGED <<order, worker>>
      /\ \A k \in Cycles \ {c} : usage'[k] = usage[k]
      /\ usage'[c].status # "none"
    <2>1. CASE Stock!DeleteUse(c)
        <3>1. /\ usage[c].status # "none" /\ usage[c].order = None
              /\ usage' = [usage EXCEPT ![c].status = "deleted"] /\ UNCHANGED <<order, worker>>
            BY <2>1 DEF Stock!DeleteUse
        <3> QED
            BY <3>1 DEF Stock!UseRows
    <2>2. CASE \E o \in Orders : Stock!AssignUse(c, o)
        <3>1. PICK o \in Orders :
                 /\ usage[c].status # "none" /\ usage[c].order = None
                 /\ usage' = [usage EXCEPT ![c] = [status |-> "manually_assigned", order |-> o]]
                 /\ UNCHANGED <<order, worker>>
            BY <2>2 DEF Stock!AssignUse
        <3> QED
            BY <3>1
    <2> QED
        BY <2>1, <2>2
<1>1. worker.added[c].status = "none" /\ c \notin worker.todo
    BY <1>0 DEF UsesApart
<1>2. UsesApart'
    BY <1>0, <1>1 DEF UsesApart
<1>3. \A k \in Cycles \ {c} : Stock!Seen'[k] = Stock!Seen[k]
    BY <1>0 DEF Stock!Seen
<1>4. Stock!Seen[c] = usage[c] /\ Stock!Seen'[c] = usage'[c]
    BY <1>0, <1>1 DEF Stock!Seen
<1>5. ASSUME NEW o \in Orders, usage'[c].order # o
      PROVE  ScanCovered(o)'
    <2>1. Stock!UsesOf(usage, o)' = Stock!UsesOf(usage, o)
        BY <1>0, <1>5, StockConstants DEF Stock!UsesOf
    <2>2. Reckoned(o)' = Reckoned(o)
        BY <1>0, <1>3, <1>4, <1>5, StockConstants DEF Reckoned, Stock!UsesOf
    <2>3. \A k \in Stock!UsesOf(usage, o) : usage'[k].status = usage[k].status
        BY <1>0, StockConstants DEF Stock!UsesOf
    <2> QED
        BY <1>0, <2>1, <2>2, <2>3, CoverRests
<1>6. ASSUME NEW o \in Orders, usage'[c].order = o
      PROVE  ScanCovered(o)'
    <2>1. CASE Stock!DeleteUse(c)
        <3>1. usage' = [usage EXCEPT ![c].status = "deleted"]
            BY <2>1 DEF Stock!DeleteUse
        <3>2. usage'[c].order = None
            BY <1>0, <3>1 DEF Stock!UseRows
        <3> QED
            BY <1>6, <3>2, StockConstants
    <2>2. CASE \E x \in Orders : Stock!AssignUse(c, x)
        <3>1. PICK x \in Orders : Stock!AssignUse(c, x)
            BY <2>2
        <3>2. /\ ~Stock!Locked(x)
              /\ usage' = [usage EXCEPT ![c] = [status |-> "manually_assigned", order |-> x]]
            BY <3>1 DEF Stock!AssignUse
        <3>3. x = o /\ usage'[c].status = "manually_assigned"
            BY <1>6, <3>2
        <3>4. Adding(o) = {} /\ Adding(o)' = {}
            BY <1>0, <3>2, <3>3 DEF Adding, Stock!UsesOf, Stock!Locked
        <3>5. ~NoneByHand(o)'
            BY <1>6, <3>3 DEF NoneByHand, Stock!UsesOf
        <3>6. ScanCovered(o)
            BY DEF ScansCovered
        <3> QED
            BY <1>0, <3>4, <3>5, <3>6 DEF ScanCovered
    <2> QED
        BY <2>1, <2>2
<1> QED
    BY <1>2, <1>5, <1>6 DEF ScansCovered

\* An order deleted: no scan has taken from it.
LEMMA OrderDeleted ==
    ASSUME StockInv, NEW d \in Desks, Stock!DeleteOrder(d)
    PROVE  UsesApart' /\ ScansCovered'
<1> USE UseFields DEF StockInv
<1> DEFINE x == counter[d].order
<1>1. /\ ~Stock!Locked(x)
      /\ order' = [order EXCEPT ![x] = [Stock!NoOrder EXCEPT !.state = "deleted"]]
      /\ usage' = [c \in Cycles |-> IF usage[c].order = x
                     THEN [usage[c] EXCEPT !.order = None] ELSE usage[c]]
      /\ worker' = worker
    BY DEF Stock!DeleteOrder
<1> HIDE DEF x
<1>2. \A c \in Cycles : /\ usage'[c].status = usage[c].status
                        /\ usage'[c].order = IF usage[c].order = x THEN None ELSE usage[c].order
    BY <1>1 DEF Stock!UseRows
<1>3. UsesApart'
    BY <1>1, <1>2 DEF UsesApart
<1>4. \A c \in Cycles : Stock!Seen'[c].order = IF worker.added[c].status # "none"
                                               THEN worker.added[c].order ELSE usage'[c].order
    BY <1>1 DEF Stock!Seen
<1>5. \A c \in Cycles : Stock!Seen[c].order = IF worker.added[c].status # "none"
                                              THEN worker.added[c].order ELSE usage[c].order
    BY DEF Stock!Seen
<1>6. ASSUME NEW o \in Orders, o # x
      PROVE  ScanCovered(o)'
    <2>1. Stock!UsesOf(usage, o)' = Stock!UsesOf(usage, o)
        BY <1>2, <1>6, StockConstants DEF Stock!UsesOf
    <2>2. Reckoned(o)' = Reckoned(o)
        BY <1>2, <1>4, <1>5, <1>6, StockConstants DEF Reckoned, Stock!UsesOf
    <2>3. \A k \in Stock!UsesOf(usage, o) : usage'[k].status = usage[k].status
        BY <1>2 DEF Stock!UsesOf
    <2>4. order'[o] = order[o]
        BY <1>1, <1>6
    <2> QED
        BY <1>1, <2>1, <2>2, <2>3, <2>4, CoverRests
<1>7. ASSUME NEW o \in Orders, o = x
      PROVE  ScanCovered(o)'
    <2>1. Adding(o)' = {}
        BY <1>1, <1>7 DEF Adding, Stock!UsesOf, Stock!Locked
    <2>2. order'[o].state = "deleted"
        BY <1>1, <1>7 DEF Stock!NoOrder
    <2> QED
        BY <2>1, <2>2 DEF ScanCovered
<1> QED
    BY <1>3, <1>6, <1>7 DEF ScansCovered

\* A scan that starts, stops or commits holds nothing.
LEMMA ScanRests ==
    ASSUME StockInv,
           \/ \E closed \in SUBSET Cycles : Stock!StartScan(closed)
           \/ Stock!CommitScan \/ Stock!RollBack
    PROVE  UsesApart' /\ ScansCovered'
<1> USE UseFields DEF StockInv
<1> DEFINE Fresh ==
        /\ worker'.added = [c \in Cycles |-> Stock!NoUse] /\ worker'.cycle = None
        /\ \A c \in worker'.todo : c \in Cycles /\ usage'[c].status = "none"
        /\ \A c \in Cycles : usage'[c].status = "none" => usage'[c].order = None
<1>1. Fresh
    <2>1. ASSUME NEW closed \in SUBSET Cycles, Stock!StartScan(closed)
          PROVE  Fresh
        BY <2>1 DEF Stock!StartScan, Stock!Idle, UsesApart
    <2>2. CASE Stock!CommitScan
        <3>1. \A c \in Cycles : Stock!Seen[c] = IF worker.added[c].status # "none"
                                                THEN worker.added[c] ELSE usage[c]
            BY DEF Stock!Seen
        <3>2. usage' = Stock!Seen /\ worker' = Stock!Idle
            BY <2>2 DEF Stock!CommitScan
        <3> QED
            BY <3>1, <3>2 DEF Stock!Idle, UsesApart
    <2>3. CASE Stock!RollBack
        BY <2>3 DEF Stock!RollBack, Stock!Idle, UsesApart
    <2> QED
        BY <2>1, <2>2, <2>3
<1>2. \A c \in Cycles : worker'.added[c].status = "none" /\ worker'.added[c].order = None
    BY <1>1 DEF Stock!NoUse
<1>3. UsesApart'
    BY <1>1, <1>2 DEF UsesApart
<1>4. ASSUME NEW o \in Orders
      PROVE  ScanCovered(o)'
    <2>1. Adding(o)' = {}
        BY <1>2, StockConstants DEF Adding, Stock!UsesOf
    <2> QED
        BY <1>1, <2>1 DEF ScanCovered
<1> QED
    BY <1>3, <1>4 DEF ScansCovered

\* A cycle matched: the order it is to be taken from has one to spare.
LEMMA CycleMatched ==
    ASSUME StockInv, NEW c \in Cycles, Stock!MatchCycle(c)
    PROVE  UsesApart' /\ ScansCovered'
<1> USE UseFields DEF StockInv
<1> DEFINE candidates == Stock!Stocked(Stock!Visible)
           verdict    == Stock!Verdict(candidates)
<1>1. PICK x \in Orders \cup {None} :
         /\ x # None => x \in candidates
         /\ worker' = [worker EXCEPT !.cycle = c, !.chosen = x, !.status = verdict]
    BY Zenon DEF Stock!MatchCycle
<1>2. verdict # "none"
    BY DEF Stock!Verdict
<1>3. x # None => /\ order[x].state = "delivered"
                  /\ Cardinality(Reckoned(x)) < order[x].quantity
    BY <1>1, StockCounts DEF Stock!Stocked, Stock!Visible, Reckoned
<1>4. worker.cycle = None /\ c \in worker.todo /\ UNCHANGED <<usage, order>>
    BY DEF Stock!MatchCycle
<1> HIDE DEF candidates, verdict
<1>5. /\ worker'.cycle = c /\ worker'.chosen = x /\ worker'.status = verdict
      /\ worker'.todo = worker.todo /\ worker'.added = worker.added
    BY <1>1 DEF Stock!Scans
<1>6. UsesApart'
    BY <1>2, <1>4, <1>5 DEF UsesApart
<1>7. ASSUME NEW o \in Orders
      PROVE  ScanCovered(o)'
    <2>1. Adding(o)' = Adding(o) /\ Reckoned(o)' = Reckoned(o)
        BY <1>4, <1>5 DEF Adding, Reckoned, Stock!UsesOf, Stock!Seen
    <2>2. NoneByHand(o)' <=> NoneByHand(o)
        BY <1>4 DEF NoneByHand, Stock!UsesOf
    <2>3. ScanCovered(o)
        BY DEF ScansCovered
    <2>4. x = o => Cardinality(Adding(o)) < order[o].quantity
        BY <1>3, UseSets, StockConstants
    <2> QED
        BY <1>3, <1>4, <1>5, <2>1, <2>2, <2>3, <2>4, StockConstants DEF ScanCovered
<1> QED
    BY <1>6, <1>7 DEF ScansCovered

\* A use inserted: it is one more of the order that was chosen, and of no other.
LEMMA UseInserted ==
    ASSUME StockInv, Stock!InsertUse, worker' # Stock!Idle
    PROVE  UsesApart' /\ ScansCovered'
<1> USE UseFields DEF StockInv
<1> DEFINE c   == worker.cycle
           x   == worker.chosen
           new == [status |-> worker.status, order |-> x]
<1>1. /\ worker.cycle # None
      /\ worker' = [worker EXCEPT !.added[worker.cycle] = new,
                       !.todo = @ \ {worker.cycle}, !.cycle = None,
                       !.chosen = None, !.status = "none"]
      /\ ~(x # None /\ order[x].state = "deleted")
      /\ UNCHANGED <<order, usage>>
    BY DEF Stock!InsertUse
<1>2. c \in worker.todo /\ c \in Cycles /\ worker.status # "none"
      /\ usage[c].status = "none" /\ worker.added[c].status = "none"
      /\ usage[c].order = None /\ worker.added[c].order = None
    BY <1>1 DEF UsesApart
<1>3. new.status # "none" /\ new.order = x
    BY <1>2
<1> HIDE DEF new
<1>4. /\ worker'.added = [worker.added EXCEPT ![c] = new]
      /\ worker'.todo = worker.todo \ {c} /\ worker'.cycle = None
    BY <1>1 DEF Stock!Scans
<1> HIDE DEF c, x
<1>5. worker'.added[c] = new /\ \A k \in Cycles \ {c} : worker'.added[k] = worker.added[k]
    BY <1>2, <1>4
<1>6. UsesApart'
    BY <1>1, <1>2, <1>3, <1>4, <1>5 DEF UsesApart
<1>7. \A k \in Cycles \ {c} : Stock!Seen'[k] = Stock!Seen[k]
    BY <1>1, <1>5 DEF Stock!Seen
<1>8. Stock!Seen'[c] = new /\ Stock!Seen[c] = usage[c]
    BY <1>2, <1>3, <1>5 DEF Stock!Seen
<1>9. ASSUME NEW o \in Orders, o # x
      PROVE  ScanCovered(o)'
    <2>1. Adding(o)' = Adding(o)
        BY <1>2, <1>3, <1>5, <1>9, StockConstants DEF Adding, Stock!UsesOf
    <2>2. Reckoned(o)' = Reckoned(o)
        BY <1>2, <1>3, <1>7, <1>8, <1>9, StockConstants DEF Reckoned, Stock!UsesOf
    <2>3. NoneByHand(o)' <=> NoneByHand(o)
        BY <1>1 DEF NoneByHand, Stock!UsesOf
    <2>4. ScanCovered(o)
        BY DEF ScansCovered
    <2> QED
        BY <1>1, <1>4, <2>1, <2>2, <2>3, <2>4 DEF ScanCovered
<1>10. ASSUME NEW o \in Orders, o = x
       PROVE  ScanCovered(o)'
    <2>1. Adding(o)' \subseteq Adding(o) \cup {c}
        BY <1>5 DEF Adding, Stock!UsesOf
    <2>2. Reckoned(o)' \subseteq Reckoned(o) \cup {c}
        BY <1>7 DEF Reckoned, Stock!UsesOf
    <2>3. NoneByHand(o)' <=> NoneByHand(o)
        BY <1>1 DEF NoneByHand, Stock!UsesOf
    <2>4. /\ order[o].state = "delivered" /\ Cardinality(Adding(o)) < order[o].quantity
          /\ NoneByHand(o) => Cardinality(Reckoned(o)) < order[o].quantity
        BY <1>1, <1>10, StockConstants DEF ScansCovered, ScanCovered, x
    <2>5. Cardinality(Adding(o)') <= Cardinality(Adding(o)) + 1
          /\ Cardinality(Adding(o)') \in Nat
        BY <2>1, UseSets, OneMoreCounted
    <2>6. Cardinality(Reckoned(o)') <= Cardinality(Reckoned(o)) + 1
          /\ Cardinality(Reckoned(o)') \in Nat
        BY <2>2, UseSets, OneMoreCounted
    <2>7. Cardinality(Adding(o)') <= order[o].quantity
          /\ (NoneByHand(o) => Cardinality(Reckoned(o)') <= order[o].quantity)
        BY <2>4, <2>5, <2>6, UseSets
    <2> QED
        BY <1>1, <1>4, <2>3, <2>4, <2>7 DEF ScanCovered
<1> QED
    BY <1>6, <1>9, <1>10 DEF ScansCovered

LEMMA StockSteps ==
    ASSUME StockInv, [Stock!Next]_(Stock!vars)
    PROVE  UsesApart' /\ ScansCovered'
<1>1. CASE Stock!ScanStep
    <2>1. CASE Stock!InsertUse /\ worker' = Stock!Idle
        <3>1. UNCHANGED usage
            BY <2>1 DEF Stock!InsertUse
        <3>2. \A c \in Cycles : Stock!NoUse.status = "none" /\ Stock!NoUse.order = None
            BY DEF Stock!NoUse
        <3>3. UsesApart'
            BY <2>1, <3>1, <3>2 DEF StockInv, UsesApart, Stock!Idle
        <3>4. ASSUME NEW o \in Orders
              PROVE  ScanCovered(o)'
            <4>1. Adding(o)' = {}
                BY <2>1, <3>2, StockConstants DEF Adding, Stock!UsesOf, Stock!Idle
            <4> QED
                BY <2>1, <4>1 DEF ScanCovered, Stock!Idle
        <3> QED
            BY <3>3, <3>4 DEF ScansCovered
    <2> QED
        BY <1>1, <2>1, ScanRests, CycleMatched, UseInserted DEF Stock!ScanStep
<1>2. CASE Stock!StaffStep
    BY <1>2, OrdersOnly, UsesByHand, OrderDeleted DEF Stock!StaffStep
<1>3. CASE \/ Stock!NoticeStep \/ Stock!MailStep \/ Stock!MailboxReturns \/ Stock!Tick
           \/ Stock!ShippingJob \/ UNCHANGED Stock!vars
    BY <1>3, OrdersOnly
<1> QED
    BY <1>1, <1>2, <1>3 DEF Stock!Next

\* For any orders, cycles and handlers: what a scan takes from an order, that order
\* has, whatever the staff do while the scan is open.
THEOREM StockInvariant == Stock!Spec => []StockInv
<1>1. Stock!Init => UsesApart /\ ScansCovered
    <2> SUFFICES ASSUME Stock!Init
                 PROVE  UsesApart /\ ScansCovered
        OBVIOUS
    <2>1. /\ \A c \in Cycles : /\ usage[c].status = "none" /\ usage[c].order = None
                               /\ worker.added[c].status = "none" /\ worker.added[c].order = None
          /\ worker.todo = {} /\ worker.cycle = None
        BY DEF Stock!Init, Stock!NoUse, Stock!Idle
    <2>2. \A o \in Orders : Adding(o) = {}
        BY <2>1, StockConstants DEF Adding, Stock!UsesOf
    <2> QED
        BY <2>1, <2>2 DEF UsesApart, ScansCovered, ScanCovered
<1>2. Stock!TypeOK /\ UsesApart /\ ScansCovered /\ [Stock!Next]_(Stock!vars)
      => (UsesApart /\ ScansCovered)'
    <2> SUFFICES ASSUME Stock!TypeOK, UsesApart, ScansCovered, [Stock!Next]_(Stock!vars)
                 PROVE  UsesApart' /\ ScansCovered'
        OBVIOUS
    <2>1. StockInv
        BY DEF StockInv
    <2> QED
        BY <2>1, StockSteps
<1> QED
    BY <1>1, <1>2, StockTypes, PTL DEF Stock!Spec, StockInv

\* Who can overdraw an order, and how.
LEMMA WhoOverdraws ==
    ASSUME StockInv, Stock!Next, NEW o \in Orders,
           ~Stock!Overdrawn(o), Stock!Overdrawn(o)', order'[o] = order[o]
    PROVE  /\ worker # Stock!Idle /\ worker' = Stock!Idle
           /\ \E c \in Stock!UsesOf(usage, o) : usage[c].status = "manually_assigned"
           /\ Stock!Cardinality(Stock!UsesOf(worker.added, o)) <= order[o].quantity
<1> USE UseFields DEF StockInv
<1> DEFINE was == Stock!UsesOf(usage, o)   is == Stock!UsesOf(usage, o)'
<1>1. /\ IsFiniteSet(was) /\ Cardinality(was) \in Nat
      /\ Cardinality(was) <= order[o].quantity
    BY UseSets, StockCounts DEF Stock!Overdrawn
<1>2. Cardinality(is) > order[o].quantity
    <2>1. Stock!Cardinality(is) > order'[o].quantity
        BY DEF Stock!Overdrawn, Stock!Cardinality
    <2> QED
        BY <2>1, StockCounts
<1>3. is # was /\ ~(is \subseteq was)
    <2>1. is \subseteq was => Cardinality(is) \in Nat /\ Cardinality(is) <= Cardinality(was)
        BY <1>1, FewerCounted
    <2> QED
        BY <1>1, <1>2, <2>1
<1>4. Stock!CommitScan
    <2>1. usage' # usage
        BY <1>3 DEF Stock!UsesOf
    <2>2. CASE \E d \in Desks : Stock!DeleteOrder(d)
        <3>1. PICK d \in Desks : Stock!DeleteOrder(d)
            BY <2>2
        <3>2. usage' = [c \in Cycles |-> IF usage[c].order = counter[d].order
                          THEN [usage[c] EXCEPT !.order = None] ELSE usage[c]]
            BY <3>1 DEF Stock!DeleteOrder
        <3>3. \A c \in Cycles : usage'[c].order \in {None, usage[c].order}
            BY <3>2 DEF Stock!UseRows
        <3>4. is \subseteq was
            BY <3>3, StockConstants DEF Stock!UsesOf
        <3> QED
            BY <1>3, <3>4
    <2>3. CASE \E c \in Cycles : Stock!DeleteUse(c)
        <3>1. PICK c \in Cycles : Stock!DeleteUse(c)
            BY <2>3
        <3>2. usage' = [usage EXCEPT ![c].status = "deleted"]
            BY <3>1 DEF Stock!DeleteUse
        <3>3. \A k \in Cycles : usage'[k].order = usage[k].order
            BY <3>2 DEF Stock!UseRows
        <3>4. is \subseteq was
            BY <3>3 DEF Stock!UsesOf
        <3> QED
            BY <1>3, <3>4
    <2>4. CASE \E c \in Cycles, x \in Orders : Stock!AssignUse(c, x)
        <3>1. PICK c \in Cycles, x \in Orders : Stock!AssignUse(c, x)
            BY <2>4
        <3>2. /\ usage' = [usage EXCEPT ![c] = [status |-> "manually_assigned", order |-> x]]
              /\ Stock!Remaining(x)
            BY <3>1 DEF Stock!AssignUse
        <3>3. CASE x = o
            <4>1. is \subseteq was \cup {c}
                BY <3>2 DEF Stock!UsesOf
            <4>2. Cardinality(is) \in Nat /\ Cardinality(is) <= Cardinality(was) + 1
                BY <1>1, <4>1, OneMoreCounted
            <4>3. Cardinality(was) < order[o].quantity
                BY <3>2, <3>3, StockCounts DEF Stock!Remaining
            <4> QED
                BY <1>1, <1>2, <4>2, <4>3
        <3>4. CASE x # o
            <4>1. is \subseteq was
                BY <3>2, <3>4 DEF Stock!UsesOf
            <4> QED
                BY <1>3, <4>1
        <3> QED
            BY <3>3, <3>4
    <2>5. ASSUME NEW d \in Desks, NEW k \in Orders, NEW p \in Products, NEW q \in Quantities,
                 NEW eta \in 0..MaxTime, Stock!InsertOrder(d, k, p, q, eta)
          PROVE  usage' = usage
        BY <2>5 DEF Stock!InsertOrder, Stock!stockVars
    <2>6. CASE \/ \E d \in Desks : Stock!CheckCreate(d)
               \/ \E k \in Orders : Stock!MarkDelivered(k)
               \/ \E d \in Desks, k \in Orders : Stock!CheckDelete(d, k)
               \/ \E p \in Products, e \in {"absent", "fits", "other"} : Stock!EditCatalogue(p, e)
               \/ Stock!NoticeStep \/ Stock!MailStep \/ Stock!MailboxReturns \/ Stock!Tick
               \/ Stock!ShippingJob
        BY <2>1, <2>6 DEF Stock!CheckCreate, Stock!MarkDelivered, Stock!CheckDelete,
            Stock!EditCatalogue, Stock!NoticeStep, Stock!AssignNotice, Stock!DeleteNotice,
            Stock!MailStep, Stock!Send, Stock!Show, Stock!MailboxFails, Stock!MailboxReturns,
            Stock!Tick, Stock!ShippingJob, Stock!stockVars
    <2>7. CASE Stock!ScanStep
        <3>1. Stock!InsertUse => usage' = usage
            BY DEF Stock!InsertUse
        <3>2. \A c \in Cycles : Stock!MatchCycle(c) => usage' = usage
            BY DEF Stock!MatchCycle
        <3>3. \A closed \in SUBSET Cycles : Stock!StartScan(closed) => usage' = usage
            BY DEF Stock!StartScan
        <3>4. Stock!RollBack => usage' = usage
            BY DEF Stock!RollBack
        <3> QED
            BY <2>1, <2>7, <3>1, <3>2, <3>3, <3>4 DEF Stock!ScanStep
    <2> QED
        BY <2>1, <2>2, <2>3, <2>4, <2>5, <2>6, <2>7 DEF Stock!Next, Stock!StaffStep
<1>5. worker # Stock!Idle /\ worker' = Stock!Idle /\ usage' = Stock!Seen
    BY <1>4 DEF Stock!CommitScan
<1>6. is = Reckoned(o)
    BY <1>5 DEF Reckoned, Stock!UsesOf
<1>7. Adding(o) # {}
    BY <1>3, <1>6, UseSets
<1>8. /\ Cardinality(Adding(o)) <= order[o].quantity
      /\ NoneByHand(o) => Cardinality(Reckoned(o)) <= order[o].quantity
    BY <1>7 DEF ScansCovered, ScanCovered
<1>9. ~NoneByHand(o)
    BY <1>2, <1>6, <1>8, UseSets
<1> QED
    BY <1>5, <1>8, <1>9, StockCounts DEF NoneByHand, Adding

\* For any orders, cycles and handlers: stock is overdrawn by the commit of a scan
\* during which somebody assigned by hand, and by nothing else.
THEOREM OverdrawnByRaceOnly == Stock!Spec => Stock!OverdrawnOnlyByRace
<1>1. StockInv /\ [Stock!Next]_(Stock!vars)
      => [\A o \in Orders :
            ~Stock!Overdrawn(o) /\ Stock!Overdrawn(o)' /\ order'[o] = order[o] =>
               /\ worker # Stock!Idle /\ worker' = Stock!Idle
               /\ \E c \in Stock!UsesOf(usage, o) : usage[c].status = "manually_assigned"
               /\ Stock!Cardinality(Stock!UsesOf(worker.added, o)) <= order[o].quantity]_(Stock!vars)
    BY WhoOverdraws
<1> QED
    BY <1>1, StockInvariant, PTL DEF Stock!Spec, Stock!OverdrawnOnlyByRace

-----------------------------------------------------------------------------
(* Quiet hours and maintenance windows.                                    *)

\* The local clock, in days and units of the day.
LEMMA DayAndHour ==
    ASSUME NEW x \in Int, NEW D \in Nat \ {0}
    PROVE  /\ x \div D \in Int /\ (x % D) \in 0..D - 1
           /\ x = (x \div D) * D + (x % D)
OBVIOUS

LEMMA ClientClock ==
    ASSUME NEW c \in Clients, NEW t \in Int
    PROVE  /\ Calendar!Local(c, t) \in Int
           /\ Calendar!ToUtc(c, t) \in Int
<1>1. Zone[c].base \in Int /\ Zone[c].at \in Int /\ Zone[c].jump \in Int
    BY DataAssumption DEF DataAssumption, Calendar!CalendarAssumption
<1> QED
    BY <1>1 DEF Calendar!Local, Calendar!ToUtc

\* What a pair of hours covers of a day: the hours that began on it, and when
\* they wrap those that began the day before.
LEMMA HoursOfDay ==
    ASSUME NEW q \in Calendar!Quiet, NEW c \in Clients, NEW t \in Int,
           NEW day, day = Calendar!Local(c, t) \div Wanted,
           NEW at, at = Calendar!Local(c, t) % Wanted,
           NEW start, start = q.start % Wanted
    PROVE  Calendar!Inside(q, c, t) <=>
              \/ /\ start <= at /\ (at < q.end \/ q.end <= start)
                 /\ Calendar!WeekdayAllowed(q, day)
              \/ /\ q.end <= start /\ at < q.end
                 /\ Calendar!WeekdayAllowed(q, day - 1)
<1>1. Wanted \in Nat \ {0}
    BY DataAssumption DEF DataAssumption, Calendar!CalendarAssumption
<1>2. q.start \in 0..Wanted /\ q.end \in 0..Wanted
    BY DEF Calendar!Quiet
<1> DEFINE x     == Calendar!Local(c, t)
           on(d) == d * Wanted + start
           off(d) == (IF q.end > start THEN d ELSE d + 1) * Wanted + q.end
           ok(d) == Calendar!WeekdayAllowed(q, d)
<1>3. /\ day \in Int /\ at \in 0..Wanted - 1 /\ x = day * Wanted + at /\ x \in Int
      /\ start \in 0..Wanted - 1
    <2>1. x \in Int
        BY ClientClock
    <2>2. day = x \div Wanted /\ at = x % Wanted
        OBVIOUS
    <2>3. start \in 0..Wanted - 1
        BY <1>1, <1>2
    <2> HIDE DEF x
    <2> QED
        BY <1>1, <2>1, <2>2, <2>3, DayAndHour
<1>4. Calendar!Inside(q, c, t) <=>
         \E d \in {e \in (day - 1)..(day + 1) : ok(e)} : on(d) <= x /\ x < off(d)
    <2> DEFINE days == {e \in (day - 1)..(day + 1) : ok(e)}
               hours(d) == [from |-> on(d), to |-> off(d)]
    <2>1. Calendar!Around(q, c, t) = {hours(d) : d \in days}
        BY DEF Calendar!Around, Calendar!Occurrences
    <2> HIDE DEF days, on, off, x
    <2>2. Calendar!Inside(q, c, t)
             <=> \E o \in Calendar!Around(q, c, t) : o.from <= x /\ x < o.to
        BY DEF Calendar!Inside, x
    <2>3. \A d \in days : hours(d).from = on(d) /\ hours(d).to = off(d)
        OBVIOUS
    <2> HIDE DEF hours
    <2>4. (\E o \in {hours(d) : d \in days} : o.from <= x /\ x < o.to)
             <=> \E d \in days : on(d) <= x /\ x < off(d)
        BY <2>3
    <2> QED
        BY <2>1, <2>2, <2>4 DEF days
<1>5. \A d \in (day - 1)..(day + 1) : d = day - 1 \/ d = day \/ d = day + 1
    BY <1>3
<1>6. day - 1 \in (day - 1)..(day + 1) /\ day \in (day - 1)..(day + 1)
      /\ day + 1 \in (day - 1)..(day + 1)
    BY <1>3
<1> DEFINE T == day * Wanted
<1>7. /\ T \in Int
      /\ (day - 1) * Wanted = T - Wanted
      /\ (day + 1) * Wanted = T + Wanted
      /\ (day + 1 + 1) * Wanted = T + Wanted + Wanted
      /\ (day - 1 + 1) * Wanted = T
    <2>1. \A n \in Int : n * Wanted \in Int /\ (n + 1) * Wanted = n * Wanted + Wanted
        BY <1>1
    <2>2. /\ day \in Int /\ day - 1 \in Int /\ day + 1 \in Int
          /\ (day - 1) + 1 = day
        BY <1>3
    <2>3. /\ T \in Int /\ (day + 1) * Wanted = T + Wanted
          /\ (day + 1 + 1) * Wanted = (day + 1) * Wanted + Wanted
          /\ (day - 1) * Wanted \in Int
          /\ day * Wanted = (day - 1) * Wanted + Wanted
        BY <2>1, <2>2
    <2> QED
        BY <1>1, <2>2, <2>3
<1>8. (on(day) <= x /\ x < off(day)) <=> start <= at /\ (at < q.end \/ q.end <= start)
    <2>1. x = T + at /\ on(day) = T + start
        BY <1>3
    <2>2. off(day) = IF q.end > start THEN T + q.end ELSE T + Wanted + q.end
        BY <1>7
    <2> HIDE DEF T, x, on, off
    <2> QED
        BY <1>1, <1>2, <1>3, <1>7, <2>1, <2>2
<1>9. (on(day - 1) <= x /\ x < off(day - 1)) <=> q.end <= start /\ at < q.end
    <2>1. x = T + at /\ on(day - 1) = T - Wanted + start
        BY <1>3, <1>7
    <2>2. off(day - 1) = IF q.end > start THEN T - Wanted + q.end ELSE T + q.end
        BY <1>7
    <2> HIDE DEF T, x, on, off
    <2> QED
        BY <1>1, <1>2, <1>3, <1>7, <2>1, <2>2
<1>10. ~(on(day + 1) <= x)
    <2>1. x = T + at /\ on(day + 1) = T + Wanted + start
        BY <1>3, <1>7
    <2> HIDE DEF T, x, on
    <2> QED
        BY <1>1, <1>3, <1>7, <2>1
<1> HIDE DEF on, off, x, ok, T
<1>11. Calendar!Inside(q, c, t) <=>
          \/ ok(day) /\ on(day) <= x /\ x < off(day)
          \/ ok(day - 1) /\ on(day - 1) <= x /\ x < off(day - 1)
    BY <1>4, <1>5, <1>6, <1>10, Zenon
<1> QED
    BY <1>8, <1>9, <1>11 DEF ok

\* The end of the quiet hours is found exactly when they are on.
LEMMA QuietEndInside ==
    ASSUME NEW q \in Calendar!Quiet, NEW c \in Clients, NEW t \in Int
    PROVE  /\ Calendar!QuietEnd(q, c, t) # None <=> Calendar!Inside(q, c, t)
           /\ Calendar!QuietEnd(q, c, t) \in Int \cup {None}
<1> DEFINE day == Calendar!Local(c, t) \div Wanted
           at    == Calendar!Local(c, t) % Wanted
           start == q.start % Wanted
           ok(d) == Calendar!WeekdayAllowed(q, d)
<1>1. Wanted \in Nat \ {0} /\ None \notin Int
    BY DataAssumption DEF DataAssumption, Calendar!CalendarAssumption
<1>2. q.start \in 0..Wanted /\ q.end \in 0..Wanted
    BY DEF Calendar!Quiet
<1>3. day \in Int /\ at \in 0..Wanted - 1 /\ start \in 0..Wanted - 1
    BY <1>1, <1>2, ClientClock
<1>4. Calendar!Inside(q, c, t) <=>
         \/ start <= at /\ (at < q.end \/ q.end <= start) /\ ok(day)
         \/ q.end <= start /\ at < q.end /\ ok(day - 1)
    BY HoursOfDay
<1>5. \A n \in Int : Calendar!ToUtc(c, n) \in Int
    BY ClientClock
<1>6. day * Wanted + q.end \in Int /\ (day + 1) * Wanted + q.end \in Int
    BY <1>1, <1>2, <1>3
<1> DEFINE late  == Calendar!ToUtc(c, day * Wanted + q.end)
           later == Calendar!ToUtc(c, (day + 1) * Wanted + q.end)
<1>7. late \in Int /\ later \in Int
    BY <1>5, <1>6
<1>8. Calendar!QuietEnd(q, c, t) =
         IF start < q.end
         THEN IF start <= at /\ at < q.end /\ ok(day) THEN late ELSE None
         ELSE IF at >= start
         THEN IF ok(day) THEN later ELSE None
         ELSE IF at < q.end /\ ok(day - 1) THEN late ELSE None
    BY DEF Calendar!QuietEnd
<1> HIDE DEF day, at, start, ok, late, later
<1>9. CASE ok(day) /\ ok(day - 1)
    BY <1>1, <1>2, <1>3, <1>4, <1>7, <1>8, <1>9
<1>10. CASE ok(day) /\ ~ok(day - 1)
    BY <1>1, <1>2, <1>3, <1>4, <1>7, <1>8, <1>10
<1>11. CASE ~ok(day) /\ ok(day - 1)
    BY <1>1, <1>2, <1>3, <1>4, <1>7, <1>8, <1>11
<1>12. CASE ~ok(day) /\ ~ok(day - 1)
    BY <1>1, <1>2, <1>3, <1>4, <1>7, <1>8, <1>12
<1> QED
    BY <1>9, <1>10, <1>11, <1>12

\* The same for every rw a window can have.
LEMMA EndWhenOpen ==
    ASSUME NEW rw \in Calendar!Rows, NEW c \in Clients, NEW t \in Instants
    PROVE  /\ Calendar!EndOf(rw, c, t) # None <=> Calendar!Open(rw, c, t)
           /\ Calendar!EndOf(rw, c, t) \in Int \cup {None}
<1>1. /\ Instants \subseteq Int /\ None \notin Int /\ None \notin Calendar!Quiet
      /\ None \notin Calendar!Span
    BY DataAssumption DEF DataAssumption, Calendar!CalendarAssumption
<1>2. CASE rw.quiet # None
    <2>1. rw.quiet \in Calendar!Quiet
        BY <1>2 DEF Calendar!Rows
    <2> QED
        BY <1>1, <1>2, <2>1, QuietEndInside DEF Calendar!EndOf, Calendar!Open
<1>3. CASE rw.quiet = None
    <2>1. rw.range \in Calendar!Span
        BY <1>1, <1>3 DEF Calendar!Rows
    <2>2. rw.range.from \in Int /\ rw.range.to \in Int /\ t \in Int
        BY <1>1, <2>1 DEF Calendar!Span
    <2> QED
        BY <1>1, <1>3, <2>2 DEF Calendar!EndOf, Calendar!Open, Calendar!MaintenanceEnd
<1> QED
    BY <1>2, <1>3

LEMMA CalendarConstants ==
    /\ 0 \in Instants /\ Instants \subseteq Int
    /\ \A p \in Clients : [k \in Clients |-> k][p] \in Clients
    /\ None \notin Int /\ None \notin Calendar!Rows /\ None \notin Calendar!Holds
BY DataAssumption DEF DataAssumption, Calendar!CalendarAssumption

LEMMA HorizonsOf ==
    /\ QuietHorizon \in Nat \ {0} /\ MaintenanceHorizon \in Nat \ {0}
    /\ \A rw : Calendar!Horizon(rw) \in QuietHorizon..MaintenanceHorizon
BY DataAssumption DEF DataAssumption, Calendar!CalendarAssumption, Calendar!Horizon

LEMMA CandidatesAreOn ==
    ASSUME Calendar!TypeOK, NEW p \in Clients, NEW s
    PROVE  /\ Calendar!Candidates(p, s, instant) = Calendar!OnBy(p, s)
           /\ \A w \in Calendar!OnBy(p, s) :
                 /\ window[w] \in Calendar!Rows
                 /\ Calendar!EndOf(window[w], [k \in Clients |-> k][p], instant) \in Int
<1> DEFINE c == [k \in Clients |-> k][p]
<1>1. c \in Clients /\ instant \in Instants /\ None \notin Calendar!Rows
    BY CalendarConstants DEF Calendar!TypeOK
<1>2. \A w \in Windows : window[w] # None => window[w] \in Calendar!Rows
    BY DEF Calendar!TypeOK
<1> HIDE DEF c
<1>3. \A w \in Windows : window[w] # None =>
         /\ Calendar!EndOf(window[w], c, instant) # None <=> Calendar!Open(window[w], c, instant)
         /\ Calendar!EndOf(window[w], c, instant) \in Int \cup {None}
    BY <1>1, <1>2, EndWhenOpen
<1>4. Calendar!Candidates(p, s, instant) = Calendar!OnBy(p, s)
    BY <1>3, Zenon DEF Calendar!Candidates, Calendar!OnBy, c
<1>5. \A w \in Calendar!OnBy(p, s) : w \in Windows /\ window[w] # None
         /\ Calendar!Open(window[w], c, instant)
    BY DEF Calendar!OnBy, c
<1> QED
    BY <1>2, <1>3, <1>4, <1>5 DEF c

\* What a decision leaves of a notification.
LEMMA DecisionHolds ==
    ASSUME Calendar!TypeOK, NEW p \in Clients, NEW s, Calendar!Decide(p, s)
    PROVE  /\ UNCHANGED <<instant, window>>
           /\ held' \in [Clients -> Calendar!Holds \cup {None}]
           /\ held'[p] # None
                 <=> Calendar!OnBy(p, s) # {} /\ \A w \in Calendar!OnBy(p, s) : ~window[w].rule.drop
<1> DEFINE c       == [k \in Clients |-> k][p]
           on      == Calendar!OnBy(p, s)
           end(w)  == Calendar!EndOf(window[w], c, instant)
           last    == {w \in on : \A v \in on : end(v) <= end(w)}
           until(w) == Calendar!Bounded(end(w), instant, Calendar!Horizon(window[w]))
           says    == Calendar!Evaluate(p, s, instant)
           kept(d) == [severity |-> s, since |-> instant, until |-> d.until,
                       by |-> {window[w] : w \in Calendar!Candidates(p, s, instant)}]
           after(d) == IF d.say = "defer" THEN kept(d) ELSE None
<1>1. UNCHANGED <<instant, window>>
    BY DEF Calendar!Decide
<1>2. held \in [Clients -> Calendar!Holds \cup {None}] /\ instant \in Instants
    BY DEF Calendar!TypeOK
<1>3. s \in Severities
    <2>1. CASE held[p] = None
        BY <2>1 DEF Calendar!Decide
    <2>2. CASE held[p] # None
        <3>1. held[p] \in Calendar!Holds /\ s = held[p].severity
            BY <1>2, <2>2 DEF Calendar!Decide
        <3> QED
            BY <3>1 DEF Calendar!Holds
    <2> QED
        BY <2>1, <2>2
<1>4. PICK d \in says : held' = [held EXCEPT ![p] = after(d)]
    BY DEF Calendar!Decide
<1>5. held'[p] = after(d)
    BY <1>2, <1>4
<1>6. says = IF on = {} THEN {[say |-> "dispatch", until |-> None]}
             ELSE IF \E w \in on : window[w].rule.drop
             THEN {[say |-> "suppress", until |-> None]}
             ELSE {[say |-> "defer", until |-> until(w)] : w \in last}
    BY CandidatesAreOn DEF Calendar!Evaluate
<1>7. \A w \in last : until(w) \in Int
    <2>1. \A w \in last : end(w) \in Int
        BY CandidatesAreOn
    <2>2. instant \in Int
        BY <1>2, CalendarConstants
    <2>3. \A r : Calendar!Horizon(r) \in Int
        BY HorizonsOf
    <2> QED
        BY <2>1, <2>2, <2>3 DEF Calendar!Bounded
<1>8. {window[w] : w \in Calendar!Candidates(p, s, instant)} \subseteq Calendar!Rows
    BY CandidatesAreOn
<1>9. d.say = "defer" => d.until \in Int
    <2> HIDE DEF on, last, until, says
    <2> QED
        BY <1>6, <1>7
<1>10. d.say = "defer" <=> on # {} /\ \A w \in on : ~window[w].rule.drop
    <2> HIDE DEF on, last, until, says
    <2>1. CASE on = {}
        BY <1>6, <2>1
    <2>2. CASE on # {} /\ \E w \in on : window[w].rule.drop
        BY <1>6, <2>2
    <2>3. CASE on # {} /\ \A w \in on : ~window[w].rule.drop
        <3>1. says = {[say |-> "defer", until |-> until(w)] : w \in last}
            BY <1>6, <2>3
        <3> QED
            BY <2>3, <3>1
    <2> QED
        BY <2>1, <2>2, <2>3
<1>11. d.say = "defer" => kept(d) \in Calendar!Holds
    BY <1>2, <1>3, <1>8, <1>9 DEF Calendar!Holds
<1>12. after(d) \in Calendar!Holds \cup {None} /\ (after(d) # None <=> d.say = "defer")
    <2> HIDE DEF kept
    <2> QED
        BY <1>11, CalendarConstants
<1> HIDE DEF after, on
<1>13. held' \in [Clients -> Calendar!Holds \cup {None}]
    BY <1>2, <1>4, <1>12
<1> QED
    BY <1>1, <1>5, <1>10, <1>12, <1>13 DEF on

LEMMA CalendarTypes ==
    ASSUME Calendar!TypeOK, [Calendar!Next]_(Calendar!vars)
    PROVE  Calendar!TypeOK'
<1>1. CASE Calendar!Tick
    BY <1>1 DEF Calendar!Tick, Calendar!TypeOK
<1>2. ASSUME NEW w \in Windows, Calendar!Delete(w)
      PROVE  Calendar!TypeOK'
    BY <1>2 DEF Calendar!Delete, Calendar!TypeOK
<1>3. ASSUME NEW w \in Windows, NEW r \in Calendar!Rows, Calendar!Create(w, r)
      PROVE  Calendar!TypeOK'
    BY <1>3 DEF Calendar!Create, Calendar!TypeOK
<1>4. ASSUME NEW w \in Windows, Calendar!Toggle(w)
      PROVE  Calendar!TypeOK'
    <2> DEFINE rw == window[w]
               changed == [rw EXCEPT !.rule = [rw.rule EXCEPT !.enabled = ~rw.rule.enabled]]
    <2>1. rw \in Calendar!Rows
        BY <1>4 DEF Calendar!Toggle, Calendar!TypeOK
    <2>2. changed \in Calendar!Rows
        <3>1. rw.rule \in Calendar!Rule
            BY <2>1 DEF Calendar!Rows
        <3>2. [rw.rule EXCEPT !.enabled = ~rw.rule.enabled] \in Calendar!Rule
            BY <3>1, Zenon DEF Calendar!Rule
        <3> QED
            BY <2>1, <3>2 DEF Calendar!Rows
    <2>3. window' = [window EXCEPT ![w] = changed]
        BY <1>4, Zenon DEF Calendar!Toggle
    <2> HIDE DEF changed, rw
    <2> QED
        BY <1>4, <2>2, <2>3 DEF Calendar!Toggle, Calendar!TypeOK
<1>5. ASSUME NEW p \in Clients, NEW s \in Severities, Calendar!Decide(p, s)
      PROVE  Calendar!TypeOK'
    BY <1>5, DecisionHolds DEF Calendar!TypeOK
<1>6. CASE UNCHANGED Calendar!vars
    BY <1>6 DEF Calendar!vars, Calendar!TypeOK
<1> QED
    BY <1>1, <1>2, <1>3, <1>4, <1>5, <1>6 DEF Calendar!Next

\* For any zones, hours, ranges and severities: the clock, the windows and what
\* is held back keep their types.
THEOREM CalendarInvariant == Calendar!Spec => []Calendar!TypeOK
<1>1. Calendar!Init => Calendar!TypeOK
    BY CalendarConstants DEF Calendar!Init, Calendar!TypeOK
<1>2. Calendar!TypeOK /\ [Calendar!Next]_(Calendar!vars) => Calendar!TypeOK'
    BY CalendarTypes
<1> QED
    BY <1>1, <1>2, PTL DEF Calendar!Spec

\* For any zones, hours, ranges and severities: a notification is held exactly
\* when a window is on by the client's own clock and none that is on drops it.
THEOREM SilentInsideOnly == Calendar!Spec => Calendar!SilentExactlyInside
<1>1. Calendar!TypeOK /\ [Calendar!Next]_(Calendar!vars)
      => [Calendar!DecidedByHours]_(Calendar!vars)
    BY DecisionHolds DEF Calendar!DecidedByHours
<1> QED
    BY <1>1, CalendarInvariant, PTL DEF Calendar!Spec, Calendar!SilentExactlyInside

-----------------------------------------------------------------------------
(* How long a notification is held.                                        *)

\* The greatest of a bounded set of integers.
LEMMA GreatestOf ==
    ASSUME NEW S \in SUBSET Int, S # {}, NEW lo \in Int, NEW hi \in Int,
           \A y \in S : lo <= y /\ y <= hi
    PROVE  Calendar!Max(S) \in S /\ \A y \in S : y <= Calendar!Max(S)
<1> DEFINE f == [y \in S |-> y - lo]
<1>1. f \in [S -> Nat] /\ hi - lo \in Nat /\ \A y \in S : f[y] <= hi - lo
    <2>1. \A y \in S : y - lo \in Nat /\ y - lo <= hi - lo
        OBVIOUS
    <2>2. PICK y \in S : TRUE
        OBVIOUS
    <2>3. y \in Int /\ lo <= y /\ y <= hi
        OBVIOUS
    <2>4. hi - lo \in Nat
        BY <2>3
    <2> QED
        BY <2>1, <2>4
<1>2. PICK x \in S : \A y \in S : f[y] <= f[x]
    <2> HIDE DEF f
    <2> QED
        BY <1>1, GreatestMeasured
<1>3. \A y \in S : x >= y
    BY <1>2
<1>4. LET m == CHOOSE z \in S : \A y \in S : z >= y
      IN  m \in S /\ \A y \in S : m >= y
    BY <1>3
<1>5. \A y \in S : Calendar!Max(S) >= y => y <= Calendar!Max(S)
    BY <1>4 DEF Calendar!Max
<1> QED
    BY <1>4, <1>5 DEF Calendar!Max

\* The hours that a client's clock is in end at one local time, which is ahead
\* and at most a day away.
LEMMA HoursEnd ==
    ASSUME NEW q \in Calendar!Quiet, NEW c \in Clients, NEW t \in Int,
           Calendar!QuietEnd(q, c, t) # None
    PROVE  \E end \in Int :
              /\ Calendar!Local(c, t) < end /\ end <= Calendar!Local(c, t) + Wanted
              /\ Calendar!QuietEnd(q, c, t) = Calendar!ToUtc(c, end)
              /\ \A o \in Calendar!Around(q, c, t) :
                    o.from <= Calendar!Local(c, t) /\ Calendar!Local(c, t) < o.to => o.to = end
<1> DEFINE x      == Calendar!Local(c, t)
           day    == x \div Wanted
           at     == x % Wanted
           start  == q.start % Wanted
           ok(d)  == Calendar!WeekdayAllowed(q, d)
           on(d)  == d * Wanted + start
           off(d) == (IF q.end > start THEN d ELSE d + 1) * Wanted + q.end
           hours(d) == [from |-> on(d), to |-> off(d)]
           same   == day * Wanted + q.end
           next   == (day + 1) * Wanted + q.end
           wraps  == ~(start < q.end)
           end    == IF wraps /\ at >= start THEN next ELSE same
<1>1. Wanted \in Nat \ {0} /\ None \notin Int
    BY DataAssumption DEF DataAssumption, Calendar!CalendarAssumption
<1>2. q.start \in 0..Wanted /\ q.end \in 0..Wanted
    BY DEF Calendar!Quiet
<1>3. x \in Int
    BY ClientClock
<1>4. start \in 0..Wanted - 1
    BY <1>1, <1>2
<1>5. /\ day \in Int /\ at \in 0..Wanted - 1 /\ x = day * Wanted + at
    <2> HIDE DEF x
    <2> QED
        BY <1>1, <1>3, DayAndHour
<1> DEFINE T == day * Wanted
<1>6. /\ T \in Int
      /\ (day - 1) * Wanted = T - Wanted
      /\ (day + 1) * Wanted = T + Wanted
      /\ (day + 1 + 1) * Wanted = T + Wanted + Wanted
      /\ (day - 1 + 1) * Wanted = T
    <2> HIDE DEF day
    <2>1. \A n \in Int : n * Wanted \in Int /\ (n + 1) * Wanted = n * Wanted + Wanted
        BY <1>1
    <2>2. /\ day \in Int /\ day - 1 \in Int /\ day + 1 \in Int
          /\ (day - 1) + 1 = day
        BY <1>5
    <2>3. /\ T \in Int /\ (day + 1) * Wanted = T + Wanted
          /\ (day + 1 + 1) * Wanted = (day + 1) * Wanted + Wanted
          /\ (day - 1) * Wanted \in Int
          /\ day * Wanted = (day - 1) * Wanted + Wanted
        BY <2>1, <2>2
    <2> QED
        BY <1>1, <2>2, <2>3
<1>7. x = T + at /\ same = T + q.end /\ next = T + Wanted + q.end
    BY <1>5, <1>6
<1>8. /\ Calendar!QuietEnd(q, c, t) = Calendar!ToUtc(c, end)
      /\ wraps \/ (start <= at /\ at < q.end)
      /\ wraps /\ ~(at >= start) => at < q.end
    <2> HIDE DEF x, day, at, start
    <2>1. Calendar!QuietEnd(q, c, t) =
             IF start < q.end
             THEN IF start <= at /\ at < q.end /\ ok(day) THEN Calendar!ToUtc(c, same) ELSE None
             ELSE IF at >= start
             THEN IF ok(day) THEN Calendar!ToUtc(c, next) ELSE None
             ELSE IF at < q.end /\ ok(day - 1) THEN Calendar!ToUtc(c, same) ELSE None
        BY DEF Calendar!QuietEnd, x, day, at, start
    <2> HIDE DEF ok, same, next
    <2>2. CASE start < q.end
        BY <2>1, <2>2
    <2>3. CASE ~(start < q.end) /\ at >= start
        BY <1>4, <1>5, <2>1, <2>3
    <2>4. CASE ~(start < q.end) /\ ~(at >= start)
        BY <2>1, <2>4
    <2> QED
        BY <2>2, <2>3, <2>4
<1>9. end \in Int /\ x < end /\ end <= x + Wanted
    <2> HIDE DEF x, day, at, start, T, same, next
    <2> QED
        BY <1>1, <1>2, <1>4, <1>5, <1>6, <1>7, <1>8
<1>10. ASSUME NEW o \in Calendar!Around(q, c, t), o.from <= x, x < o.to
       PROVE  o.to = end
    <2>1. PICK d \in (day - 1)..(day + 1) : o = hours(d)
        BY DEF Calendar!Around, Calendar!Occurrences
    <2>2. on(d) <= x /\ x < off(d) /\ o.to = off(d)
        <3>1. o.from = on(d) /\ o.to = off(d)
            BY <2>1
        <3> HIDE DEF on, off, x
        <3> QED
            BY <1>10, <3>1
    <2>3. d = day - 1 \/ d = day \/ d = day + 1
        <3> HIDE DEF day
        <3> QED
            BY <1>5
    <2>4. CASE d = day - 1
        <3>1. on(d) = T - Wanted + start
            BY <1>6, <2>4
        <3>2. off(d) = IF q.end > start THEN T - Wanted + q.end ELSE T + q.end
            BY <1>6, <2>4
        <3> HIDE DEF T, x, day, at, start, on, off, same, next
        <3> QED
            BY <1>1, <1>2, <1>4, <1>5, <1>6, <1>7, <2>2, <3>1, <3>2
    <2>5. CASE d = day
        <3>1. on(d) = T + start
            BY <2>5
        <3>2. off(d) = IF q.end > start THEN T + q.end ELSE T + Wanted + q.end
            BY <1>6, <2>5
        <3> HIDE DEF T, x, day, at, start, on, off, same, next
        <3> QED
            BY <1>1, <1>2, <1>4, <1>5, <1>6, <1>7, <2>2, <3>1, <3>2
    <2>6. CASE d = day + 1
        <3>1. on(d) = T + Wanted + start
            BY <1>6, <2>6
        <3> HIDE DEF T, x, day, at, start, on, off, same, next
        <3> QED
            BY <1>1, <1>2, <1>4, <1>5, <1>6, <1>7, <2>2, <3>1
    <2> QED
        BY <2>3, <2>4, <2>5, <2>6
<1> HIDE DEF x, end
<1>11. /\ end \in Int /\ x < end /\ end <= x + Wanted
       /\ Calendar!QuietEnd(q, c, t) = Calendar!ToUtc(c, end)
       /\ \A o \in Calendar!Around(q, c, t) : o.from <= x /\ x < o.to => o.to = end
    BY <1>8, <1>9, <1>10
<1> QED
    BY <1>11 DEF x

LEMMA ZoneTypes ==
    ASSUME NEW c \in Clients
    PROVE  /\ Zone[c].base \in Int /\ Zone[c].at \in Int /\ Zone[c].jump \in Int
           /\ -Wanted <= Zone[c].jump /\ Zone[c].jump <= Wanted /\ Wanted \in Nat \ {0}
           /\ Calendar!Slack(c) \in 0..Wanted
BY DataAssumption DEF DataAssumption, Calendar!CalendarAssumption, Calendar!Slack

\* Where the client's clock reaches a local time, and where ToUtc says it does:
\* the two differ by the daylight-saving change at most.
LEMMA ReachedInTime ==
    ASSUME NEW c \in Clients, NEW u \in Int, NEW end \in Int,
           Calendar!Local(c, u) < end, end <= Calendar!Local(c, u + 1)
    PROVE  /\ u + 1 - Calendar!Slack(c) <= Calendar!ToUtc(c, end)
           /\ Calendar!ToUtc(c, end) <= u + 1 + Calendar!Slack(c)
<1> DEFINE b == Zone[c].base
           a == Zone[c].at
           j == Zone[c].jump
<1>1. b \in Int /\ a \in Int /\ j \in Int
    BY ZoneTypes
<1>2. /\ u >= a => u + b + j < end
      /\ u < a => u + b < end
      /\ u + 1 >= a => end <= u + 1 + b + j
      /\ u + 1 < a => end <= u + 1 + b
    <2> HIDE DEF a, b, j
    <2>1. /\ Calendar!Local(c, u) = u + b + IF u >= a THEN j ELSE 0
          /\ Calendar!Local(c, u + 1) = u + 1 + b + IF u + 1 >= a THEN j ELSE 0
        BY DEF Calendar!Local, a, b, j
    <2> QED
        BY <1>1, <2>1
<1>3. Calendar!ToUtc(c, end) = IF end - b < a \/ end - b - j < a THEN end - b ELSE end - b - j
    BY DEF Calendar!ToUtc
<1>4. Calendar!Slack(c) = IF j < 0 THEN -j ELSE j
    BY DEF Calendar!Slack
<1> HIDE DEF a, b, j
<1> QED
    BY <1>1, <1>2, <1>3, <1>4

\* The last instant that the hours hold, and the end that they are given.
LEMMA QuietLastOpen ==
    ASSUME NEW rw, rw.quiet \in Calendar!Quiet, rw.range = None, NEW c \in Clients, NEW t \in Int,
           Calendar!QuietEnd(rw.quiet, c, t) # None
    PROVE  LET last == Calendar!LastOpen(rw, c, t)
           IN  /\ last \in t..t + 2 * Wanted
               /\ last + 1 - Calendar!Slack(c) <= Calendar!QuietEnd(rw.quiet, c, t)
               /\ Calendar!QuietEnd(rw.quiet, c, t) <= last + 1 + Calendar!Slack(c)
<1> DEFINE q == rw.quiet
<1>1. PICK end \in Int :
         /\ Calendar!Local(c, t) < end /\ end <= Calendar!Local(c, t) + Wanted
         /\ Calendar!QuietEnd(q, c, t) = Calendar!ToUtc(c, end)
         /\ \A o \in Calendar!Around(q, c, t) :
               o.from <= Calendar!Local(c, t) /\ Calendar!Local(c, t) < o.to => o.to = end
    BY HoursEnd
<1>2. Calendar!Inside(q, c, t)
    BY QuietEndInside
<1> DEFINE Reach(to) == {u \in t..(t + 2 * Wanted) : Calendar!Local(c, u) < to}
           over     == {o \in Calendar!Around(q, c, t) :
                          o.from <= Calendar!Local(c, t) /\ Calendar!Local(c, t) < o.to}
           S        == Reach(end)
           last     == Calendar!Max(S)
<1>3. Calendar!LastOpen(rw, c, t) = last
    <2>1. over # {} /\ \A o \in over : o.to = end
        BY <1>1, <1>2 DEF Calendar!Inside
    <2>2. Calendar!LastOpen(rw, c, t) = Calendar!Max(UNION {Reach(o.to) : o \in over})
        BY DEF Calendar!LastOpen
    <2> HIDE DEF over, Reach
    <2>3. UNION {Reach(o.to) : o \in over} = Reach(end)
        BY <2>1
    <2> QED
        BY <2>2, <2>3
<1>4. /\ Wanted \in Nat \ {0} /\ t + 2 * Wanted \in Int /\ t <= t + 2 * Wanted
      /\ 2 * Wanted = Wanted + Wanted
    BY ZoneTypes
<1>5. S \in SUBSET Int /\ t \in S /\ \A u \in S : t <= u /\ u <= t + 2 * Wanted
    BY <1>1, <1>4
<1>6. last \in S /\ \A u \in S : u <= last
    <2> HIDE DEF S
    <2> QED
        BY <1>4, <1>5, GreatestOf
<1> HIDE DEF last
<1>7. last \in Int /\ t <= last /\ last <= t + 2 * Wanted /\ Calendar!Local(c, last) < end
    BY <1>5, <1>6
<1>8. end <= Calendar!Local(c, t + 2 * Wanted)
    <2> DEFINE a == Zone[c].at
               b == Zone[c].base
               j == Zone[c].jump
               L == Calendar!Local(c, t)
               M == Calendar!Local(c, t + 2 * Wanted)
    <2>1. /\ L = t + b + IF t >= a THEN j ELSE 0
          /\ M = t + 2 * Wanted + b + IF t + 2 * Wanted >= a THEN j ELSE 0
        BY DEF Calendar!Local
    <2>2. a \in Int /\ b \in Int /\ j \in Int /\ -Wanted <= j /\ j <= Wanted
        BY ZoneTypes
    <2>3. end <= L + Wanted
        BY <1>1
    <2> HIDE DEF a, b, j, L, M
    <2>4. end <= M
        BY <1>4, <2>1, <2>2, <2>3
    <2> QED
        BY <2>4 DEF M
<1>9. last # t + 2 * Wanted
    <2>1. Calendar!Local(c, t + 2 * Wanted) \in Int
        BY <1>4, ClientClock
    <2> QED
        BY <1>7, <1>8, <2>1
<1>10. end <= Calendar!Local(c, last + 1)
    <2>1. last + 1 \in t..(t + 2 * Wanted) /\ ~(last + 1 <= last)
        BY <1>4, <1>7, <1>9
    <2>2. last + 1 \notin S
        <3> HIDE DEF S
        <3> QED
            BY <1>6, <2>1
    <2>3. Calendar!Local(c, last + 1) \in Int
        BY <1>7, ClientClock
    <2> QED
        BY <2>1, <2>2, <2>3
<1>11. /\ last + 1 - Calendar!Slack(c) <= Calendar!ToUtc(c, end)
       /\ Calendar!ToUtc(c, end) <= last + 1 + Calendar!Slack(c)
    BY <1>7, <1>10, ReachedInTime
<1> QED
    BY <1>1, <1>3, <1>4, <1>7, <1>11

\* The same for every row a window can have.
LEMMA LastOpenOfRow ==
    ASSUME NEW rw \in Calendar!Rows, NEW c \in Clients, NEW t \in Instants,
           Calendar!EndOf(rw, c, t) # None
    PROVE  LET last == Calendar!LastOpen(rw, c, t)
           IN  /\ last \in Int /\ t <= last
               /\ last + 1 - Calendar!Slack(c) <= Calendar!EndOf(rw, c, t)
               /\ Calendar!EndOf(rw, c, t) <= last + 1 + Calendar!Slack(c)
<1>1. /\ Instants \subseteq Int /\ None \notin Calendar!Quiet /\ None \notin Calendar!Span
      /\ t \in Int
    BY DataAssumption DEF DataAssumption, Calendar!CalendarAssumption
<1>2. Calendar!Slack(c) \in Nat
    BY ZoneTypes
<1>3. CASE rw.quiet # None
    <2>1. rw.quiet \in Calendar!Quiet /\ rw.range = None
        BY <1>3 DEF Calendar!Rows
    <2>2. Calendar!EndOf(rw, c, t) = Calendar!QuietEnd(rw.quiet, c, t)
        BY <1>3 DEF Calendar!EndOf
    <2>3. \A n \in t..t + 2 * Wanted : n \in Int /\ t <= n
        BY <1>1, ZoneTypes
    <2> QED
        BY <1>1, <2>1, <2>2, <2>3, QuietLastOpen
<1>4. CASE rw.quiet = None
    <2>1. rw.range \in Calendar!Span
        BY <1>1, <1>4 DEF Calendar!Rows
    <2>2. rw.range.from \in Int /\ rw.range.to \in Int /\ rw.range # None
        BY <1>1, <2>1 DEF Calendar!Span
    <2>3. /\ Calendar!LastOpen(rw, c, t) = rw.range.to - 1
          /\ Calendar!EndOf(rw, c, t) = Calendar!MaintenanceEnd(rw.range, t)
        BY <1>4, <2>2 DEF Calendar!LastOpen, Calendar!EndOf
    <2>4. t < rw.range.to /\ Calendar!MaintenanceEnd(rw.range, t) = rw.range.to
        BY <2>3 DEF Calendar!MaintenanceEnd
    <2> HIDE DEF Calendar!Slack
    <2> QED
        BY <1>1, <1>2, <2>2, <2>3, <2>4
<1> QED
    BY <1>3, <1>4

\* What HeldToTheEnd says of one notification.
HeldUntil(h, c) ==
    /\ h.since < h.until /\ h.until <= h.since + Calendar!Furthest(h)
    /\ h.until <= Calendar!LastHeld(h, c) + 1 + Calendar!Slack(c)
    /\ \/ Calendar!LastHeld(h, c) + 1 - Calendar!Slack(c) <= h.until
       \/ h.until >= h.since + QuietHorizon

\* A decision to hold is one to the end of the windows that are on.
LEMMA DecisionLasts ==
    ASSUME Calendar!TypeOK, NEW p \in Clients, NEW s, Calendar!Decide(p, s), held'[p] # None
    PROVE  HeldUntil(held'[p], [k \in Clients |-> k][p])
<1> DEFINE c       == [k \in Clients |-> k][p]
           on      == Calendar!OnBy(p, s)
           end(w)  == Calendar!EndOf(window[w], c, instant)
           lastOf(w) == Calendar!LastOpen(window[w], c, instant)
           far(w)  == Calendar!Horizon(window[w])
           until(w) == Calendar!Bounded(end(w), instant, far(w))
           says    == Calendar!Evaluate(p, s, instant)
           kept(d) == [severity |-> s, since |-> instant, until |-> d.until,
                       by |-> {window[w] : w \in Calendar!Candidates(p, s, instant)}]
           last    == {w \in on : \A v \in on : end(v) <= end(w)}
           slack   == Calendar!Slack(c)
<1>1. /\ c \in Clients /\ instant \in Instants /\ instant \in Int /\ None \notin Int
      /\ held \in [Clients -> Calendar!Holds \cup {None}]
    BY CalendarConstants DEF Calendar!TypeOK
<1>2. PICK d \in says : held' = [held EXCEPT ![p] = IF d.say = "defer" THEN kept(d) ELSE None]
    BY DEF Calendar!Decide
<1>3. d.say = "defer" /\ held'[p] = kept(d)
    BY <1>1, <1>2
<1>4. says = IF on = {} THEN {[say |-> "dispatch", until |-> None]}
             ELSE IF \E w \in on : window[w].rule.drop
             THEN {[say |-> "suppress", until |-> None]}
             ELSE {[say |-> "defer", until |-> until(w)] : w \in last}
    BY CandidatesAreOn DEF Calendar!Evaluate
<1>5. \E w \in last : d.until = until(w)
    <2> HIDE DEF on, last, until, says
    <2>1. on # {} /\ ~\E w \in on : window[w].rule.drop
        BY <1>3, <1>4
    <2>2. says = {[say |-> "defer", until |-> until(w)] : w \in last}
        BY <1>4, <2>1
    <2> QED
        BY <2>2
<1>6. PICK w \in on : /\ \A v \in on : end(v) <= end(w)
                      /\ d.until = until(w)
    BY <1>5
<1>7. \A v \in on : window[v] \in Calendar!Rows /\ end(v) \in Int
    BY CandidatesAreOn
<1>8. slack \in Nat
    BY <1>1, ZoneTypes
<1> HIDE DEF c, on, slack
<1>9. \A v \in on : /\ lastOf(v) \in Int /\ instant <= lastOf(v)
                    /\ lastOf(v) + 1 - slack <= end(v) /\ end(v) <= lastOf(v) + 1 + slack
    <2> SUFFICES ASSUME NEW v \in on
                 PROVE  /\ lastOf(v) \in Int /\ instant <= lastOf(v)
                        /\ lastOf(v) + 1 - slack <= end(v) /\ end(v) <= lastOf(v) + 1 + slack
        OBVIOUS
    <2>1. window[v] \in Calendar!Rows /\ end(v) # None
        BY <1>1, <1>7
    <2> QED
        BY <1>1, <2>1, LastOpenOfRow DEF slack
<1> DEFINE h == kept(d)
<1>10. h.since = instant /\ h.until = until(w) /\ h.by = {window[v] : v \in on}
    BY <1>6, CandidatesAreOn DEF on
<1> DEFINE F == {far(v) : v \in on}
           G == {lastOf(v) : v \in on}
<1>11. Calendar!Furthest(h) = Calendar!Max(F) /\ Calendar!LastHeld(h, c) = Calendar!Max(G)
    <2>1. {Calendar!Horizon(rw) : rw \in {window[v] : v \in on}} = F
        OBVIOUS
    <2>2. {Calendar!LastOpen(rw, c, instant) : rw \in {window[v] : v \in on}} = G
        OBVIOUS
    <2> HIDE DEF h, F, G
    <2> QED
        BY <1>10, <2>1, <2>2 DEF Calendar!Furthest, Calendar!LastHeld
<1> HIDE DEF far, lastOf, end, h
<1>12. Calendar!Max(F) \in Int /\ far(w) <= Calendar!Max(F)
    <2>1. F \in SUBSET Int /\ far(w) \in F /\ \A y \in F : QuietHorizon <= y /\ y <= MaintenanceHorizon
        BY HorizonsOf DEF far
    <2> HIDE DEF F
    <2>2. QuietHorizon \in Int /\ MaintenanceHorizon \in Int /\ F # {}
        BY <2>1, HorizonsOf
    <2>3. Calendar!Max(F) \in F /\ \A y \in F : y <= Calendar!Max(F)
        BY <2>1, <2>2, GreatestOf
    <2> QED
        BY <2>1, <2>3
<1>13. Calendar!Max(G) \in G /\ \A v \in on : lastOf(v) <= Calendar!Max(G)
    <2>1. G \in SUBSET Int /\ lastOf(w) \in G
        BY <1>9
    <2>2. end(w) - 1 + slack \in Int
        BY <1>7, <1>8
    <2>3. \A v \in on : instant <= lastOf(v) /\ lastOf(v) <= end(w) - 1 + slack
        <3> SUFFICES ASSUME NEW v \in on
                     PROVE  instant <= lastOf(v) /\ lastOf(v) <= end(w) - 1 + slack
            OBVIOUS
        <3> QED
            BY <1>1, <1>6, <1>7, <1>8, <1>9
    <2>4. \A y \in G : instant <= y /\ y <= end(w) - 1 + slack
        BY <2>3
    <2>5. Calendar!Max(G) \in G /\ \A y \in G : y <= Calendar!Max(G)
        <3> HIDE DEF G
        <3> QED
            BY <1>1, <2>1, <2>2, <2>4, GreatestOf
    <2> QED
        BY <2>5
<1>14. PICK v \in on : Calendar!Max(G) = lastOf(v)
    BY <1>13
<1> HIDE DEF F, G
<1>15. until(w) = IF end(w) <= instant THEN instant + 1
                  ELSE IF end(w) > instant + far(w) THEN instant + far(w) ELSE end(w)
    BY DEF Calendar!Bounded
<1>16. far(w) \in Nat \ {0} /\ QuietHorizon <= far(w) /\ QuietHorizon \in Nat
    BY HorizonsOf DEF far
<1> HIDE DEF until
<1>17. /\ instant < until(w) /\ until(w) <= instant + Calendar!Max(F)
       /\ until(w) <= lastOf(v) + 1 + slack
       /\ lastOf(v) + 1 - slack <= until(w) \/ until(w) >= instant + QuietHorizon
    <2>1. end(w) \in Int /\ end(v) \in Int /\ end(v) <= end(w)
        BY <1>6, <1>7
    <2>2. lastOf(w) <= lastOf(v) /\ lastOf(w) \in Int /\ lastOf(v) \in Int
        BY <1>9, <1>13, <1>14
    <2>3. /\ end(w) <= lastOf(w) + 1 + slack /\ lastOf(v) + 1 - slack <= end(v)
          /\ instant <= lastOf(v)
        BY <1>9
    <2> QED
        BY <1>1, <1>8, <1>12, <1>15, <1>16, <2>1, <2>2, <2>3
<1>18. HeldUntil(h, c)
    BY <1>10, <1>11, <1>14, <1>17 DEF HeldUntil, slack
<1> QED
    BY <1>3, <1>18 DEF h, c

\* For any zones, hours, ranges and severities: what is held is held to the end of
\* the windows that held it, the daylight-saving change apart, and no longer.
THEOREM HeldUntilEnd == Calendar!Spec => []Calendar!HeldToTheEnd
<1> DEFINE Inv == \A p \in Clients : held[p] # None => HeldUntil(held[p], [k \in Clients |-> k][p])
<1>1. Inv <=> Calendar!HeldToTheEnd
    BY DEF HeldUntil, Calendar!HeldToTheEnd
<1>2. Calendar!Init => Inv
    BY DEF Calendar!Init
<1>3. ASSUME Calendar!TypeOK, Inv, [Calendar!Next]_(Calendar!vars)
      PROVE  Inv'
    <2>1. CASE UNCHANGED held
        BY <1>3, <2>1
    <2>2. ASSUME NEW p \in Clients, NEW s \in Severities, Calendar!Decide(p, s)
          PROVE  Inv'
        <3> SUFFICES ASSUME NEW r \in Clients, held'[r] # None
                     PROVE  HeldUntil(held'[r], [k \in Clients |-> k][r])
            OBVIOUS
        <3>1. CASE r = p
            BY <1>3, <2>2, <3>1, DecisionLasts
        <3>2. CASE r # p
            <4>1. held \in [Clients -> Calendar!Holds \cup {None}]
                BY <1>3 DEF Calendar!TypeOK
            <4>2. held'[r] = held[r]
                BY <2>2, <3>2, <4>1 DEF Calendar!Decide
            <4> QED
                BY <1>3, <4>2
        <3> QED
            BY <3>1, <3>2
    <2> HIDE DEF Inv
    <2>3. CASE Calendar!Tick \/ UNCHANGED Calendar!vars
        BY <2>1, <2>3 DEF Calendar!Tick, Calendar!vars
    <2>4. ASSUME NEW w \in Windows, Calendar!Toggle(w) \/ Calendar!Delete(w)
          PROVE  Inv'
        BY <2>1, <2>4 DEF Calendar!Toggle, Calendar!Delete
    <2>5. ASSUME NEW w \in Windows, NEW r \in Calendar!Rows, Calendar!Create(w, r)
          PROVE  Inv'
        BY <2>1, <2>5 DEF Calendar!Create
    <2> QED
        BY <1>3, <2>2, <2>3, <2>4, <2>5 DEF Calendar!Next
<1> HIDE DEF Inv
<1>4. Calendar!Spec => []Inv
    BY <1>2, <1>3, CalendarInvariant, PTL DEF Calendar!Spec
<1> QED
    BY <1>1, <1>4, PTL

-----------------------------------------------------------------------------
(* What the cycles of a model say about a printer.                         *)

LEMMA YieldCounts == \A S : Yield!Cardinality(S) = Cardinality(S)
BY DEF Yield!Cardinality, Cardinality

\* A finite set of numbers has a greatest one.
LEMMA GreatestOfFinite ==
    ASSUME NEW S \in SUBSET Nat, S # {}, IsFiniteSet(S)
    PROVE  \E m \in S : \A y \in S : y <= m
<1> DEFINE NoTop(T) == \A m \in T : \E y \in T : ~(y <= m)
           bad  == {T \in SUBSET S : T # {} /\ NoTop(T)}
           size == {Cardinality(T) : T \in bad}
<1> SUFFICES ASSUME NoTop(S) PROVE FALSE
    OBVIOUS
<1>1. \A T \in SUBSET S : IsFiniteSet(T) /\ Cardinality(T) \in Nat
    BY FS_Subset, FS_CardinalityType
<1>2. size \in SUBSET Nat /\ size # {}
    BY <1>1
<1>3. PICK n \in size : \A m \in size : n <= m
    <2> HIDE DEF size
    <2> QED
        BY <1>2, LeastNatural
<1>4. PICK T \in bad : n = Cardinality(T)
    OBVIOUS
<1>5. PICK x \in T : TRUE
    OBVIOUS
<1> DEFINE R == T \ {x}
<1>6. R \in SUBSET S /\ Cardinality(R) = Cardinality(T) - 1 /\ Cardinality(T) \in Nat
    BY <1>1, <1>4, <1>5, FS_RemoveElement
<1>7. R # {}
    <2> SUFFICES ASSUME R = {} PROVE FALSE
        OBVIOUS
    <2>1. T = {x} /\ x \in Nat
        BY <1>4, <1>5
    <2> QED
        BY <1>4, <2>1
<1>8. R \notin bad
    <2> SUFFICES ASSUME R \in bad PROVE FALSE
        OBVIOUS
    <2>1. Cardinality(R) \in size
        OBVIOUS
    <2>2. n <= Cardinality(R)
        BY <1>3, <2>1
    <2> HIDE DEF bad, size, R
    <2> QED
        BY <1>4, <1>6, <2>2
<1>9. PICK m \in R : \A y \in R : y <= m
    BY <1>6, <1>7, <1>8
<1>10. m \in T /\ x \in T /\ m \in Nat /\ x \in Nat /\ T \subseteq Nat
    BY <1>4, <1>5, <1>9
<1>11. \A y \in T : y = x \/ y <= m
    BY <1>9
<1>12. NoTop(T)
    BY <1>4
<1>13. CASE x <= m
    BY <1>10, <1>11, <1>12, <1>13
<1>14. CASE ~(x <= m)
    <2>1. \A y \in T : y <= x
        BY <1>10, <1>11, <1>14
    <2> QED
        BY <1>10, <1>12, <2>1
<1> QED
    BY <1>13, <1>14

\* The k-th smallest value is the least one that k values reach up to.
LEMMA KthIsLeast ==
    ASSUME NEW S, IsFiniteSet(S), NEW f \in [S -> Nat], NEW k \in 1..Cardinality(S)
    PROVE  /\ Yield!Kth(f, k) \in Nat
           /\ k <= Yield!UpTo(f, Yield!Kth(f, k))
           /\ \A y \in Nat : k <= Yield!UpTo(f, y) => Yield!Kth(f, k) <= y
<1> DEFINE lower(y) == {e \in S : f[e] <= y}
           under(y) == {e \in S : f[e] < y}
           V == {f[e] : e \in S}
           T == {y \in Nat : k <= Cardinality(lower(y))}
<1>0. DOMAIN f = S /\ Cardinality(S) \in Nat
    BY FS_CardinalityType
<1>1. \A y : Yield!UpTo(f, y) = Cardinality(lower(y)) /\ Yield!Below(f, y) = Cardinality(under(y))
    BY <1>0, YieldCounts DEF Yield!UpTo, Yield!Below
<1>2. \A Z \in SUBSET S : IsFiniteSet(Z) /\ Cardinality(Z) \in Nat /\ Cardinality(Z) <= Cardinality(S)
    BY FS_Subset, FS_CardinalityType
<1>3. S # {} /\ V # {} /\ V \in SUBSET Nat
    <2>1. S # {}
        BY <1>0, FS_EmptySet
    <2> QED
        BY <2>1
<1>4. IsFiniteSet(V)
    <2>1. f \in Surjection(S, V)
        BY DEF Surjection
    <2> HIDE DEF V
    <2> QED
        BY <2>1, FS_Surjection
<1>5. PICK top \in V : \A y \in V : y <= top
    <2> HIDE DEF V
    <2> QED
        BY <1>3, <1>4, GreatestOfFinite
<1>6. lower(top) = S /\ top \in Nat
    BY <1>3, <1>5
<1>7. top \in T
    BY <1>0, <1>6
<1>8. PICK n \in T : \A m \in T : n <= m
    <2>1. T \in SUBSET Nat /\ T # {}
        BY <1>7
    <2> HIDE DEF T
    <2> QED
        BY <2>1, LeastNatural
<1>9. n \in Nat /\ k <= Cardinality(lower(n)) /\ \A m \in Nat : k <= Cardinality(lower(m)) => n <= m
    <2>1. n \in Nat /\ k <= Cardinality(lower(n))
        OBVIOUS
    <2>2. ASSUME NEW m \in Nat, k <= Cardinality(lower(m))
          PROVE  n <= m
        <3>1. m \in T
            BY <2>2
        <3> HIDE DEF T
        <3> QED
            BY <1>8, <3>1
    <2> QED
        BY <2>1, <2>2
<1>10. Cardinality({}) = 0
    BY FS_EmptySet
<1>11. \A y \in Nat : y = 0 => under(y) = {}
    OBVIOUS
<1>12. \A y \in Nat \ {0} : y - 1 \in Nat /\ under(y) = lower(y - 1)
    OBVIOUS
<1> HIDE DEF T
<1>13. Cardinality(under(n)) < k
    <2>1. CASE n = 0
        BY <1>9, <1>10, <1>11, <2>1
    <2>2. CASE n # 0
        <3>1. n - 1 \in Nat /\ under(n) = lower(n - 1) /\ ~(n <= n - 1)
            BY <1>9, <1>12, <2>2
        <3> HIDE DEF lower, under
        <3>2. ~(k <= Cardinality(lower(n - 1)))
            BY <1>9, <3>1
        <3>3. Cardinality(lower(n - 1)) \in Nat
            BY <1>2 DEF lower
        <3> QED
            BY <1>0, <3>1, <3>2, <3>3
    <2> QED
        BY <2>1, <2>2
<1>14. n \in V
    <2> SUFFICES ASSUME n \notin V PROVE FALSE
        OBVIOUS
    <2>1. lower(n) = under(n)
        BY <1>9
    <2>2. Cardinality(under(n)) \in Nat
        BY <1>2
    <2> HIDE DEF lower, under
    <2> QED
        BY <1>0, <1>9, <1>13, <2>1, <2>2
<1> DEFINE Fits(y) == Cardinality(under(y)) < k /\ k <= Cardinality(lower(y))
           kth == CHOOSE y \in V : Fits(y)
<1>15. Yield!Kth(f, k) = kth
    <2> HIDE DEF lower, under
    <2> QED
        BY <1>0, <1>1 DEF Yield!Kth
<1>16. kth \in V /\ Fits(kth)
    <2>1. Fits(n)
        BY <1>9, <1>13
    <2> HIDE DEF Fits, V
    <2> QED
        BY <1>14, <2>1
<1>17. kth \in Nat
    BY <1>3, <1>16
<1>18. ASSUME NEW y \in Nat, k <= Cardinality(lower(y))
       PROVE  kth <= y
    <2> SUFFICES ASSUME ~(kth <= y) PROVE FALSE
        OBVIOUS
    <2> HIDE DEF kth
    <2>1. lower(y) \subseteq under(kth) /\ under(kth) \subseteq S
        BY <1>17
    <2>2. IsFiniteSet(under(kth))
        BY <1>2
    <2>3. Cardinality(lower(y)) <= Cardinality(under(kth))
        BY <2>1, <2>2, FS_Subset
    <2>4. Cardinality(lower(y)) \in Nat /\ Cardinality(under(kth)) \in Nat
        BY <1>2
    <2>5. Cardinality(under(kth)) < k
        BY <1>16 DEF kth
    <2> HIDE DEF lower, under
    <2> QED
        BY <1>0, <1>18, <2>3, <2>4, <2>5
<1> HIDE DEF kth
<1>19. k <= Cardinality(lower(kth))
    BY <1>16
<1> QED
    BY <1>1, <1>15, <1>17, <1>18, <1>19

LEMMA YieldConstants ==
    /\ Yields \subseteq Nat \ {0} /\ MinCycles \in Nat \ {0, 1} /\ ShortfallPct \in 5..90
    /\ IsFiniteSet(Printers) /\ MaxCycles \in Nat /\ None \notin Nat
    /\ ModelTags \subseteq [text : STRING, length : Nat]
BY DataAssumption DEF DataAssumption, Yield!YieldAssumption, Yield!IsFiniteSet, IsFiniteSet

\* Evidence is of cycles there are, it is finite, and each yielded some pages.
LEMMA EvidenceTyped ==
    ASSUME Yield!TypeOK, NEW P \in SUBSET Printers
    PROVE  /\ IsFiniteSet(Yield!Evidence(P)) /\ Cardinality(Yield!Evidence(P)) \in Nat
           /\ Yield!Counted(P) \in [Yield!Evidence(P) -> Nat]
<1>1. IsFiniteSet(P) /\ IsFiniteSet(1..MaxCycles)
    <2>1. IsFiniteSet(P)
        BY YieldConstants, FS_Subset
    <2>2. MaxCycles \in Int /\ 1 \in Int
        BY YieldConstants
    <2> QED
        BY <2>1, <2>2, FS_Interval
<1>2. IsFiniteSet(P \X (1..MaxCycles))
    BY <1>1, FS_Product
<1>3. Yield!Evidence(P) \subseteq P \X (1..MaxCycles)
    BY DEF Yield!Evidence
<1>4. ASSUME NEW e \in Yield!Evidence(P)
      PROVE  completed[e[1]][e[2]] \in Nat
    <2>1. /\ e[1] \in Printers /\ e[2] \in 1..MaxCycles /\ e[2] <= Len(completed[e[1]])
          /\ completed[e[1]][e[2]] # None
        BY <1>3 DEF Yield!Evidence
    <2> DEFINE S == Yields \cup {None}
               c == completed[e[1]]
    <2>2. c \in Seq(S)
        BY <2>1 DEF Yield!TypeOK
    <2>3. e[2] \in 1..Len(c)
        BY <2>1, <2>2, YieldConstants
    <2>4. c[e[2]] \in S
        <3> HIDE DEF c, S
        <3> QED
            BY <2>2, <2>3
    <2> QED
        BY <2>1, <2>4, YieldConstants
<1> QED
    BY <1>2, <1>3, <1>4, FS_Subset, FS_CardinalityType DEF Yield!Counted

EvidenceOK ==
    \A P \in SUBSET Printers :
       /\ IsFiniteSet(Yield!Evidence(P)) /\ Cardinality(Yield!Evidence(P)) \in Nat
       /\ Yield!Counted(P) \in [Yield!Evidence(P) -> Nat]

LEMMA EvidenceAlways == Yield!TypeOK => EvidenceOK
BY EvidenceTyped DEF EvidenceOK

LEMMA MedianTyped ==
    ASSUME NEW S, IsFiniteSet(S), Cardinality(S) \in Nat \ {0}, NEW f \in [S -> Nat]
    PROVE  Yield!Median2(f) \in Nat
<1> DEFINE n  == Cardinality(S)
           lo == (n + 1) \div 2
           hi == (n \div 2) + 1
<1>1. lo \in 1..n /\ hi \in 1..n
    <2> HIDE DEF n
    <2> QED
        BY DEF n
<1>2. Yield!Median2(f) = Yield!Kth(f, lo) + Yield!Kth(f, hi)
    BY YieldCounts DEF Yield!Median2
<1> HIDE DEF lo, hi
<1>3. Yield!Kth(f, lo) \in Nat /\ Yield!Kth(f, hi) \in Nat
    BY <1>1, KthIsLeast
<1> QED
    BY <1>2, <1>3

\* Twice the median of a printer's evidence is not raised by a yield that is no
\* more than the median.
LEMMA MedianNotRaised ==
    ASSUME NEW S, IsFiniteSet(S), Cardinality(S) \in Nat \ {0}, NEW f \in [S -> Nat],
           NEW x, x \notin S, NEW g \in [S \cup {x} -> Nat], \A e \in S : g[e] = f[e],
           2 * g[x] <= Yield!Median2(f)
    PROVE  Yield!Median2(g) <= Yield!Median2(f) /\ Yield!Median2(g) \in Nat
<1> DEFINE n == Cardinality(S)
           lo == (n + 1) \div 2
           hi == (n \div 2) + 1
           lo2 == (n + 2) \div 2
           hi2 == ((n + 1) \div 2) + 1
           S2 == S \cup {x}
           a  == Yield!Kth(f, lo)
           b  == Yield!Kth(f, hi)
           a2 == Yield!Kth(g, lo2)
           b2 == Yield!Kth(g, hi2)
           y  == g[x]
<1>1. IsFiniteSet(S2) /\ Cardinality(S2) = n + 1 /\ n \in Nat \ {0}
    BY FS_AddElement
<1>2. DOMAIN f = S /\ DOMAIN g = S2
    OBVIOUS
<1>3. Yield!Median2(f) = a + b
    BY <1>2, YieldCounts DEF Yield!Median2
<1>4. Yield!Median2(g) = a2 + b2
    <2>1. (n + 1) + 1 = n + 2
        BY <1>1
    <2> QED
        BY <1>1, <1>2, <2>1, YieldCounts DEF Yield!Median2
<1>5. /\ lo \in 1..n /\ hi \in 1..n /\ lo <= hi
      /\ lo2 \in 1..n + 1 /\ hi2 \in 1..n + 1
      /\ \/ lo2 = lo + 1 /\ hi2 = lo + 1 /\ hi = lo + 1
         \/ lo2 = lo /\ hi2 = lo + 1 /\ hi = lo
    <2> HIDE DEF n
    <2> QED
        BY <1>1
<1> HIDE DEF n, lo, hi, lo2, hi2
<1>6. /\ a \in Nat /\ lo <= Yield!UpTo(f, a)
      /\ \A z \in Nat : lo <= Yield!UpTo(f, z) => a <= z
    BY <1>5, KthIsLeast DEF n
<1>7. b \in Nat /\ hi <= Yield!UpTo(f, b)
    BY <1>5, KthIsLeast DEF n
<1>8. /\ a2 \in Nat /\ b2 \in Nat
      /\ \A z \in Nat : lo2 <= Yield!UpTo(g, z) => a2 <= z
      /\ \A z \in Nat : hi2 <= Yield!UpTo(g, z) => b2 <= z
    <2>1. lo2 \in 1..Cardinality(S2) /\ hi2 \in 1..Cardinality(S2) /\ g \in [S2 -> Nat]
        BY <1>1, <1>5
    <2> HIDE DEF S2
    <2> QED
        BY <1>1, <2>1, KthIsLeast
<1>9. \A z \in Nat : /\ Yield!UpTo(f, z) \in Nat /\ Yield!UpTo(g, z) \in Nat
                     /\ Yield!UpTo(g, z) >= Yield!UpTo(f, z)
                     /\ y <= z => Yield!UpTo(g, z) = Yield!UpTo(f, z) + 1
    <2> SUFFICES ASSUME NEW z \in Nat
                 PROVE  /\ Yield!UpTo(f, z) \in Nat /\ Yield!UpTo(g, z) \in Nat
                        /\ Yield!UpTo(g, z) >= Yield!UpTo(f, z)
                        /\ y <= z => Yield!UpTo(g, z) = Yield!UpTo(f, z) + 1
        OBVIOUS
    <2> DEFINE F == {e \in S : f[e] <= z}
               G == {e \in S2 : g[e] <= z}
    <2>1. Yield!UpTo(f, z) = Cardinality(F) /\ Yield!UpTo(g, z) = Cardinality(G)
        BY <1>2, YieldCounts DEF Yield!UpTo
    <2>2. IsFiniteSet(F) /\ IsFiniteSet(G) /\ x \notin F
        BY <1>1, FS_Subset
    <2>3. IF y <= z THEN G = F \cup {x} ELSE G = F
        OBVIOUS
    <2> HIDE DEF F, G, y
    <2>4. Cardinality(F) \in Nat /\ Cardinality(F \cup {x}) = Cardinality(F) + 1
        BY <2>2, FS_AddElement, FS_CardinalityType
    <2>5. CASE y <= z
        BY <2>1, <2>3, <2>4, <2>5
    <2>6. CASE ~(y <= z)
        BY <2>1, <2>3, <2>4, <2>6
    <2> QED
        BY <2>5, <2>6
<1>10. y \in Nat /\ 2 * y <= a + b
    BY <1>3
<1>11. a <= b
    <2>1. Yield!UpTo(f, b) \in Nat
        BY <1>7, <1>9
    <2>2. lo <= Yield!UpTo(f, b)
        BY <1>5, <1>7, <2>1
    <2> QED
        BY <1>6, <1>7, <2>2
<1> HIDE DEF a, b, a2, b2, y
<1>12. CASE lo2 = lo + 1 /\ hi2 = lo + 1 /\ hi = lo + 1
    <2> DEFINE w == IF a < y THEN y ELSE a
    <2>1. w \in Nat /\ a <= w /\ y <= w /\ 2 * w <= a + b
        BY <1>6, <1>7, <1>10, <1>11
    <2>2. {e \in S : f[e] <= a} \subseteq {e \in S : f[e] <= w}
        BY <1>6, <2>1
    <2>3. Yield!UpTo(f, a) <= Yield!UpTo(f, w)
        <3>1. /\ Yield!UpTo(f, a) = Cardinality({e \in S : f[e] <= a})
              /\ Yield!UpTo(f, w) = Cardinality({e \in S : f[e] <= w})
            BY <1>2, YieldCounts DEF Yield!UpTo
        <3>2. IsFiniteSet({e \in S : f[e] <= w})
            BY FS_Subset
        <3> QED
            BY <2>2, <3>1, <3>2, FS_Subset
    <2> HIDE DEF w
    <2>4. Yield!UpTo(g, w) = Yield!UpTo(f, w) + 1 /\ Yield!UpTo(f, w) \in Nat
          /\ Yield!UpTo(f, a) \in Nat
        BY <1>6, <1>9, <2>1
    <2>5. lo + 1 <= Yield!UpTo(g, w)
        BY <1>5, <1>6, <2>3, <2>4
    <2>6. a2 <= w /\ b2 <= w
        BY <1>8, <1>12, <2>1, <2>5
    <2> QED
        BY <1>3, <1>4, <1>6, <1>7, <1>8, <2>1, <2>6
<1>13. CASE lo2 = lo /\ hi2 = lo + 1 /\ hi = lo
    <2>1. a = b
        BY <1>13 DEF a, b
    <2>2. y <= a
        BY <1>6, <1>10, <2>1
    <2>3. Yield!UpTo(g, a) = Yield!UpTo(f, a) + 1 /\ Yield!UpTo(f, a) \in Nat
        BY <1>6, <1>9, <2>2
    <2>4. lo + 1 <= Yield!UpTo(g, a) /\ lo <= Yield!UpTo(g, a)
        BY <1>5, <1>6, <2>3
    <2>5. a2 <= a /\ b2 <= a
        BY <1>6, <1>8, <1>13, <2>4
    <2> QED
        BY <1>3, <1>4, <1>6, <1>7, <1>8, <2>1, <2>5
<1> QED
    BY <1>5, <1>12, <1>13

\* A cycle is recorded for one printer; the evidence of the others stays.
LEMMA CycleRecorded ==
    ASSUME Yield!TypeOK, NEW p \in Printers, NEW y \in Yields \cup {None}, Yield!RecordCycle(p, y)
    PROVE  /\ Yield!TypeOK' /\ UNCHANGED expectations
           /\ \A q \in Printers \ {p} : completed'[q] = completed[q]
           /\ completed'[p] = Append(completed[p], y)
           /\ Len(completed[p]) \in 0..MaxCycles - 1
<1> DEFINE S == Yields \cup {None}
           c == completed[p]
           d == Append(c, y)
<1>1. c \in Seq(S) /\ Len(c) \in Nat /\ Len(c) < MaxCycles /\ MaxCycles \in Nat
    BY YieldConstants DEF Yield!TypeOK, Yield!RecordCycle
<1>2. d \in Seq(S) /\ Len(d) = Len(c) + 1
    <2> HIDE DEF c, S
    <2> QED
        BY <1>1 DEF S
<1>3. completed' = [completed EXCEPT ![p] = d] /\ UNCHANGED expectations
    BY DEF Yield!RecordCycle
<1>4. completed \in [Printers -> Seq(S)] /\ \A q \in Printers : Len(completed[q]) <= MaxCycles
    BY DEF Yield!TypeOK
<1>5. Len(d) <= MaxCycles
    <2> HIDE DEF c, d
    <2> QED
        BY <1>1, <1>2
<1> HIDE DEF d
<1>6. completed' \in [Printers -> Seq(S)] /\ completed'[p] = d
      /\ \A q \in Printers \ {p} : completed'[q] = completed[q]
    <2> HIDE DEF S
    <2> QED
        BY <1>2, <1>3, <1>4 DEF S
<1>7. \A q \in Printers : Len(completed'[q]) <= MaxCycles
    BY <1>4, <1>5, <1>6
<1>8. Yield!TypeOK'
    BY <1>3, <1>6, <1>7 DEF Yield!TypeOK
<1> HIDE DEF c
<1> QED
    BY <1>1, <1>3, <1>6, <1>8 DEF d, c

\* The peers' evidence, and with it what a printer is measured against, is the
\* printer's own cycles' business in no way.
LEMMA YardstickStays ==
    ASSUME NEW p \in Printers, UNCHANGED expectations,
           \A q \in Printers \ {p} : completed'[q] = completed[q]
    PROVE  Yield!Expected2(p)' = Yield!Expected2(p)
<1> DEFINE P == Yield!Peers(p)
<1>1. \A e \in P \X (1..MaxCycles) : completed'[e[1]] = completed[e[1]]
    BY DEF Yield!Peers
<1>2. Yield!Evidence(P)' = Yield!Evidence(P)
    <2> HIDE DEF P
    <2> QED
        BY <1>1 DEF Yield!Evidence
<1>3. Yield!Counted(P)' = Yield!Counted(P)
    <2>1. \A e \in Yield!Evidence(P) : completed'[e[1]] = completed[e[1]]
        BY <1>1 DEF Yield!Evidence
    <2>2. \A e \in Yield!Evidence(P) : completed'[e[1]][e[2]] = completed[e[1]][e[2]]
        BY <2>1
    <2> HIDE DEF P
    <2> QED
        BY <1>2, <2>2 DEF Yield!Counted
<1>4. Yield!Baseline(p)' = Yield!Baseline(p)
    BY <1>2, <1>3 DEF Yield!Baseline
<1>5. Yield!Best' = Yield!Best
    BY DEF Yield!Best
<1> QED
    BY <1>4, <1>5 DEF Yield!Expected2

\* Twice the median of what a printer has shown is not raised by one more
\* cartridge that yields no more than it, or that is no evidence.
LEMMA OwnMedianNotRaised ==
    ASSUME Yield!TypeOK, NEW p \in Printers, NEW y \in Yields \cup {None}, Yield!RecordCycle(p, y),
           Cardinality(Yield!Evidence({p})) \in Nat \ {0},
           y = None \/ 2 * y <= Yield!Median2(Yield!Counted({p}))
    PROVE  /\ Cardinality(Yield!Evidence({p}))' >= Cardinality(Yield!Evidence({p}))
           /\ Cardinality(Yield!Evidence({p}))' \in Nat
           /\ \/ Yield!Median2(Yield!Counted({p}))' = Yield!Median2(Yield!Counted({p}))
              \/ /\ Yield!Median2(Yield!Counted({p}))' <= Yield!Median2(Yield!Counted({p}))
                 /\ Yield!Median2(Yield!Counted({p}))' \in Nat
<1> DEFINE P  == {p}
           n  == Len(completed[p])
           x  == <<p, n + 1>>
           S  == Yield!Evidence(P)
           S2 == Yield!Evidence(P)'
           f  == Yield!Counted(P)
           g  == Yield!Counted(P)'
<1>1. /\ Yield!TypeOK' /\ n \in 0..MaxCycles - 1 /\ MaxCycles \in Nat
      /\ completed'[p] = Append(completed[p], y)
    BY CycleRecorded, YieldConstants
<1>2. completed[p] \in Seq(Yields \cup {None})
    BY DEF Yield!TypeOK
<1>3. /\ Len(completed'[p]) = n + 1
      /\ \A i \in 1..n : completed'[p][i] = completed[p][i]
      /\ completed'[p][n + 1] = y
    <2> DEFINE T == Yields \cup {None}
               c == completed[p]
    <2> HIDE DEF T, c
    <2>1. c \in Seq(T) /\ y \in T
        BY <1>2 DEF T, c
    <2>2. /\ Len(Append(c, y)) = Len(c) + 1 /\ Append(c, y)[Len(c) + 1] = y
          /\ \A i \in 1..Len(c) : Append(c, y)[i] = c[i]
        BY <2>1
    <2> QED
        BY <1>1, <2>2 DEF c
<1>4. P \in SUBSET Printers
    OBVIOUS
<1>5. /\ IsFiniteSet(S) /\ f \in [S -> Nat]
      /\ IsFiniteSet(S2) /\ g \in [S2 -> Nat] /\ Cardinality(S2) \in Nat
    <2>1. IsFiniteSet(S) /\ f \in [S -> Nat]
        BY <1>4, EvidenceTyped
    <2>2. IsFiniteSet(S2) /\ g \in [S2 -> Nat] /\ Cardinality(S2) \in Nat
        <3>1. EvidenceOK'
            BY <1>1, EvidenceAlways, PTL
        <3> QED
            BY <1>4, <3>1 DEF EvidenceOK
    <2> QED
        BY <2>1, <2>2
<1>6. \A e : /\ e \in S <=> e \in P \X (1..MaxCycles) /\ e[2] <= n /\ completed[p][e[2]] # None
             /\ e \in S2 <=> e \in P \X (1..MaxCycles) /\ e[2] <= n + 1 /\ completed'[p][e[2]] # None
    BY <1>3 DEF Yield!Evidence
<1>7. \A e \in S : f[e] = completed[p][e[2]]
    <2>1. \A e \in S : f[e] = completed[e[1]][e[2]]
        BY DEF Yield!Counted
    <2>2. \A e \in S : e[1] = p
        <3>1. \A e \in P \X (1..MaxCycles) : e[1] = p
            OBVIOUS
        <3> HIDE DEF S, P
        <3> QED
            BY <1>6, <3>1, Zenon
    <2> HIDE DEF f, S
    <2> QED
        BY <2>1, <2>2
<1>8. \A e \in S2 : g[e] = completed'[p][e[2]]
    <2>1. g = [e \in S2 |-> completed'[e[1]][e[2]]]
        BY DEF Yield!Counted
    <2>2. \A e \in S2 : e[1] = p
        <3>1. \A e \in P \X (1..MaxCycles) : e[1] = p
            OBVIOUS
        <3> HIDE DEF S2, P
        <3> QED
            BY <1>6, <3>1, Zenon
    <2> HIDE DEF g, S2
    <2> QED
        BY <2>1, <2>2
<1>9. x \in P \X (1..MaxCycles) /\ x[2] = n + 1 /\ x \notin S
    <2>1. n + 1 \in 1..MaxCycles /\ ~(n + 1 <= n) /\ x[2] = n + 1
        BY <1>1
    <2> HIDE DEF n, S
    <2> QED
        BY <1>6, <2>1
<1>10. \A e \in P \X (1..MaxCycles) : /\ e[2] \in Nat /\ e[2] >= 1
                                      /\ e[2] <= n + 1 <=> e[2] <= n \/ e = x
    BY <1>1
<1>11. \A e \in P \X (1..MaxCycles) : e[2] <= n => completed'[p][e[2]] = completed[p][e[2]]
    BY <1>3, <1>10
<1> HIDE DEF f, g, S, S2, n, P, x
<1>12. S2 = IF y = None THEN S ELSE S \cup {x}
    <2>1. \A e : e \in S2 <=> e \in S \/ (e = x /\ y # None)
        BY <1>3, <1>6, <1>9, <1>10, <1>11
    <2> QED
        BY <2>1
<1>13. \A e \in S : g[e] = f[e] /\ e \in S2
    BY <1>6, <1>7, <1>8, <1>10, <1>11, <1>12
<1>14. Cardinality(S) \in Nat \ {0} /\ (y = None \/ 2 * y <= Yield!Median2(f))
    BY DEF S, f, P
<1>15. /\ Cardinality(S2) >= Cardinality(S)
       /\ \/ Yield!Median2(g) = Yield!Median2(f)
          \/ Yield!Median2(g) <= Yield!Median2(f) /\ Yield!Median2(g) \in Nat
    <2>1. CASE y = None
        <3>1. S2 = S
            BY <1>12, <2>1
        <3>2. g = f
            BY <1>5, <1>13, <3>1
        <3> QED
            BY <1>14, <3>1, <3>2
    <2>2. CASE y # None
        <3>1. S2 = S \cup {x} /\ x \in S2 /\ g[x] = y
            BY <1>3, <1>8, <1>9, <1>12, <2>2
        <3>2. Cardinality(S2) = Cardinality(S) + 1
            BY <1>5, <1>9, <3>1, FS_AddElement
        <3>3. Yield!Median2(g) <= Yield!Median2(f) /\ Yield!Median2(g) \in Nat
            BY <1>5, <1>9, <1>13, <1>14, <2>2, <3>1, MedianNotRaised
        <3> QED
            BY <1>14, <3>2, <3>3
    <2> QED
        BY <2>1, <2>2
<1>16. Yield!Median2(Yield!Counted({p}))' = Yield!Median2(g)
    BY DEF Yield!Median2, Yield!Kth, Yield!UpTo, Yield!Below, g, P
<1>17. Cardinality(Yield!Evidence({p}))' = Cardinality(S2)
    BY DEF S2, P
<1> QED
    BY <1>5, <1>15, <1>16, <1>17 DEF S, f, P

YieldInv == Yield!TypeOK /\ IsFiniteSet(expectations)

LEMMA YieldSteps ==
    ASSUME YieldInv, [Yield!Next]_(Yield!vars)
    PROVE  YieldInv'
<1> USE DEF YieldInv
<1>1. ASSUME NEW p \in Printers, NEW y \in Yields \cup {None}, Yield!RecordCycle(p, y)
      PROVE  YieldInv'
    BY <1>1, CycleRecorded
<1>2. ASSUME NEW r \in Yield!Rows, Yield!SaveExpectation(r) \/ Yield!DeleteExpectation(r)
      PROVE  YieldInv'
    <2>1. Yield!TypeOK'
        BY <1>2 DEF Yield!SaveExpectation, Yield!DeleteExpectation, Yield!TypeOK
    <2>2. expectations' \subseteq expectations \cup {r}
        BY <1>2 DEF Yield!SaveExpectation, Yield!DeleteExpectation
    <2>3. IsFiniteSet(expectations \cup {r})
        BY FS_AddElement
    <2> QED
        BY <2>1, <2>2, <2>3, FS_Subset
<1>3. CASE UNCHANGED Yield!vars
    BY <1>3 DEF Yield!vars, Yield!TypeOK
<1> QED
    BY <1>1, <1>2, <1>3 DEF Yield!Next

\* What a printer is measured against is a number.
LEMMA YardstickTyped ==
    ASSUME YieldInv, NEW p \in Printers
    PROVE  Yield!Expected2(p) \in Nat \cup {None}
<1>0. Yield!TypeOK /\ IsFiniteSet(expectations)
    BY DEF YieldInv
<1>1. CASE expectations = {}
    <2> DEFINE P == Yield!Peers(p)
               S == Yield!Evidence(P)
               f == Yield!Counted(P)
    <2>1. P \in SUBSET Printers
        BY DEF Yield!Peers
    <2>2. IsFiniteSet(S) /\ Cardinality(S) \in Nat /\ f \in [S -> Nat]
        <3> HIDE DEF P
        <3> QED
            BY <1>0, <2>1, EvidenceTyped
    <2>3. Yield!Expected2(p) = IF \/ Cardinality(S) < BaselineCycles
                                  \/ Cardinality({e[1] : e \in S}) < BaselinePrinters
                               THEN None ELSE Yield!Median2(f)
        BY <1>1, YieldCounts DEF Yield!Expected2, Yield!Baseline
    <2> HIDE DEF f, S
    <2>4. BaselineCycles \in Nat /\ BaselineCycles >= 2
        BY DataAssumption DEF DataAssumption, Yield!YieldAssumption
    <2>5. ASSUME Cardinality(S) >= BaselineCycles
          PROVE  Yield!Median2(f) \in Nat
        <3>1. Cardinality(S) \in Nat \ {0}
            BY <2>2, <2>4, <2>5
        <3> QED
            BY <2>2, <3>1, MedianTyped
    <2> QED
        BY <2>2, <2>3, <2>4, <2>5
<1>2. CASE expectations # {}
    <2> DEFINE r == CHOOSE o \in Yield!Best : TRUE
    <2>1. Yield!Expected2(p) = IF Yield!Cardinality(Yield!Best) > 1 THEN None ELSE 2 * r.pages
        BY <1>2 DEF Yield!Expected2
    <2> DEFINE rank(o) == Yield!Rank(o)
               R == {rank(o) : o \in expectations}
    <2>2. expectations \subseteq Yield!Rows
        BY <1>0 DEF Yield!TypeOK
    <2>3. \A o \in Yield!Rows : rank(o) \in Nat /\ o.pages \in Nat
        <3> SUFFICES ASSUME NEW o \in Yield!Rows
                     PROVE  rank(o) \in Nat /\ o.pages \in Nat
            OBVIOUS
        <3>1. o.tag \in ModelTags /\ o.colored \in BOOLEAN /\ o.pages \in Yields
            BY DEF Yield!Rows
        <3> DEFINE size == o.tag.length
        <3>2. size \in Nat
            BY <3>1, YieldConstants
        <3>3. rank(o) = (IF o.colored THEN 1000 ELSE 0) + size
            BY DEF Yield!Rank
        <3> HIDE DEF size, rank
        <3>4. o.pages \in Nat
            BY <3>1, YieldConstants
        <3>5. (IF o.colored THEN 1000 ELSE 0) \in Nat
            OBVIOUS
        <3> QED
            BY <3>2, <3>3, <3>4, <3>5
    <2> HIDE DEF rank
    <2>4. R \in SUBSET Nat /\ R # {}
        BY <1>2, <2>2, <2>3
    <2>5. IsFiniteSet(R)
        <3> DEFINE h == [o \in expectations |-> rank(o)]
        <3>1. h \in Surjection(expectations, R)
            BY DEF Surjection
        <3> HIDE DEF h, R
        <3> QED
            BY <1>0, <3>1, FS_Surjection
    <2>6. PICK top \in R : \A n \in R : n <= top
        <3> HIDE DEF R
        <3> QED
            BY <2>4, <2>5, GreatestOfFinite
    <2>7. PICK o \in expectations : top = rank(o)
        OBVIOUS
    <2>8. \A x \in expectations : rank(x) <= rank(o)
        BY <2>6, <2>7
    <2>9. o \in Yield!Best
        BY <2>8 DEF Yield!Best, rank
    <2>10. r \in expectations
        BY <2>9 DEF Yield!Best
    <2> QED
        BY <2>1, <2>2, <2>3, <2>10
<1> QED
    BY <1>1, <1>2

\* For any printers, yields and samples: the cycles and the expectations keep
\* their types.
THEOREM YieldInvariant == Yield!Spec => []YieldInv
<1>1. Yield!Init => YieldInv
    BY YieldConstants, FS_EmptySet DEF Yield!Init, Yield!TypeOK, YieldInv
<1>2. YieldInv /\ [Yield!Next]_(Yield!vars) => YieldInv'
    BY YieldSteps
<1> QED
    BY <1>1, <1>2, PTL DEF Yield!Spec

\* A shortfall stands when the next cartridge is no better.
LEMMA ShortfallStands ==
    ASSUME YieldInv, NEW p \in Printers, NEW y \in Yields \cup {None}, Yield!RecordCycle(p, y),
           Yield!Verdict(p) = "below",
           y = None \/ 2 * y <= Yield!Median2(Yield!Counted({p}))
    PROVE  Yield!Verdict(p)' = "below"
<1> DEFINE n == Cardinality(Yield!Evidence({p}))
           M == Yield!Median2(Yield!Counted({p}))
           E == Yield!Expected2(p)
           n2 == Cardinality(Yield!Evidence({p}))'
           M2 == Yield!Median2(Yield!Counted({p}))'
<1>1. Yield!TypeOK
    BY DEF YieldInv
<1>3. MinCycles \in Nat \ {0, 1} /\ ShortfallPct \in 5..90
    BY YieldConstants
<1>4. n \in Nat /\ Yield!Counted({p}) \in [Yield!Evidence({p}) -> Nat]
      /\ IsFiniteSet(Yield!Evidence({p}))
    <2>1. {p} \in SUBSET Printers
        OBVIOUS
    <2> QED
        BY <1>1, <2>1, EvidenceTyped
<1> DEFINE far == M * 100 <= E * (100 - ShortfallPct)
<1>2. n >= MinCycles /\ E # None /\ far
    <2>1. Yield!Verdict(p) = IF n < MinCycles THEN "insufficient"
                             ELSE IF E = None THEN "no_expectation"
                             ELSE IF far THEN "below" ELSE "within"
        BY YieldCounts DEF Yield!Verdict
    <2> HIDE DEF n, E, far
    <2>2. ~(n < MinCycles)
        BY <2>1
    <2>3. E # None
        BY <2>1, <2>2
    <2>4. CASE far
        BY <1>3, <1>4, <2>2, <2>3, <2>4 DEF n
    <2>5. CASE ~far
        BY <2>1, <2>2, <2>3, <2>5
    <2> QED
        BY <2>4, <2>5
<1>7. n \in Nat \ {0}
    BY <1>2, <1>3, <1>4
<1>5. E \in Nat
    BY <1>2, YardstickTyped
<1>6. M \in Nat
    BY <1>4, <1>7, MedianTyped
<1>8. n2 >= n /\ n2 \in Nat /\ (M2 = M \/ (M2 <= M /\ M2 \in Nat))
    BY <1>1, <1>7, OwnMedianNotRaised
<1>9. E' = E
    BY <1>1, CycleRecorded, YardstickStays
<1> HIDE DEF n, M, E, n2, M2
<1>10. ~(n2 < MinCycles) /\ M2 * 100 <= E * (100 - ShortfallPct)
    <2>1. M2 \in Nat /\ M2 <= M
        BY <1>6, <1>8
    <2>2. E * (100 - ShortfallPct) \in Int
        BY <1>3, <1>5
    <2> DEFINE Z == E * (100 - ShortfallPct)
    <2> HIDE DEF Z
    <2>3. M2 * 100 <= Z
        BY <1>2, <1>6, <2>1, <2>2 DEF Z
    <2> QED
        BY <1>2, <1>3, <1>4, <1>8, <2>3 DEF Z
<1>11. Yield!Verdict(p)' = IF n2 < MinCycles THEN "insufficient"
                           ELSE IF E' = None THEN "no_expectation"
                           ELSE IF M2 * 100 <= E' * (100 - ShortfallPct) THEN "below" ELSE "within"
    BY YieldCounts DEF Yield!Verdict, n2, M2, E
<1> QED
    BY <1>2, <1>9, <1>10, <1>11

\* For any printers, yields, samples and thresholds: another cartridge that is no
\* better never clears a printer that falls short (supply_yield._judge).
THEOREM WorseClearsNothing == Yield!Spec => Yield!WorseNeverClears
<1>1. ASSUME YieldInv, Yield!Next
      PROVE  Yield!NotCleared
    <2> SUFFICES ASSUME NEW p \in Printers, Yield!Verdict(p) = "below", completed'[p] # completed[p],
                        LET new == completed'[p][Len(completed'[p])] IN
                        new = None \/ 2 * new <= Yield!Median2(Yield!Counted({p}))
                 PROVE  Yield!Verdict(p)' = "below"
        BY DEF Yield!NotCleared
    <2>1. PICK q \in Printers, y \in Yields \cup {None} : Yield!RecordCycle(q, y)
        BY <1>1 DEF Yield!Next, Yield!SaveExpectation, Yield!DeleteExpectation
    <2>2. Yield!TypeOK
        BY <1>1 DEF YieldInv
    <2>3. q = p
        BY <2>1, <2>2, CycleRecorded
    <2>4. completed'[p] = Append(completed[p], y) /\ completed[p] \in Seq(Yields \cup {None})
        BY <2>1, <2>2, <2>3, CycleRecorded DEF Yield!TypeOK
    <2>5. completed'[p][Len(completed'[p])] = y
        <3> DEFINE S == Yields \cup {None}
                   c == completed[p]
        <3> HIDE DEF S, c
        <3>1. c \in Seq(S) /\ y \in S
            BY <2>4 DEF S, c
        <3>2. Len(Append(c, y)) = Len(c) + 1 /\ Append(c, y)[Len(c) + 1] = y
            BY <3>1
        <3> QED
            BY <2>4, <3>2 DEF c
    <2> QED
        BY <1>1, <2>1, <2>3, <2>5, ShortfallStands
<1>2. YieldInv /\ [Yield!Next]_(Yield!vars) => [Yield!NotCleared]_(Yield!vars)
    BY <1>1
<1> QED
    BY <1>2, YieldInvariant, PTL DEF Yield!Spec, Yield!WorseNeverClears

-----------------------------------------------------------------------------
(* The properties of the runs, put together.                               *)

\* For any printers, clients, orders, schedules and workers: every part of what
\* central makes of readings keeps its types, the sums of SupplyCycles and the fit
\* of SupplyForecast apart.
THEOREM DataTypes ==
    /\ Retain!Spec /\ Calendar!Spec /\ Invoice!Spec /\ Monthly!Spec
    /\ Yield!Spec /\ Stock!Spec /\ Desk!Spec /\ Health!Spec
    => []TypesOK
<1>1. /\ RetainInv /\ Calendar!TypeOK /\ InvoiceInv /\ Monthly!TypeOK /\ YieldInv
      /\ Stock!TypeOK /\ DeskInv /\ Health!TypeOK
      => TypesOK
    BY DEF TypesOK, Of, RetainInv, InvoiceInv, YieldInv, DeskInv
<1> QED
    BY <1>1, RetainInvariant, CalendarInvariant, InvoiceInvariant, MonthlyInvariant,
        YieldInvariant, StockTypes, DeskInvariant, HealthInvariant, PTL

\* For any bounds, where the mailbox is read often enough for the mail it gets: what
\* was deleted is counted, the months of an invoice add up and bill no page twice,
\* months are reported once, mail reaches the ledger, what is held is held to the
\* end of its hours, and a sick worker is seen.
THEOREM NothingIsMissed ==
    MailboxKeepsUp =>
       (/\ Retain!Spec /\ Invoice!Spec /\ Monthly!Spec
        /\ Stock!Spec /\ Calendar!Spec /\ Health!Spec
        => []NothingMissed)
<1>1. /\ Retain!DeletedIsCounted /\ Invoice!MonthsTile /\ Invoice!PagesBilledOnce
      /\ Monthly!OneReportAMonth /\ Stock!MailImported
      /\ Calendar!HeldToTheEnd /\ Health!SickIsSeen
      => NothingMissed
    BY DEF NothingMissed, Of
<1> QED
    BY <1>1, DeletedCounted, MonthsAreTrue, MonthsReported, MailReachesLedger, HeldUntilEnd,
        SicknessSeen, PTL

\* For any bounds: readings stay for their window, a client with a card loses it only
\* by its deletion, and notifications wait exactly inside the hours that say so.
THEOREM TermsStand == Retain!Spec /\ Invoice!Spec /\ Calendar!Spec => TermsKept
BY WindowsKept, TermsAreKept, SilentInsideOnly, PTL DEF TermsKept

\* For any bounds: stock, parts and levels are never judged better by worse news.
THEOREM SuppliesAreWatched == Stock!Spec /\ Yield!Spec /\ Forecast!Spec => SuppliesWatched
BY OverdrawnByRaceOnly, WorseClearsNothing, ForecastOnOwnReadings, ForecastNeverDrops, PTL
   DEF SuppliesWatched
=============================================================================
