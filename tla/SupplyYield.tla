----------------------------- MODULE SupplyYield -----------------------------
(***************************************************************************)
(* What a cartridge should deliver and what it did (the reading side of    *)
(* central/supply_yield.py and the expectation handlers): completed cycles *)
(* of one supply slot across the printers of one model, the expected       *)
(* yields operators enter for it, and the verdict on each printer.         *)
(*                                                                         *)
(* A cycle is the yield it shows, or None when it is no evidence (little   *)
(* consumed, no pages).  A yield is a number of hundreds of pages.         *)
(***************************************************************************)
EXTENDS Integers, Sequences, FiniteSets

CONSTANTS Printers,
          Yields,           \* observed and expected yields
          Tags,             \* model tags that match the model
          MinCycles,        \* yield.min_cycles
          BaselineCycles,   \* yield.baseline_min_cycles
          BaselinePrinters, \* yield.baseline_min_printers
          ShortfallPct,     \* yield.shortfall_pct
          MaxCycles,        \* bound on the cycles of a printer
          None

\* What the constants must satisfy.
YieldAssumption ==
    /\ Yields \subseteq Nat \ {0}
    /\ {MinCycles, BaselineCycles, BaselinePrinters} \subseteq Nat \ {0, 1}
    /\ ShortfallPct \in 5..90
    /\ Tags \subseteq [text : STRING, length : Nat]
    /\ IsFiniteSet(Printers) /\ MaxCycles \in Nat /\ None \notin Nat

VARIABLES cycles,       \* Printers -> sequence of completed cycles
          expectations  \* supply_yield_expectations rows that match

vars == <<cycles, expectations>>

Rows == [tag : Tags, colored : BOOLEAN, pages : Yields]

Init == /\ cycles = [p \in Printers |-> <<>>]
        /\ expectations = {}

\* a scan closes a cycle of p
RecordCycle(p, y) ==
    /\ Len(cycles[p]) < MaxCycles
    /\ cycles' = [cycles EXCEPT ![p] = Append(@, y)]
    /\ UNCHANGED expectations

\* one row per tag and colour: saving again overwrites the pages
SaveExpectation(row) ==
    /\ expectations' = {r \in expectations : r.tag # row.tag \/ r.colored # row.colored}
                         \cup {row}
    /\ UNCHANGED cycles

DeleteExpectation(row) ==
    /\ expectations' = expectations \ {row}
    /\ UNCHANGED cycles

-----------------------------------------------------------------------------
\* qualifies: the cycles of these printers that are evidence
Evidence(printers) ==
    {e \in printers \X (1..MaxCycles) : /\ e[2] <= Len(cycles[e[1]])
                                       /\ cycles[e[1]][e[2]] # None}

\* what each of them yielded
Counted(printers) == [e \in Evidence(printers) |-> cycles[e[1]][e[2]]]

\* the k-th smallest of the values of f
UpTo(f, y) == Cardinality({e \in DOMAIN f : f[e] <= y})
Below(f, y) == Cardinality({e \in DOMAIN f : f[e] < y})
Kth(f, k) == CHOOSE y \in {f[e] : e \in DOMAIN f} : Below(f, y) < k /\ k <= UpTo(f, y)

\* twice the median, to stay whole
Median2(f) ==
    LET n == Cardinality(DOMAIN f) IN Kth(f, (n + 1) \div 2) + Kth(f, (n \div 2) + 1)

\* expectation_for: a colour beats none, then the longer tag; a tie is refused
Rank(row) == (IF row.colored THEN 1000 ELSE 0) + row.tag.length
Best == {r \in expectations : \A o \in expectations : Rank(o) <= Rank(r)}

Peers(p) == Printers \ {p}

\* fleet_baseline, or None below the sample floor
Baseline(p) ==
    LET sample == Evidence(Peers(p))
        seen   == {e[1] : e \in sample}
    IN  IF Cardinality(sample) < BaselineCycles \/ Cardinality(seen) < BaselinePrinters
        THEN None ELSE Median2(Counted(Peers(p)))

\* twice the expected pages, or None when there is none or the rows tie
Expected2(p) ==
    IF expectations = {} THEN Baseline(p)
    ELSE IF Cardinality(Best) > 1 THEN None
    ELSE 2 * (CHOOSE r \in Best : TRUE).pages

\* _judge
Verdict(p) ==
    IF Cardinality(Evidence({p})) < MinCycles THEN "insufficient"
    ELSE IF Expected2(p) = None THEN "no_expectation"
    ELSE IF Median2(Counted({p})) * 100 <= Expected2(p) * (100 - ShortfallPct)
         THEN "below" ELSE "within"

Next ==
    \/ \E p \in Printers, y \in Yields \cup {None} : RecordCycle(p, y)
    \/ \E row \in Rows : SaveExpectation(row) \/ DeleteExpectation(row)

Spec == Init /\ [][Next]_vars

-----------------------------------------------------------------------------
TypeOK ==
    /\ cycles \in [Printers -> Seq(Yields \cup {None})]
    /\ \A p \in Printers : Len(cycles[p]) <= MaxCycles
    /\ expectations \subseteq Rows

NotCleared ==
    \A p \in Printers :
       /\ Verdict(p) = "below" /\ cycles'[p] # cycles[p]
       /\ LET new == cycles'[p][Len(cycles'[p])] IN
          new = None \/ 2 * new <= Median2(Counted({p}))
       => Verdict(p)' = "below"

(* A printer is not cleared by evidence against it: another cartridge that   *)
(* yields no more than its cartridges have (or that shows nothing) never     *)
(* turns a shortfall into a clean bill, whatever it is measured against.     *)
WorseNeverClears == [][NotCleared]_vars
=============================================================================
