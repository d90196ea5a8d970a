---------------------------- MODULE SupplyCycles ----------------------------
(***************************************************************************)
(* Cartridge cycles (central/supply_yield.py, central/supplies.py): the    *)
(* worker folds one printer's new observations into the running cycle of   *)
(* each supply slot, and a level that rises past the tolerance closes the  *)
(* cycle and opens the next.                                               *)
(*                                                                         *)
(* A polled day is read from its rollup when it has one and from the raw   *)
(* readings otherwise.  Observations reach central in any order.  The      *)
(* device is modelled with it: toner runs down and is replaced, a waste    *)
(* container fills and is emptied, the meter counts and may be reset.      *)
(***************************************************************************)
EXTENDS Integers, FiniteSets, SequencesExt

CONSTANTS Slots,      \* supply slots of the printer
          Filling,    \* those that are receptacles
          Full,       \* a level of 100%
          Tolerance,  \* REFILL_TOLERANCE_PCT
          PerDay,     \* polls in a day
          MaxMeter,   \* bound on the meter
          MaxTime,    \* bound on the number of polls
          None

VARIABLES device,   \* the printer: meter, levels, pages printed, parts fitted
          polled,   \* time -> the observation taken then, or None
          raw,      \* the times whose reading is stored
          rolled,   \* day -> the time its rollup ends with, or None
          cycles,   \* slot -> sequence of supply_cycles rows, the last one open
          now,
          folded    \* history: slot -> the observations folded, in order

vars == <<device, polled, raw, rolled, cycles, now, folded>>

Times == 1..MaxTime
Day(t) == (t - 1) \div PerDay
Days == {Day(t) : t \in Times}
Levels == 0..Full

Init ==
    /\ device = [meter |-> 0, level |-> [s \in Slots |-> IF s \in Filling THEN 0 ELSE Full],
                 printed |-> 0, fitted |-> [s \in Slots |-> {}]]
    /\ polled = [t \in Times |-> None]
    /\ raw = {}
    /\ rolled = [d \in Days |-> None]
    /\ cycles = [s \in Slots |-> <<>>]
    /\ now = 0
    /\ folded = [s \in Slots |-> <<>>]

-----------------------------------------------------------------------------
(* The printer *)

PrintPage ==
    /\ device.meter < MaxMeter
    /\ device' = [device EXCEPT
         !.meter = @ + 1, !.printed = @ + 1,
         !.level = [s \in Slots |->
            IF s \in Filling THEN IF @[s] < Full THEN @[s] + 1 ELSE Full
                             ELSE IF @[s] > 0 THEN @[s] - 1 ELSE 0]]
    /\ UNCHANGED <<polled, raw, rolled, cycles, now, folded>>

\* somebody fits a new part before the next poll
Replace(s) ==
    /\ now < MaxTime
    /\ device' = [device EXCEPT !.level[s] = IF s \in Filling THEN 0 ELSE Full,
                                !.fitted[s] = @ \cup {now + 1}]
    /\ UNCHANGED <<polled, raw, rolled, cycles, now, folded>>

ResetMeter ==
    /\ device.meter > 0 /\ device' = [device EXCEPT !.meter = 0]
    /\ UNCHANGED <<polled, raw, rolled, cycles, now, folded>>

Poll ==
    /\ now < MaxTime
    /\ now' = now + 1
    /\ polled' = [polled EXCEPT ![now + 1] = [meter |-> device.meter,
                                              level |-> device.level]]
    /\ UNCHANGED <<device, raw, rolled, cycles, folded>>

\* the agent's push is applied, at once or from the spool
Store(t) ==
    /\ polled[t] # None /\ t \notin raw
    /\ raw' = raw \cup {t}
    /\ UNCHANGED <<device, polled, rolled, cycles, now, folded>>

\* retention: the day has closed; its rollup ends with its last reading
RollUp(d) ==
    LET ofDay == {t \in raw : Day(t) = d} IN
    /\ ofDay # {} /\ d < Day(now) /\ rolled[d] = None
    /\ rolled' = [rolled EXCEPT ![d] = CHOOSE t \in ofDay : \A u \in ofDay : u <= t]
    /\ UNCHANGED <<device, polled, raw, cycles, now, folded>>

-----------------------------------------------------------------------------
(* The scan *)

\* the newest observation in any of the printer's cycles
Watermark ==
    LET ends == {cycles[s][Len(cycles[s])].last : s \in {x \in Slots : cycles[x] # <<>>}}
    IN  IF ends = {} THEN 0 ELSE CHOOSE t \in ends : \A u \in ends : u <= t

\* a day is read from exactly one source
Source == ({rolled[d] : d \in Days} \ {None})
            \cup {t \in raw : rolled[Day(t)] = None}

\* _series_for_printer: strictly after the watermark, oldest first
Series(s) ==
    LET times == {t \in Source : t > Watermark}
        point == [t \in times |-> [ts |-> t, meter |-> polled[t].meter,
                                   level |-> polled[t].level[s]]]
    IN  [i \in 1..Cardinality(times) |->
            point[SetToSortSeq(times, LAMBDA a, b : a < b)[i]]]

Opened(p) == [start |-> p.ts, last |-> p.ts, ended |-> None, level |-> p.level,
              meter |-> p.meter, pages |-> 0]

\* Mutant: the delta is taken as it comes, and a reset counts backwards
ExtendedSigned(c, p) ==
    [c EXCEPT !.last = p.ts, !.level = p.level, !.meter = p.meter,
              !.pages = @ + (p.meter - c.meter)]
\* positive meter deltas only
Extended(c, p) ==
    [c EXCEPT !.last = p.ts, !.level = p.level, !.meter = p.meter,
              !.pages = IF p.meter > c.meter THEN @ + (p.meter - c.meter) ELSE @]

\* refill_boundaries, against the level carried over from the last pass
Boundary(c, p) == p.level > c.level + Tolerance

FoldPoint(rows, p) ==
    IF rows = <<>> THEN <<Opened(p)>>
    ELSE LET c == rows[Len(rows)] IN
         IF Boundary(c, p)
         THEN Append([rows EXCEPT ![Len(rows)].ended = p.ts], Opened(p))
         ELSE [rows EXCEPT ![Len(rows)] = Extended(c, p)]

Resumed(rows, points) == FoldLeft(FoldPoint, rows, points)

\* scan_printer and the commit of its caller; a scan that raises changes nothing
Scan ==
    /\ \E t \in Source : t > Watermark
    /\ cycles' = [s \in Slots |-> Resumed(cycles[s], Series(s))]
    /\ folded' = [s \in Slots |-> folded[s] \o Series(s)]
    /\ UNCHANGED <<device, polled, raw, rolled, now>>

Next ==
    \/ PrintPage \/ ResetMeter \/ Poll \/ Scan
    \/ \E s \in Slots : Replace(s)
    \/ \E t \in Times : Store(t)
    \/ \E d \in Days : RollUp(d)

Spec == Init /\ [][Next]_vars

-----------------------------------------------------------------------------
CycleRows == [start : Times, last : Times, ended : Times \cup {None},
              level : Levels, meter : 0..MaxMeter, pages : Nat]

TypeOK ==
    /\ device.meter \in 0..MaxMeter /\ device.level \in [Slots -> Levels]
    /\ raw \subseteq Times /\ now \in 0..MaxTime
    /\ rolled \in [Days -> Times \cup {None}]
    /\ \A s \in Slots : \A i \in DOMAIN cycles[s] : cycles[s][i] \in CycleRows

(* When the passes ran does not matter: the rows are those that one pass     *)
(* over all the observations folded so far would have written, so a part     *)
(* replaced between two passes is seen and a poll is not counted twice.      *)
PassesDoNotMatter ==
    \A s \in Slots : cycles[s] = FoldLeft(FoldPoint, <<>>, folded[s])

Total(rows) == FoldLeft(LAMBDA n, c : n + c.pages, 0, rows)
(* The cycles of a slot never hold more pages than the printer printed, and  *)
(* no two of them cover the same time, whatever was reset, rolled up,        *)
(* delivered late or scanned when.                                           *)
PagesNotInvented ==
    \A s \in Slots :
        /\ Total(cycles[s]) <= device.printed
        /\ \A i \in 1..(Len(cycles[s]) - 1) :
              cycles[s][i].last < cycles[s][i + 1].start

(* A completed cycle is a part that somebody replaced ("It must not read as  *)
(* a stream of replacements", says the test of a container that fills).      *)
ClosedIsReplaced ==
    \A s \in Slots : \A i \in DOMAIN cycles[s] :
        cycles[s][i].ended # None =>
            \E t \in device.fitted[s] :
                cycles[s][i].last < t /\ t <= cycles[s][i].ended
=============================================================================
