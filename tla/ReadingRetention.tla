-------------------------- MODULE ReadingRetention --------------------------
(***************************************************************************)
(* The retention job (central/retention.py): readings of days that closed  *)
(* before the raw window are rolled up, one row per printer and UTC day,   *)
(* and, while an operator asks for it, deleted in the transaction that     *)
(* rolled them up.  A pass is bounded by a budget of units of work.        *)
(*                                                                         *)
(* Readings arrive while a pass runs, and agents date them: a straggler    *)
(* may belong to a day already rolled up or pruned.  The pass reads the    *)
(* rows of a printer's day in one step and commits in another.             *)
(***************************************************************************)
EXTENDS Naturals, FiniteSets

CONSTANTS Printers,
          PerDay,     \* distinct times of a day
          Meters,     \* page counts a reading may carry
          RawDays,    \* effective_raw_days
          Budget,     \* retention.max_batches_per_cycle
          MaxDay,     \* bound on the clock
          None

VARIABLES raw,        \* readings
          rollup,     \* printer, day -> reading_rollups row, or None
          watermark,  \* retention.rollup_watermark, or None
          deleting,   \* retention.delete_enabled
          pass,       \* the running pass, or None
          today,
          deleted,    \* history: the readings deleted so far
          mixed       \* history: where a pruned row took in readings that stayed

vars == <<raw, rollup, watermark, deleting, pass, today, deleted, mixed>>

Days == 0..MaxDay
DayOf(r) == r.ts \div PerDay
ReadingRows == [printer : Printers, ts : 0..(PerDay * (MaxDay + 1) - 1),
                meter : Meters]
RollupRows == [count : Nat, first : Nat, last : Nat, start : Meters,
               end : Meters, pruned : BOOLEAN]
Passes == [day : Days, limit : Days, delete : BOOLEAN, used : Nat,
           todo : SUBSET Printers, done : Days \cup {None},
           read : Printers \cup {None}, ids : SUBSET ReadingRows]

\* What the constants must satisfy.
RetentionAssumption ==
    /\ {PerDay, Budget} \subseteq Nat \ {0}
    /\ {RawDays, MaxDay} \subseteq Nat
    /\ None \notin Printers \cup RollupRows

Init ==
    /\ raw = {}
    /\ rollup = [k \in Printers \X Days |-> None]
    /\ watermark = None
    /\ deleting = FALSE
    /\ pass = None
    /\ today = 0
    /\ deleted = {} /\ mixed = {}

Of(S, p, d) == {r \in S : r.printer = p /\ DayOf(r) = d}
Earliest(S) == CHOOSE r \in S : \A s \in S : r.ts <= s.ts
Latest(S)   == CHOOSE r \in S : \A s \in S : r.ts >= s.ts

\* aggregate
Aggregate(S) ==
    [count |-> Cardinality(S),
     first |-> Earliest(S).ts, start |-> Earliest(S).meter,
     last |-> Latest(S).ts, end |-> Latest(S).meter, pruned |-> FALSE]

\* merge: each end of the day comes from the side that reaches further
Merge(old, new) ==
    LET head == IF new.first < old.first THEN new ELSE old
        tail == IF new.last > old.last THEN new ELSE old
    IN  [count |-> old.count + new.count, first |-> head.first,
         start |-> head.start, last |-> tail.last, end |-> tail.end,
         pruned |-> TRUE]

-----------------------------------------------------------------------------
\* a reading is stored: of today, or late
Arrive(r) ==
    /\ DayOf(r) <= today
    /\ \A s \in raw \cup deleted : s.printer = r.printer => s.ts # r.ts
    /\ raw' = raw \cup {r}
    /\ UNCHANGED <<rollup, watermark, deleting, pass, today, deleted, mixed>>

\* the settings form: deletion is switched on, or off again
SwitchDeletion ==
    /\ deleting' = ~deleting
    /\ UNCHANGED <<raw, rollup, watermark, pass, today, deleted, mixed>>

Tick ==
    /\ today < MaxDay /\ today' = today + 1
    /\ UNCHANGED <<raw, rollup, watermark, deleting, pass, deleted, mixed>>

\* whole days that closed before the raw window
Closed(d) == d + RawDays < today

\* with deletion on the oldest reading is where work starts; with it off the
\* watermark says which days are done
StartDay ==
    LET oldest == CHOOSE d \in Days : /\ \E r \in raw : DayOf(r) = d
                                      /\ \A r \in raw : DayOf(r) >= d
    IN  IF deleting \/ watermark = None \/ watermark < oldest
        THEN oldest ELSE watermark + 1

Reporting(d) == {p \in Printers : Of(raw, p, d) # {}}

BeginPass ==
    /\ pass = None /\ raw # {} /\ Closed(StartDay)
    /\ pass' = [day |-> StartDay, limit |-> today, delete |-> deleting,
                used |-> 1, todo |-> Reporting(StartDay), done |-> None,
                read |-> None, ids |-> {}]
    /\ UNCHANGED <<raw, rollup, watermark, deleting, today, deleted, mixed>>

\* the rows of one printer's day
ReadDay(p) ==
    /\ pass # None /\ pass.read = None
    /\ p \in pass.todo /\ pass.used < Budget
    /\ pass' = [pass EXCEPT !.read = p, !.ids = Of(raw, p, pass.day)]
    /\ UNCHANGED <<raw, rollup, watermark, deleting, today, deleted, mixed>>

\* Mutant: deletes by the day's range instead of by the ids aggregated
DoomedRange(p, d, ids) == Of(raw, p, d)
Doomed(p, d, ids) == ids

Folded(row, S) ==
    IF row # None /\ row.pruned THEN Merge(row, Aggregate(S)) ELSE Aggregate(S)

\* _process_printer_day: the rollup and the deletion are one commit
CommitDay ==
    /\ pass # None /\ pass.read # None
    /\ LET p == pass.read  d == pass.day
           over == rollup[<<p, d>>] # None /\ rollup[<<p, d>>].pruned
           gone == IF pass.delete THEN Doomed(p, d, pass.ids) ELSE {}
           row  == IF pass.ids = {} THEN rollup[<<p, d>>]
                   ELSE Folded(rollup[<<p, d>>], pass.ids)
       IN  /\ rollup' = [rollup EXCEPT ![<<p, d>>] =
                           IF gone = {} THEN row ELSE [row EXCEPT !.pruned = TRUE]]
           /\ raw' = raw \ gone
           /\ deleted' = deleted \cup gone
           /\ mixed' = IF over /\ pass.ids # gone THEN mixed \cup {<<p, d>>} ELSE mixed
           /\ pass' = [pass EXCEPT !.read = None, !.ids = {},
                                   !.todo = @ \ {p}, !.used = @ + 1]
    /\ UNCHANGED <<watermark, deleting, today>>

\* the day is complete: the pass goes on with the next
NextDay ==
    /\ pass # None /\ pass.read = None /\ pass.todo = {}
    /\ pass.day + 1 + RawDays < pass.limit /\ pass.used < Budget
    /\ pass' = [pass EXCEPT !.day = @ + 1, !.done = pass.day, !.used = @ + 1,
                            !.todo = Reporting(pass.day + 1)]
    /\ UNCHANGED <<raw, rollup, watermark, deleting, today, deleted, mixed>>

\* out of days or out of budget: the watermark keeps the last complete day
EndPass ==
    /\ pass # None /\ pass.read = None
    /\ \/ pass.todo # {} /\ pass.used >= Budget
       \/ pass.todo = {} /\ (pass.day + 1 + RawDays >= pass.limit
                             \/ pass.used >= Budget)
    /\ LET done == IF pass.todo = {} THEN pass.day ELSE pass.done
       IN  watermark' = IF done = None \/ (watermark # None /\ watermark >= done)
                        THEN watermark ELSE done
    /\ pass' = None
    /\ UNCHANGED <<raw, rollup, deleting, today, deleted, mixed>>

\* the worker dies: what was committed stays
Crash ==
    /\ pass # None /\ pass' = None
    /\ UNCHANGED <<raw, rollup, watermark, deleting, today, deleted, mixed>>

PassStep == BeginPass \/ NextDay \/ EndPass \/ CommitDay
              \/ \E p \in Printers : ReadDay(p)

Next == PassStep \/ Tick \/ SwitchDeletion \/ Crash
          \/ \E r \in ReadingRows : Arrive(r)

Spec == Init /\ [][Next]_vars
\* the worker runs the job every cycle and is not killed in every one of them
FairSpec ==
    Spec /\ WF_vars(BeginPass) /\ SF_vars(\E p \in Printers : ReadDay(p))
         /\ SF_vars(CommitDay) /\ SF_vars(NextDay \/ EndPass)

-----------------------------------------------------------------------------
TypeOK ==
    /\ raw \subseteq ReadingRows /\ deleted \subseteq ReadingRows
    /\ rollup \in [Printers \X Days -> RollupRows \cup {None}]
    /\ watermark \in Days \cup {None} /\ pass \in Passes \cup {None}
    /\ deleting \in BOOLEAN /\ today \in Days /\ mixed \subseteq Printers \X Days

(* A reading that is gone is in its day's rollup: a pruned row counts the    *)
(* readings deleted from its day, whatever arrived between the read and the  *)
(* delete, later, or before a crash.  It counts them once and its meters are *)
(* those of the first and the last, unless deletion was switched off before  *)
(* a straggler was merged.                                                   *)
DeletedIsCounted ==
    \A p \in Printers, d \in Days :
        LET gone == Of(deleted, p, d)  row == rollup[<<p, d>>] IN
        gone # {} =>
            /\ row # None /\ row.pruned /\ row.count >= Cardinality(gone)
            /\ <<p, d>> \notin mixed =>
                  /\ row.count = Cardinality(gone)
                  /\ row.start = Earliest(gone).meter
                  /\ row.end = Latest(gone).meter

(* "a re-run must recompute, not double-count": no rollup counts more        *)
(* readings than its printer's day has had.                                  *)
NotCountedTwice ==
    \A p \in Printers, d \in Days :
        rollup[<<p, d>>] # None =>
            rollup[<<p, d>>].count <= Cardinality(Of(raw \cup deleted, p, d))

(* A day's readings are left alone until the day closed before the window.   *)
WindowKept == [][\A r \in raw \ raw' : DayOf(r) + RawDays < today]_vars

Due(p, d) == /\ Of(raw, p, d) # {} /\ Closed(d)
             /\ rollup[<<p, d>>] = None
             /\ deleting \/ watermark = None \/ watermark < d

(* A closed day with readings is rolled up in the end: the work is bounded   *)
(* per cycle "so a multi-year backlog drains over many cycles".              *)
BacklogDrains == \A p \in Printers, d \in Days : Due(p, d) ~> ~Due(p, d)
=============================================================================
