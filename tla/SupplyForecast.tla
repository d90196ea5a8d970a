--------------------------- MODULE SupplyForecast ---------------------------
(***************************************************************************)
(* From levels to orders, for one supply of one printer: polls write the   *)
(* level, the worker's forecast pass fits the days left and keeps the      *)
(* predicted-depletion alert (worker/jobs.py), the dashboard judges on     *)
(* read whether to order (central/reorder.py), and an event tells the      *)
(* customer's own system.  The order window is that of the procurement     *)
(* calendar (central/business_calendar.py).                                *)
(*                                                                         *)
(* The forecast pass and the event have intervals of their own, so either  *)
(* may run long after the poll; a printer may stay silent for days.        *)
(***************************************************************************)
EXTENDS Integers, Sequences, FiniteSets

CONSTANTS Full,       \* a level of 100%
          Tolerance,  \* REFILL_TOLERANCE_PCT
          MinSpan,    \* FORECAST_MIN_HISTORY_DAYS
          Window,     \* FORECAST_HISTORY_WINDOW_DAYS
          ReorderLevel, UrgentLevel, ReorderDays,  \* reorder.* thresholds
          FullLevel, UrgentFull,                   \* of a receptacle
          OrderWindow,    \* delivery and safety business days, in calendar days
          Overrides,      \* values of alerts.reorder_lead_days
          MaxDay,         \* bound on the clock
          None

\* What the constants must satisfy.
ForecastAssumption ==
    /\ {Full, Tolerance, MinSpan, Window, ReorderLevel, UrgentLevel, ReorderDays,
        FullLevel, UrgentFull, OrderWindow, MaxDay} \subseteq Nat
    /\ Overrides \subseteq Nat /\ None \notin Nat \cup {"order_soon", "order_now"}

VARIABLES part,      \* the level of the part in the printer
          receptacle,\* is_receptacle
          points,    \* readings in the window, oldest first
          row,       \* supplies row: level_pct and days_to_empty
          alert,     \* a predicted_depletion alert is live
          told,      \* the urgency the last event gave, or None
          override,  \* alerts.reorder_lead_days
          today

vars == <<part, receptacle, points, row, alert, told, override, today>>
Levels == 0..Full

Init ==
    /\ receptacle \in BOOLEAN
    /\ part = IF receptacle THEN 0 ELSE Full
    /\ points = <<>>
    /\ row = [level |-> None, days |-> None]
    /\ alert = FALSE
    /\ told = None
    /\ override \in Overrides
    /\ today = 0

-----------------------------------------------------------------------------
(* _fit_depleting_segment and forecast_days_to_empty *)

\* refill_boundaries: the readings since the level last rose
Segment ==
    LET rises == {i \in 2..Len(points) : points[i].level > points[i - 1].level + Tolerance}
    IN  IF rises = {} THEN points
        ELSE SubSeq(points, CHOOSE i \in rises : \A j \in rises : j <= i, Len(points))

\* the sum of f over the readings of a segment
Total(seg, f(_)) ==
    LET upTo[i \in 0..Len(seg)] == IF i = 0 THEN 0 ELSE upTo[i - 1] + f(seg[i])
    IN  upTo[Len(seg)]

\* two readings, and the days a rate needs
Enough(seg) == Len(seg) >= 2 /\ seg[Len(seg)].day - seg[1].day >= MinSpan

\* least squares, in whole numbers: the rate is fall / spread per day
Fitted(seg) ==
    LET n      == Len(seg)
        sx     == Total(seg, LAMBDA p : p.day)
        sy     == Total(seg, LAMBDA p : p.level)
        spread == n * Total(seg, LAMBDA p : p.day * p.day) - sx * sx
        fall   == sx * sy - n * Total(seg, LAMBDA p : p.day * p.level)
        level  == sy * spread - fall * (n * seg[n].day - sx)
    IN  IF fall <= 0 THEN None
        ELSE IF level <= 0 THEN 0
        ELSE level \div (n * fall)

DaysToEmpty == IF Enough(Segment) THEN Fitted(Segment) ELSE None

\* effective_order_window_days
LeadDays == IF override > OrderWindow THEN override ELSE OrderWindow

-----------------------------------------------------------------------------
(* evaluate_supply: the urgency of ordering, or None *)

ConsumedUrgency(lead) ==
    IF ~ \/ row.level # None /\ row.level <= ReorderLevel
         \/ row.days # None /\ row.days <= ReorderDays
    THEN None
    ELSE IF \/ row.days # None /\ row.days <= lead
            \/ row.level # None /\ row.level <= UrgentLevel
         THEN "order_now" ELSE "order_soon"

ReceptacleUrgency ==
    IF row.level = None \/ row.level < FullLevel THEN None
    ELSE IF row.level >= UrgentFull THEN "order_now" ELSE "order_soon"

\* Mutant: a container that fills is judged as one that empties
UrgencyBlind(lead) == ConsumedUrgency(lead)
Urgency(lead) == IF receptacle THEN ReceptacleUrgency ELSE ConsumedUrgency(lead)

-----------------------------------------------------------------------------
Use ==
    /\ part' = IF receptacle THEN part + 1 ELSE part - 1
    /\ part' \in Levels
    /\ UNCHANGED <<receptacle, points, row, alert, told, override, today>>

Replace ==
    /\ part' = IF receptacle THEN 0 ELSE Full
    /\ UNCHANGED <<receptacle, points, row, alert, told, override, today>>

\* upsert_supply and the snapshot: a poll, or several, of the day
Poll ==
    /\ points # <<>> => points[Len(points)].day < today
    /\ points' = Append(points, [day |-> today, level |-> part])
    /\ row' = [row EXCEPT !.level = part]
    /\ UNCHANGED <<part, receptacle, alert, told, override, today>>

\* the oldest readings leave the window
Tick ==
    /\ today < MaxDay /\ today' = today + 1
    /\ \E first \in 1..(Len(points) + 1) :
          /\ \A i \in 1..Len(points) : points[i].day + Window >= today + 1 <=> i >= first
          /\ points' = SubSeq(points, first, Len(points))
    /\ UNCHANGED <<part, receptacle, row, alert, told, override>>

\* forecast_supplies: a supply without readings in the window is not visited
Forecast ==
    /\ row' = IF points = <<>> THEN row ELSE [row EXCEPT !.days = DaysToEmpty]
    /\ alert' = (points # <<>> /\ row'.days # None /\ row'.days <= LeadDays)
    /\ UNCHANGED <<part, receptacle, points, told, override, today>>

\* publish_reorder_recommendations, with ReorderThresholds.from_runtime
Publish ==
    /\ Urgency(override) # None
    /\ told' = Urgency(override)
    /\ UNCHANGED <<part, receptacle, points, row, alert, override, today>>

Next == Use \/ Replace \/ Poll \/ Tick \/ Forecast \/ Publish
Spec == Init /\ [][Next]_vars

-----------------------------------------------------------------------------
TypeOK ==
    /\ part \in Levels /\ receptacle \in BOOLEAN /\ alert \in BOOLEAN
    /\ points \in Seq([day : 0..MaxDay, level : Levels])
    /\ row.level \in Levels \cup {None} /\ row.days \in Nat \cup {None}
    /\ told \in {None, "order_soon", "order_now"}
    /\ override \in Overrides /\ today \in 0..MaxDay

(* A forecast pass alerts on the part that is in the printer: when the       *)
(* readings show it fitted, only its own readings can say it runs out, and   *)
(* they must span the days a rate needs.                                     *)
OwnReadingsOnly ==
    [][Forecast /\ alert' =>
          \A i \in 2..Len(points) :
             points[i].level > points[i - 1].level + Tolerance
                => points[Len(points)].day - points[i].day >= MinSpan]_vars

Rank(u) == IF u = "order_now" THEN 2 ELSE IF u = "order_soon" THEN 1 ELSE 0
Worse == /\ row.level # None /\ row'.days = row.days
         /\ IF receptacle THEN row'.level > row.level ELSE row'.level < row.level
(* A poll that finds the supply closer to stopping the printer never takes   *)
(* it off the list or makes it less urgent, for parts that empty and for     *)
(* containers that fill.                                                     *)
WorseNeverDrops == [][Poll /\ Worse => Rank(Urgency(LeadDays)') >= Rank(Urgency(LeadDays))]_vars

(* The event gives the urgency the dashboard, the portal and the weekly      *)
(* report give at that moment (reorder.py: the lead time is the procurement  *)
(* calendar's horizon).                                                      *)
EventSaysWhatPageSays == [][Publish => told' = Urgency(LeadDays)]_vars
=============================================================================
