---------------------------- MODULE MCPrinterData ----------------------------
(***************************************************************************)
(* What central makes of a printer's readings, checked together: how they  *)
(* are kept, what is read off them about parts, money and service, the     *)
(* stock and the reports that follow, the hours nobody is to be told in,   *)
(* and whether the worker that does it all is seen to be dead.  The        *)
(* specifications share no variable; each behaviour follows the one named  *)
(* by focus and the others rest.  Invoices are looked at twice: "meters"   *)
(* moves the printer under no rate card, "cards" moves the cards of a      *)
(* resting printer; and stock twice, without and with the supplier's mail. *)
(*                                                                         *)
(* A budget bounds what operators, printers and faults do.  It appears in  *)
(* no guard of the specifications.                                         *)
(***************************************************************************)
EXTENDS Integers, Sequences, FiniteSets, TLC

CONSTANTS
    None,
    Parts,                                  \* the parts looked at
    MaxTime,
    PerDay, PageCounts, RawDays, Budget,
    Slots, Filling, MaxMeter,
    Cards, Admins, Rates, Ceilings, PerMonth, InvoiceMonths, MaxPages,
    Workers, Wanted, Lengths,
    Printers, Yields, MinCycles, BaselineCycles, BaselinePrinters, ShortfallPct, MaxCycles,
    Full, Tolerance, MinSpan, Window, ReorderLevel, UrgentLevel, ReorderDays,
    FullLevel, UrgentFull, OrderWindow, Overrides,
    Orders, Cycles, Mails, Products, Desks, Quantities, Lookback, Overlap,
    Lag, Cap,
    Schedules, Intervals, Thresholds, Dates, Worn, NewPart,
    Clients, Windows, Instants, Zone, Severities, Nothing,
    WeekDays, QuietHorizon, MaintenanceHorizon,
    Jobs, StaleAfter, SchemaWait, Grace, MaxFailures,
    MaxDay,
    MaxRetention, MaxWear, MaxMisreads, MaxCardOps, MaxRows, MaxSwaps,
    MaxStockOps, MaxMailOps, MaxDeskOps, MaxEdits, MaxMishaps     \* the budgets

VARIABLES
    raw, rollup, watermark, deleting, pass, keptOn, deleted, mixed,
    device, polled, stored, rolled, cycles, polls, folded,
    metered, reading, billTime, card, activating, pruning,
    today, server, claimed, sending, sent, failed, missed,
    completed, expectations,
    part, receptacle, points, row, alert, told, override, forecastDay,
    order, usage, worker, counter, catalogue, mail, notice, marker, reach,
    reachable, stockDay,
    meter, life, approved, schedule, records, alerts, promise, deskDay,
    instant, window, held,
    clock, migrated, proc, lock, run, waiting, marked,
    focus, spent

One == CHOOSE p \in Printers : TRUE
ModelTags == {[text |-> "hl", length |-> 3], [text |-> "hll", length |-> 5],
              [text |-> "mfc", length |-> 5]}

Retain   == INSTANCE ReadingRetention WITH
    Printers <- Printers \ {One}, Meters <- PageCounts, today <- keptOn
Wear     == INSTANCE SupplyCycles WITH
    MaxTime <- MaxTime + 1, raw <- stored, now <- polls
Invoice  == INSTANCE Billing WITH
    Months <- InvoiceMonths, device <- metered, now <- billTime, desk <- activating,
    deleting <- pruning
Monthly  == INSTANCE ScheduledReports WITH mail <- server, job <- sending
Yield    == INSTANCE SupplyYield WITH cycles <- completed, Tags <- ModelTags
Forecast == INSTANCE SupplyForecast WITH
    Full <- Full + 1, MaxDay <- MaxDay + 1, today <- forecastDay
Stock    == INSTANCE SupplyOrders WITH desk <- counter, MaxNow <- MaxTime, now <- stockDay
Desk     == INSTANCE MaintenanceDesk WITH today <- deskDay
Calendar == INSTANCE SuppressionCalendar WITH
    Printers <- Clients, ClientOf <- [p \in Clients |-> p], Day <- Wanted, Times <- Instants,
    now <- instant
Health   == INSTANCE WorkerHealth WITH
    Budget <- SchemaWait, MaxTime <- MaxTime + 1, now <- clock, marker <- waiting

ASSUME DataAssumption ==
    /\ Retain!RetentionAssumption /\ Invoice!BillingAssumption /\ Monthly!ReportAssumption
    /\ Yield!YieldAssumption /\ Forecast!ForecastAssumption
    /\ Stock!SupplyAssumption /\ Desk!DeskAssumption
    /\ Calendar!CalendarAssumption /\ Health!HealthAssumption

\* What the model checker takes: a month that has the wanted day and one that
\* is too short for it; one client's clock goes forward at 5, the other's back.
ShortMonth == <<Wanted, Wanted - 1>>
BothWays   == [c \in Clients |->
    [base |-> 1, at |-> 5, jump |-> IF c = CHOOSE d \in Clients : TRUE THEN 1 ELSE -1]]

retainVars   == <<raw, rollup, watermark, deleting, pass, keptOn, deleted, mixed>>
wearVars     == <<device, polled, stored, rolled, cycles, polls, folded>>
invoiceVars  == <<metered, reading, billTime, card, activating, pruning>>
monthlyVars  == <<today, server, claimed, sending, sent, failed, missed>>
yieldVars    == <<completed, expectations>>
forecastVars == <<part, receptacle, points, row, alert, told, override, forecastDay>>
stockVars    == <<order, usage, worker, counter, catalogue, mail, notice, marker,
                  reach, reachable, stockDay>>
calendarVars == <<instant, window, held>>
healthVars   == <<clock, migrated, proc, lock, run, waiting, marked>>
deskVars     == <<meter, life, approved, schedule, records, alerts, promise, deskDay>>
allVars == <<retainVars, wearVars, invoiceVars, monthlyVars, yieldVars, forecastVars,
             stockVars, deskVars, calendarVars, healthVars, focus, spent>>

\* The hours of the first window: any the form holds, on all days or one of
\* two.  The others are made while the model runs: short ranges and ranges past
\* the horizon, for everybody or for one client only.
Everybody == [kind |-> "global", of |-> None]
Held      == [scope |-> Everybody, drop |-> FALSE, floor |-> Nothing, enabled |-> TRUE]
Hours     == [quiet : {q \in Calendar!Quiet : q.start < Wanted /\ Cardinality(q.days) < 2},
              range : {None}, rule : {Held}]
Ranges    == [quiet : {None}, range : {r \in Calendar!Span : r.from < 3 /\ r.to - r.from \in {2, 6}},
              rule : {[Held EXCEPT !.floor = 1]} \cup
                     {[scope |-> [kind |-> "client", of |-> c], drop |-> TRUE, floor |-> 1,
                       enabled |-> TRUE] : c \in Clients}]

FirstHours ==
    /\ instant = 0 /\ held = [p \in Clients |-> None]
    /\ \E h \in Hours : window = [w \in Windows |-> IF w = 1 /\ focus = "calendar" THEN h ELSE None]

MCInit ==
    /\ focus \in Parts /\ spent = 0
    /\ Retain!Init /\ Wear!Init /\ Invoice!Init /\ Monthly!Init /\ Yield!Init
    /\ Forecast!Init /\ Stock!Init /\ Desk!Init /\ Health!Init
    /\ FirstHours
    /\ focus # "meters" => ~pruning
    /\ focus # "forecast" => ~receptacle /\ \A o \in Overrides : override <= o
    /\ catalogue = [p \in Products |-> IF focus = "stock" THEN "absent" ELSE "fits"]
    /\ meter = [p \in Printers |-> 0]
    /\ focus # "health" => migrated

Spend(limit) == spent < limit /\ spent' = spent + 1

-----------------------------------------------------------------------------
\* No step compares meters: it is enough that a day's readings have different ones.
RetainStep ==
    \/ UNCHANGED spent /\ (Retain!PassStep \/ Retain!Tick \/ Retain!SwitchDeletion)
    \/ /\ Spend(MaxRetention)
       /\ \/ Retain!Crash
          \/ \E r \in Retain!ReadingRows :
                /\ r.meter = 1 + (r.ts % PerDay)
                /\ Retain!DayOf(r) < MaxDay /\ Retain!Arrive(r)

WearStep ==
    \/ UNCHANGED spent /\ (Wear!Poll \/ Wear!Scan \/ \E t \in Wear!Times : Wear!Store(t))
    \/ /\ Spend(MaxWear)
       /\ \/ Wear!PrintPage \/ Wear!ResetMeter
          \/ \E s \in Slots : Wear!Replace(s)
          \/ \E d \in Wear!Days : Wear!RollUp(d)

MeterStep ==
    \/ /\ UNCHANGED spent
       /\ \/ \E class \in Invoice!Classes : Invoice!PrintPage(class)
          \/ \E shown \in {Invoice!Meters, {"pages"}, {"pages", "mono"}} : Invoice!Poll(shown)
    \/ Spend(MaxMisreads) /\ (Invoice!MeterStep \/ \E n \in Invoice!AllMonths : Invoice!Prune(n))

\* A card is created with one set of terms and edited to another.
CardStep ==
    \/ UNCHANGED spent /\ \E a \in Admins : Invoice!EndActivate(a)
    \/ /\ Spend(MaxCardOps)
       /\ \E c \in Cards :
             \/ Invoice!CreateCard(c, 4, 7, 0, "exclude")
             \/ Invoice!UpdateCard(c, 7, 4, 7, "bill_as_mono")
             \/ Invoice!DeleteCard(c)
             \/ \E a \in Admins : Invoice!BeginActivate(a, c)
             \/ \E t \in Invoice!Tiers : Invoice!CreateTier(c, t) \/ Invoice!DeleteTier(c, t)

\* One printer has a cartridge more than it takes to be judged, its peers what
\* it takes.
YieldStep ==
    \/ /\ UNCHANGED spent
       /\ \E p \in Printers, y \in Yields \cup {None} :
             /\ p = One \/ Len(completed[p]) < MinCycles
             /\ Yield!RecordCycle(p, y)
    \/ /\ Spend(MaxRows)
       /\ \/ \E r \in Yield!Rows : Yield!SaveExpectation(r)
          \/ \E r \in expectations : Yield!DeleteExpectation(r)

ForecastStep ==
    \/ /\ UNCHANGED spent
       /\ \/ Forecast!Use \/ Forecast!Poll \/ Forecast!Forecast \/ Forecast!Publish
          \/ Forecast!Tick
    \/ Spend(MaxSwaps) /\ Forecast!Replace

\* Without mail: orders, uses and the scan that books replacements.
StockStep ==
    \/ /\ UNCHANGED spent
       /\ \/ Stock!ScanStep
          \/ \E d \in Desks : Stock!DeleteOrder(d)
          \/ \E d \in Desks, o \in Orders, p \in Products, q \in Quantities :
                Stock!InsertOrder(d, o, p, q, 0)
    \/ /\ Spend(MaxStockOps)
       /\ \/ \E d \in Desks : Stock!CheckCreate(d) \/ \E o \in Orders : Stock!CheckDelete(d, o)
          \/ \E o \in Orders : Stock!MarkDelivered(o)
          \/ \E c \in Cycles : Stock!DeleteUse(c) \/ \E o \in Orders : Stock!AssignUse(c, o)
          \/ \E p \in Products, e \in {"absent", "fits", "other"} : Stock!EditCatalogue(p, e)

\* With mail: orders are placed on the first day, for the day after next.
MailStep ==
    \/ /\ UNCHANGED spent
       /\ \/ Stock!ShippingJob \/ Stock!MailboxReturns \/ Stock!Tick
          \/ \E m \in Mails : Stock!Show(m)
          \/ /\ stockDay = 0
             /\ \E d \in Desks : \/ Stock!CheckCreate(d)
                                 \/ \E o \in Orders, p \in Products : Stock!InsertOrder(d, o, p, 1, 2)
    \/ /\ Spend(MaxMailOps)
       /\ \/ \E m \in Mails, p \in Products, e \in {0, 1, 3} : Stock!Send(m, p, e)
          \/ Stock!MailboxFails \/ Stock!NoticeStep
          \/ \E o \in Orders : Stock!MarkDelivered(o)

DeskStep ==
    \/ /\ UNCHANGED spent
       /\ \/ Desk!CheckMaintenanceDue \/ Desk!Tick
          \/ \E n \in 1..MaxPages : Desk!PrintPages(One, n)
    \/ /\ Spend(MaxDeskOps)
       /\ \/ \E s \in Schedules, i \in Intervals, t \in Thresholds, fit \in BOOLEAN,
                d \in Dates \cup {None} :
                \/ Desk!UpdateSchedule(s, i, t, fit, d)
                \/ \E p \in {One, None} : Desk!CreateSchedule(s, p, i, t, fit, d)
          \/ \E s \in Schedules : Desk!LogService(s) \/ Desk!DeleteSchedule(s)
          \/ Desk!DeleteRecord(One) \/ Desk!ChangeApproval(One)
          \/ \E d \in Dates \cup {None} : Desk!AddMaintenance(One, d)
          \/ \E n \in {0, NewPart} : Desk!ChangeLife(One, n)

\* One printer's notifications are followed in a behaviour.
CalendarStep ==
    \/ /\ UNCHANGED spent
       /\ \/ Calendar!Tick
          \/ \E p \in Clients, s \in Severities :
                (\A q \in Clients \ {p} : held[q] = None) /\ Calendar!Decide(p, s)
    \/ /\ Spend(MaxEdits)
       /\ \E w \in Windows : \/ Calendar!Toggle(w) \/ Calendar!Delete(w)
                             \/ w # 1 /\ \E r \in Ranges : Calendar!Create(w, r)

HealthStep ==
    \/ /\ UNCHANGED spent
       /\ \/ Health!Tick
          \/ \E w \in Workers : \/ Health!Start(w) \/ Health!EndWait(w)
                                \/ Health!BeginCycle(w) \/ Health!FinishJob(w, TRUE)
    \/ /\ Spend(MaxMishaps)
       /\ \/ Health!Migrate \/ Health!DropConnection
          \/ \E w \in Workers : Health!Crash(w) \/ Health!FinishJob(w, FALSE)

-----------------------------------------------------------------------------
\* What rests while a part moves.
Rest(moving) == /\ UNCHANGED focus
                /\ moving # "retain" => UNCHANGED retainVars
                /\ moving # "wear" => UNCHANGED wearVars
                /\ moving # "meters" /\ moving # "cards" => UNCHANGED invoiceVars
                /\ moving # "monthly" => UNCHANGED monthlyVars
                /\ moving # "yield" => UNCHANGED yieldVars
                /\ moving # "forecast" => UNCHANGED forecastVars
                /\ moving # "stock" /\ moving # "mail" => UNCHANGED stockVars
                /\ moving # "desk" => UNCHANGED deskVars
                /\ moving # "calendar" => UNCHANGED calendarVars
                /\ moving # "health" => UNCHANGED healthVars

DataNext ==
    /\ Rest(focus)
    /\ \/ focus = "retain" /\ RetainStep
       \/ focus = "wear" /\ WearStep
       \/ focus = "meters" /\ MeterStep
       \/ focus = "cards" /\ CardStep
       \/ focus = "monthly" /\ Monthly!Next /\ UNCHANGED spent
       \/ focus = "yield" /\ YieldStep
       \/ focus = "forecast" /\ ForecastStep
       \/ focus = "stock" /\ StockStep
       \/ focus = "mail" /\ MailStep
       \/ focus = "desk" /\ DeskStep
       \/ focus = "calendar" /\ CalendarStep
       \/ focus = "health" /\ HealthStep

MCSpec == MCInit /\ [][DataNext]_allVars

-----------------------------------------------------------------------------
\* Each property is looked at where its part moves.
Of(parts, property) == focus \in parts => property

Invoices == {"meters", "cards"}
Stocks   == {"stock", "mail"}

TypesOK ==
    /\ Of({"retain"}, Retain!TypeOK)   /\ Of({"calendar"}, Calendar!TypeOK)
    /\ Of(Invoices, Invoice!TypeOK)    /\ Of({"monthly"}, Monthly!TypeOK)
    /\ Of({"yield"}, Yield!TypeOK)     /\ Of(Stocks, Stock!TypeOK)
    /\ Of({"desk"}, Desk!TypeOK)       /\ Of({"health"}, Health!TypeOK)

\* What is added up is true.  A part's rows are those one pass over its readings
\* would write and hold no page that was not printed (supply_yield.py); a page costs
\* the rate of its band (billing.py); the fit gives whole days or none
\* (worker/jobs.py).
BooksTrue ==
    /\ Of({"wear"}, Wear!TypeOK /\ Wear!PassesDoNotMatter /\ Wear!PagesNotInvented)
    /\ Of({"cards"}, Invoice!PricedPerPage)
    /\ Of({"forecast"}, Forecast!TypeOK)

\* A rollup that stands for deleted readings counts them (retention.py), the months
\* of an invoice add up to what the meters climbed and bill no page twice
\* (billing.py), and each month is reported once (reports.py); no mail of a supplier is missed
\* (shipping_mailbox.py), no notification is held past the hours it was held for
\* (suppression.py), and a worker that is dead or failing does not read as
\* healthy (health.py).
NothingMissed ==
    /\ Of({"retain"}, Retain!DeletedIsCounted)
    /\ Of({"meters"}, Invoice!MonthsTile /\ Invoice!PagesBilledOnce)
    /\ Of({"monthly"}, Monthly!OneReportAMonth)
    /\ Of({"mail"}, Stock!MailImported)
    /\ Of({"calendar"}, Calendar!HeldToTheEnd)
    /\ Of({"health"}, Health!SickIsSeen)

\* Readings are not deleted early, no client is left without terms, and
\* notifications are held or dropped exactly inside the hours that say so.
TermsKept == Retain!WindowKept /\ Invoice!ActiveKept /\ Calendar!SilentExactlyInside

\* Stock is overdrawn by one race only (supply_inventory.py), and evidence
\* against a part (supply_yield.py) or a level closer to the end (reorder.py)
\* never makes the system say less.
SuppliesWatched == /\ Stock!OverdrawnOnlyByRace
                   /\ Yield!WorseNeverClears
                   /\ Forecast!OwnReadingsOnly /\ Forecast!WorseNeverDrops

\* A service clears what it was for, and a page-driven schedule comes back
\* (schedule_log_service, check_maintenance_due).
DeskKeepsWord == Desk!ServiceClears /\ Desk!PagesRecur
=============================================================================
