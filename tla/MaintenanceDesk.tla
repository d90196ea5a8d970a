--------------------------- MODULE MaintenanceDesk ---------------------------
(***************************************************************************)
(* Preventive maintenance (dashboard/manage.py, api/management.py,         *)
(* queries.py and worker/jobs.check_maintenance_due): schedules that come  *)
(* due on a date, at a page count or when a part wears out, the services   *)
(* logged against them, and the alerts a worker pass opens and resolves.   *)
(*                                                                         *)
(* A schedule may be tied to one printer or apply to all.  On a schedule   *)
(* with a page threshold the date alone is not enough: the worker looks at *)
(* the meter once the date has come.                                       *)
(***************************************************************************)
EXTENDS Naturals, FiniteSets

CONSTANTS Printers, Schedules,
          Intervals, Thresholds,  \* what the form may hold; 0: left empty
          Dates,                  \* days a form may name
          Worn,                   \* life at which a part is to be replaced
          NewPart,                \* life of a new one
          MaxDay, MaxPages,       \* bounds of the clock and of the meters
          None

VARIABLES today,
          meter,     \* Printers -> its page count, or None
          life,      \* Printers -> life left in its part
          approved,  \* printers monitored
          schedule,  \* Schedules -> a maintenance_schedules row, or None
          records,   \* printers with a service in their log
          alerts,    \* keys of the live maintenance alerts
          promise    \* history: Schedules -> what the last service said of it

vars == <<today, meter, life, approved, schedule, records, alerts, promise>>
fleetVars == <<today, meter, life, approved>>

Rows == [printer : Printers \cup {None}, interval : Intervals,
         threshold : Thresholds, part : BOOLEAN,
         due : Nat \cup {None},     \* next_due
         base : Nat \cup {None}]    \* last_serviced_page_count
Promises == [day : Nat, pages : Nat \cup {None}, dated : BOOLEAN]
Keys == [schedule : Schedules, printer : {None}, due : Nat]
          \cup [schedule : Schedules, printer : Printers, due : {None}]

\* What the constants must satisfy.
DeskAssumption ==
    /\ {Worn, NewPart, MaxDay, MaxPages} \subseteq Nat /\ Worn < NewPart
    /\ Dates \cup Intervals \cup Thresholds \subseteq Nat
    /\ None \notin Printers \cup Nat \cup Rows \cup Promises

Init ==
    /\ today = 0
    /\ meter \in [Printers -> {None, 0}] /\ life = [p \in Printers |-> NewPart]
    /\ approved = Printers
    /\ schedule = [s \in Schedules |-> None] /\ promise = [s \in Schedules |-> None]
    /\ records = {} /\ alerts = {}

Kept == {s \in Schedules : schedule[s] # None}

\* page_target
PageTarget(r) == (IF r.base = None THEN 0 ELSE r.base) + r.threshold

-----------------------------------------------------------------------------
(* The worker: check_maintenance_due *)

\* a printer that never reported a count does not hold the schedule back
GateOpen(r) ==
    r.threshold # 0 /\ r.printer # None /\ meter[r.printer] # None
        => meter[r.printer] >= PageTarget(r)

\* queries.maintenance_due and the page gate
DateDue(s) ==
    /\ schedule[s].due # None /\ schedule[s].due <= today
    /\ GateOpen(schedule[s])

\* _component_schedule_printers and their parts
PartDue(s, p) ==
    /\ schedule[s].part /\ p \in approved /\ schedule[s].printer \in {None, p}
    /\ life[p] <= Worn

Due ==
    {[schedule |-> s, printer |-> None, due |-> schedule[s].due] :
        s \in {x \in Kept : DateDue(x)}}
    \cup {k \in [schedule : Kept, printer : Printers, due : {None}] :
            PartDue(k.schedule, k.printer)}

\* a live alert is left alone, one whose key is no longer due is resolved
CheckMaintenanceDue ==
    /\ alerts' = Due
    /\ UNCHANGED <<fleetVars, schedule, records, promise>>

-----------------------------------------------------------------------------
(* The operators *)

\* an edit or a new row makes what was said of the schedule moot
CreateSchedule(s, printer, interval, threshold, part, due) ==
    /\ schedule[s] = None
    /\ schedule' = [schedule EXCEPT ![s] =
          [printer |-> printer, interval |-> interval, threshold |-> threshold,
           part |-> part, due |-> due, base |-> None]]
    /\ UNCHANGED <<fleetVars, records, alerts, promise>>

UpdateSchedule(s, interval, threshold, part, due) ==
    /\ s \in Kept
    /\ schedule' = [schedule EXCEPT ![s].interval = interval, ![s].threshold = threshold,
                                    ![s].part = part, ![s].due = due]
    /\ promise' = [promise EXCEPT ![s] = None]
    /\ UNCHANGED <<fleetVars, records, alerts>>

DeleteSchedule(s) ==
    /\ s \in Kept
    /\ schedule' = [schedule EXCEPT ![s] = None]
    /\ promise' = [promise EXCEPT ![s] = None]
    /\ UNCHANGED <<fleetVars, records, alerts>>

\* the page target can be moved: one printer, and it has reported a count
Anchored(r) == r.threshold # 0 /\ r.printer # None /\ meter[r.printer] # None

\* Mutant: the date moves with an interval and otherwise stays
NextDueStays(r) == IF r.interval # 0 THEN today + r.interval ELSE r.due
\* rolled by the interval; kept where the pages re-arm it; else cleared
NextDue(r) ==
    IF r.interval # 0 THEN today + r.interval
    ELSE IF Anchored(r) THEN r.due ELSE None

\* schedule_log_service: "Mark serviced"; promise is what the flash then says
LogService(s) ==
    LET r     == schedule[s]
        after == [r EXCEPT !.due = NextDue(r),
                           !.base = IF Anchored(r) THEN meter[r.printer] ELSE @]
    IN  /\ s \in Kept
        /\ schedule' = [schedule EXCEPT ![s] = after]
        /\ promise' = [promise EXCEPT ![s] =
              [day |-> today, dated |-> r.due # None,
               pages |-> IF Anchored(r) /\ r.interval = 0 THEN PageTarget(after) ELSE None]]
        /\ records' = records \cup ({r.printer} \ {None})
        /\ UNCHANGED <<fleetVars, alerts>>

\* the API's add_maintenance: every schedule of the printer is rolled
AddMaintenance(p, due) ==
    /\ records' = records \cup {p}
    /\ schedule' = [s \in Schedules |->
          IF s \notin Kept \/ schedule[s].printer # p THEN schedule[s]
          ELSE [schedule[s] EXCEPT !.due = IF due # None THEN due
                   ELSE IF schedule[s].interval # 0 THEN today + schedule[s].interval
                   ELSE @]]
    /\ promise' = [s \in Schedules |-> IF s \in Kept /\ schedule[s].printer = p
                                       THEN None ELSE promise[s]]
    /\ UNCHANGED <<fleetVars, alerts>>

\* record_delete leaves the schedules as they are
DeleteRecord(p) ==
    /\ p \in records /\ records' = records \ {p}
    /\ UNCHANGED <<fleetVars, schedule, alerts, promise>>

-----------------------------------------------------------------------------
(* The printers, as their readings and the approvals leave them *)

PrintPages(p, n) ==
    /\ n > IF meter[p] = None THEN 0 ELSE meter[p]
    /\ n <= MaxPages /\ meter' = [meter EXCEPT ![p] = n]
    /\ UNCHANGED <<today, life, approved, schedule, records, alerts, promise>>

ChangeLife(p, n) ==
    /\ n # life[p] /\ life' = [life EXCEPT ![p] = n]
    /\ UNCHANGED <<today, meter, approved, schedule, records, alerts, promise>>

ChangeApproval(p) ==
    /\ approved' = IF p \in approved THEN approved \ {p} ELSE approved \cup {p}
    /\ UNCHANGED <<today, meter, life, schedule, records, alerts, promise>>

Tick ==
    /\ today < MaxDay /\ today' = today + 1
    /\ UNCHANGED <<meter, life, approved, schedule, records, alerts, promise>>

-----------------------------------------------------------------------------
Next ==
    \/ CheckMaintenanceDue \/ Tick
    \/ \E s \in Schedules, i \in Intervals, t \in Thresholds, part \in BOOLEAN,
          d \in Dates \cup {None} :
             \/ UpdateSchedule(s, i, t, part, d)
             \/ \E p \in Printers \cup {None} : CreateSchedule(s, p, i, t, part, d)
    \/ \E s \in Schedules : LogService(s) \/ DeleteSchedule(s)
    \/ \E p \in Printers :
          \/ DeleteRecord(p) \/ ChangeApproval(p)
          \/ \E d \in Dates \cup {None} : AddMaintenance(p, d)
          \/ \E n \in 1..MaxPages : PrintPages(p, n)
          \/ \E n \in 0..NewPart : ChangeLife(p, n)

Spec == Init /\ [][Next]_vars

-----------------------------------------------------------------------------
TypeOK ==
    /\ today \in 0..MaxDay /\ approved \subseteq Printers /\ records \subseteq Printers
    /\ meter \in [Printers -> 0..MaxPages \cup {None}]
    /\ life \in [Printers -> 0..NewPart]
    /\ schedule \in [Schedules -> Rows \cup {None}]
    /\ promise \in [Schedules -> Promises \cup {None}]
    /\ alerts \subseteq Keys

OnDate(s, keys) == \E k \in keys : k.schedule = s /\ k.printer = None

Reached(s) == meter[schedule[s].printer] >= promise[s].pages

\* the service of today stands: not enough was printed since for another
JustServiced(s) ==
    /\ promise[s] # None /\ promise[s].day = today
    /\ promise[s].pages = None \/ ~Reached(s)

\* the service moved the page target, and the meter got there
PromiseIsUp(s) ==
    /\ promise[s] # None /\ promise[s].pages # None
    /\ schedule[s].due = None \/ schedule[s].due <= today
    /\ Reached(s)

(* "Mark serviced" clears the alert: the next pass of the worker the same    *)
(* day, before enough is printed for another service, finds nothing due by   *)
(* date or by pages, whatever the schedule recurs on.                        *)
ServiceClears ==
    [][CheckMaintenanceDue =>
          \A s \in Schedules : JustServiced(s) => ~OnDate(s, alerts')]_vars

(* A page-driven schedule that had come due by date recurs: once the meter   *)
(* reaches the target the operator was told, a pass opens its alert.         *)
PagesRecur ==
    [][CheckMaintenanceDue =>
          \A s \in Schedules :
             PromiseIsUp(s) /\ promise[s].dated => OnDate(s, alerts')]_vars

(* "this handler must leave at least one of them armed or state plainly that *)
(* none is" (schedule_log_service): a schedule said to be next due at so     *)
(* many pages is due when the meter gets there.                              *)
ToldComesDue ==
    [][CheckMaintenanceDue =>
          \A s \in Schedules : PromiseIsUp(s) => OnDate(s, alerts')]_vars
=============================================================================
