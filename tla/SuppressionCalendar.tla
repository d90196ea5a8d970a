------------------------- MODULE SuppressionCalendar -------------------------
(***************************************************************************)
(* The calendar behind NotificationDelivery's decision to send, hold or    *)
(* drop (central/suppression.py, and the windows screens of                *)
(* dashboard/manage.py): quiet hours that recur on the clock of the        *)
(* client, maintenance windows that are one range of absolute time.        *)
(*                                                                         *)
(* Time is counted from a midnight, in units of which a day has Day and a  *)
(* week 7 * Day; Zone gives a client's offset, which one daylight-saving   *)
(* change may move by jump.  A held notification is looked at again when   *)
(* its time has come, under the windows of then.                           *)
(***************************************************************************)
EXTENDS Integers, FiniteSets, FiniteSetsExt

CONSTANTS Clients, Printers, ClientOf, Windows,
          Day, WeekDays,         \* units in a day, days in a week
          Zone,                  \* Clients -> [base, at, jump]
          QuietHorizon, MaintenanceHorizon,
          Times,                 \* bound: the instants looked at
          Severities,            \* ranks
          Nothing,               \* a floor above every severity: total silence
          None

VARIABLES now,
          window,   \* Windows -> a suppression_windows row, or None
          held      \* Printers -> a notification held back, or None

vars == <<now, window, held>>

Scopes == [kind : {"global"}, of : {None}] \cup [kind : {"client"}, of : Clients]
             \cup [kind : {"printer"}, of : Printers]
Rule == [scope : Scopes, drop : BOOLEAN,           \* action: suppress or defer
         floor : Severities \cup {Nothing}, enabled : BOOLEAN]
Quiet == [start : 0..Day, end : 0..Day, days : SUBSET (0..WeekDays - 1)]
Span  == [from : Times, to : Times]
Rows == [quiet : Quiet, range : {None}, rule : Rule]
          \cup [quiet : {None}, range : Span, rule : Rule]
Decisions == {"dispatch", "defer", "suppress"}
\* A notification held back: since when, until when, and the windows it met
Holds == [severity : Severities, since : Times, until : Int, by : SUBSET Rows]

\* What the constants must satisfy.
CalendarAssumption ==
    /\ Day \in Nat \ {0} /\ WeekDays \in Nat \ {0} /\ \A s \in Severities : s < Nothing
    /\ 0 \in Times /\ Times \subseteq Int
    /\ ClientOf \in [Printers -> Clients]
    /\ Zone \in [Clients -> [base : Int, at : Int, jump : Int]]
    /\ \A c \in Clients : -Day <= Zone[c].jump /\ Zone[c].jump <= Day
    /\ QuietHorizon \in Nat \ {0} /\ MaintenanceHorizon \in Nat \ {0}
    /\ QuietHorizon <= MaintenanceHorizon
    /\ None \notin Int /\ None \notin Quiet /\ None \notin Span
    /\ None \notin Rows /\ None \notin Holds

Init == now = 0 /\ window = [w \in Windows |-> None] /\ held = [p \in Printers |-> None]

-----------------------------------------------------------------------------
(* The clock of a client *)

Local(c, t) == t + Zone[c].base + IF t >= Zone[c].at THEN Zone[c].jump ELSE 0

\* astimezone of a local time: of two the first, in a gap the offset before it
ToUtc(c, local) ==
    LET before == local - Zone[c].base
        after  == before - Zone[c].jump
    IN  IF before < Zone[c].at \/ after < Zone[c].at THEN before ELSE after

\* _weekday_allowed: an empty mask is every day
WeekdayAllowed(q, day) == q.days = {} \/ day % WeekDays \in q.days

-----------------------------------------------------------------------------
(* evaluate *)

\* _quiet_hours_end: the instant it ends, or None: it is not on.  An end at or
\* before the start wraps, and the mask gates the day it started.
QuietEnd(q, c, t) ==
    LET today == Local(c, t) \div Day  at == Local(c, t) % Day  start == q.start % Day IN
    IF start < q.end
    THEN IF start <= at /\ at < q.end /\ WeekdayAllowed(q, today)
         THEN ToUtc(c, today * Day + q.end) ELSE None
    ELSE IF at >= start
    THEN IF WeekdayAllowed(q, today) THEN ToUtc(c, (today + 1) * Day + q.end) ELSE None
    ELSE IF at < q.end /\ WeekdayAllowed(q, today - 1)
    THEN ToUtc(c, today * Day + q.end) ELSE None

\* _maintenance_end
MaintenanceEnd(r, t) == IF r.from <= t /\ t < r.to THEN r.to ELSE None

EndOf(row, c, t) == IF row.quiet # None THEN QuietEnd(row.quiet, c, t)
                    ELSE MaintenanceEnd(row.range, t)

\* _scope_matches
Covers(scope, p) == scope.kind = "global" \/ scope.of \in {p, ClientOf[p]}

\* active_windows, less those the severity breaks through
Candidates(p, severity, t) ==
    {w \in Windows : /\ window[w] # None /\ window[w].rule.enabled
                     /\ Covers(window[w].rule.scope, p)
                     /\ EndOf(window[w], ClientOf[p], t) # None
                     /\ severity < window[w].rule.floor}

Horizon(row) == IF row.quiet # None THEN QuietHorizon ELSE MaintenanceHorizon

\* always ahead of now, and no further than the horizon
Bounded(end, t, horizon) == IF end <= t THEN t + 1
                            ELSE IF end > t + horizon THEN t + horizon ELSE end

Evaluate(p, severity, t) ==
    LET on     == Candidates(p, severity, t)
        end(w) == EndOf(window[w], ClientOf[p], t)
        last   == {w \in on : \A v \in on : end(v) <= end(w)}
    IN  IF on = {} THEN {[say |-> "dispatch", until |-> None]}
        ELSE IF \E w \in on : window[w].rule.drop
        THEN {[say |-> "suppress", until |-> None]}
        ELSE {[say |-> "defer", until |-> Bounded(end(w), t, Horizon(window[w]))] : w \in last}

-----------------------------------------------------------------------------
(* The operators *)

\* suppression_create refuses a range that does not end after it starts
Create(w, row) ==
    /\ window[w] = None /\ row.rule.enabled
    /\ row.range # None => row.range.from < row.range.to
    /\ window' = [window EXCEPT ![w] = row] /\ UNCHANGED <<now, held>>

Toggle(w) ==
    /\ window[w] # None
    /\ window' = [window EXCEPT ![w].rule.enabled = ~@] /\ UNCHANGED <<now, held>>

Delete(w) ==
    /\ window[w] # None
    /\ window' = [window EXCEPT ![w] = None] /\ UNCHANGED <<now, held>>

-----------------------------------------------------------------------------
(* The notifications *)

\* a first notification, or one whose wait is over
Waiting(p) == held[p] # None /\ now < held[p].until

Decide(p, severity) ==
    /\ IF held[p] = None THEN severity \in Severities ELSE severity = held[p].severity
    /\ ~Waiting(p)
    /\ \E d \in Evaluate(p, severity, now) :
          held' = [held EXCEPT ![p] =
             IF d.say = "defer"
             THEN [severity |-> severity, since |-> now, until |-> d.until,
                   by |-> {window[w] : w \in Candidates(p, severity, now)}]
             ELSE None]
    /\ UNCHANGED <<now, window>>

Tick ==
    /\ now + 1 \in Times /\ now' = now + 1 /\ UNCHANGED <<window, held>>

Next ==
    \/ Tick
    \/ \E w \in Windows : Toggle(w) \/ Delete(w) \/ \E row \in Rows : Create(w, row)
    \/ \E p \in Printers, s \in Severities : Decide(p, s)

Spec == Init /\ [][Next]_vars

-----------------------------------------------------------------------------
TypeOK ==
    /\ now \in Times
    /\ window \in [Windows -> Rows \cup {None}]
    /\ held \in [Printers -> Holds \cup {None}]

\* what the windows are for: the hours that begin on a day, the one before it
\* or the one after it, where the mask has the day they begin
Occurrences(q, day) ==
    {[from |-> d * Day + (q.start % Day),
      to |-> (IF q.end > q.start % Day THEN d ELSE d + 1) * Day + q.end] :
        d \in {e \in (day - 1)..(day + 1) : WeekdayAllowed(q, e)}}

Around(q, c, t) == Occurrences(q, Local(c, t) \div Day)
Inside(q, c, t) == \E o \in Around(q, c, t) : o.from <= Local(c, t) /\ Local(c, t) < o.to
Open(row, c, t) == IF row.quiet # None THEN Inside(row.quiet, c, t)
                   ELSE row.range.from <= t /\ t < row.range.to

\* the last instant at which the hours, or the range, that hold t still do
LastOpen(row, c, t) ==
    IF row.range # None THEN row.range.to - 1
    ELSE Max(UNION {{u \in t..(t + 2 * Day) : Local(c, u) < o.to} :
                       o \in {x \in Around(row.quiet, c, t) :
                                 x.from <= Local(c, t) /\ Local(c, t) < x.to}})

Slack(c) == IF Zone[c].jump < 0 THEN -Zone[c].jump ELSE Zone[c].jump

\* the windows that are to hold a notification, by their hours
OnBy(p, s) == {w \in Windows : /\ window[w] # None /\ window[w].rule.enabled
                               /\ Covers(window[w].rule.scope, p)
                               /\ s < window[w].rule.floor
                               /\ Open(window[w], ClientOf[p], now)}

DecidedByHours ==
    \A p \in Printers, s \in Severities :
       Decide(p, s) => (held'[p] # None <=> /\ OnBy(p, s) # {}
                                            /\ \A w \in OnBy(p, s) : ~window[w].rule.drop)

(* A notification goes out exactly when no enabled window of its scope, that *)
(* its severity does not break through, is on by the client's own clock,     *)
(* past midnight and across the weekday mask too.                            *)
SilentExactlyInside == [][DecidedByHours]_vars

LastHeld(h, c) == Max({LastOpen(row, c, h.since) : row \in h.by})
Furthest(h)    == Max({Horizon(row) : row \in h.by})

(* What is held is held to the end of the windows that held it, and no       *)
(* longer: the wait is ahead, within the horizon, and off by at most the     *)
(* daylight-saving hour ("can be up to an hour off").                        *)
HeldToTheEnd ==
    \A p \in Printers : held[p] # None =>
       LET h     == held[p]
           slack == Slack(ClientOf[p])
           last  == LastHeld(h, ClientOf[p])
       IN  /\ h.since < h.until /\ h.until <= h.since + Furthest(h)
           /\ h.until <= last + 1 + slack
           /\ last + 1 - slack <= h.until \/ h.until >= h.since + QuietHorizon
=============================================================================
