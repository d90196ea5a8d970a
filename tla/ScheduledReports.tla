-------------------------- MODULE ScheduledReports --------------------------
(***************************************************************************)
(* The monthly billing report (central/reports.py): the worker's job asks  *)
(* every cycle whether today is the day, claims the month by inserting a   *)
(* report_runs row whose key is unique, sends, and releases the claim if   *)
(* the delivery failed.  The weekly report takes the same steps under a    *)
(* key of its own, the date.                                               *)
(*                                                                         *)
(* Several workers may run the job at once, as they do where the leader    *)
(* lock is a no-op.  Days are numbered through the months.                 *)
(***************************************************************************)
EXTENDS Integers, Sequences, FiniteSets

CONSTANTS Workers,
          Lengths,  \* a sequence: how many days each month has
          Wanted,   \* reports.monthly_day
          None

VARIABLES today,   \* [month, day, due]: due once the send hour has come
          mail,    \* the mail server answers
          claimed, \* months with a report_runs row
          job,     \* Workers -> the month being sent, or None
          sent,    \* month -> reports delivered
          failed,  \* history: months in which a delivery failed
          missed   \* history: months with a day on which no check completed

vars == <<today, mail, claimed, job, sent, failed, missed>>

Months == DOMAIN Lengths
Sendings == [month : Months, step : {"claim", "send", "release"}]

\* What the constants must satisfy.
ReportAssumption ==
    Wanted \in Nat \ {0} /\ Lengths \in Seq(1..31) \ {<<>>} /\ None \notin Sendings

Init ==
    /\ today = [month |-> 1, day |-> 1, due |-> FALSE, checked |-> FALSE]
    /\ mail = TRUE
    /\ claimed = {}
    /\ job = [w \in Workers |-> None]
    /\ sent = [n \in Months |-> 0]
    /\ failed = {} /\ missed = {}

\* clamp_day_of_month
SendDay(month) == IF Wanted < Lengths[month] THEN Wanted ELSE Lengths[month]

Due == today.due /\ today.day = SendDay(today.month)

\* _has_run
CheckIdle(w) ==
    /\ job[w] = None /\ today.due /\ ~today.checked
    /\ ~Due \/ today.month \in claimed
    /\ today' = [today EXCEPT !.checked = TRUE]
    /\ UNCHANGED <<mail, claimed, job, sent, failed, missed>>

CheckDue(w) ==
    /\ job[w] = None /\ Due /\ today.month \notin claimed
    /\ job' = [job EXCEPT ![w] = [month |-> today.month, step |-> "claim"]]
    /\ UNCHANGED <<today, mail, claimed, sent, failed, missed>>

Won(month) == month \notin claimed

\* _claim_report_run commits the row, or loses to the worker that did
Claim(w) ==
    /\ job[w] # None /\ job[w].step = "claim"
    /\ IF Won(job[w].month)
       THEN /\ claimed' = claimed \cup {job[w].month}
            /\ job' = [job EXCEPT ![w].step = "send"]
       ELSE /\ job' = [job EXCEPT ![w] = None]
            /\ UNCHANGED claimed
    /\ UNCHANGED <<today, mail, sent, failed, missed>>

Deliver(w) ==
    /\ job[w] # None /\ job[w].step = "send"
    /\ IF mail
       THEN /\ sent' = [sent EXCEPT ![job[w].month] = @ + 1]
            /\ job' = [job EXCEPT ![w] = None]
            /\ UNCHANGED <<failed>>
       ELSE /\ failed' = failed \cup {job[w].month}
            /\ job' = [job EXCEPT ![w].step = "release"]
            /\ UNCHANGED sent
    /\ UNCHANGED <<today, mail, claimed, missed>>

\* _release_report_run
Release(w) ==
    /\ job[w] # None /\ job[w].step = "release"
    /\ claimed' = claimed \ {job[w].month}
    /\ job' = [job EXCEPT ![w] = None]
    /\ UNCHANGED <<today, mail, sent, failed, missed>>

\* the worker dies, or building the report raises: a committed claim stays
Die(w) ==
    /\ job[w] # None
    /\ missed' = missed \cup {job[w].month}
    /\ job' = [job EXCEPT ![w] = None]
    /\ UNCHANGED <<today, mail, claimed, sent, failed>>

MailFails   == mail /\ mail' = FALSE /\ UNCHANGED <<today, claimed, job, sent, failed, missed>>
MailReturns == ~mail /\ mail' = TRUE /\ UNCHANGED <<today, claimed, job, sent, failed, missed>>

SendHour ==
    /\ ~today.due /\ today' = [today EXCEPT !.due = TRUE]
    /\ UNCHANGED <<mail, claimed, job, sent, failed, missed>>

LastDay == today.day = Lengths[today.month]
Midnight ==
    /\ ~(LastDay /\ today.month = Cardinality(Months))
    /\ today' = [month |-> IF LastDay THEN today.month + 1 ELSE today.month,
                 day |-> IF LastDay THEN 1 ELSE today.day + 1,
                 due |-> FALSE, checked |-> FALSE]
    /\ missed' = IF today.checked THEN missed ELSE missed \cup {today.month}
    /\ UNCHANGED <<mail, claimed, job, sent, failed>>

Next ==
    \/ \E w \in Workers : CheckIdle(w) \/ CheckDue(w) \/ Claim(w) \/ Deliver(w)
                            \/ Release(w) \/ Die(w)
    \/ MailFails \/ MailReturns \/ SendHour \/ Midnight

Spec == Init /\ [][Next]_vars

-----------------------------------------------------------------------------
TypeOK ==
    /\ today \in [month : Months, day : 1..31, due : BOOLEAN, checked : BOOLEAN]
    /\ claimed \subseteq Months /\ failed \subseteq Months /\ missed \subseteq Months
    /\ sent \in [Months -> Nat] /\ mail \in BOOLEAN
    /\ job \in [Workers -> Sendings \cup {None}]

Over(month) == month < today.month

(* Every month is billed by one report: never two, whichever workers race or *)
(* die, and none is skipped for being short when a check completed on each   *)
(* of its days and no delivery failed.                                       *)
OneReportAMonth ==
    \A n \in Months :
        /\ sent[n] <= 1
        /\ Over(n) /\ n \notin missed \cup failed =>
              sent[n] = 1 \/ \E w \in Workers : job[w] # None /\ job[w].month = n

(* A report whose delivery failed is sent later: "a claim whose delivery     *)
(* then fails is released so the next cycle retries (no period silently      *)
(* dropped)".                                                                *)
NoPeriodDropped ==
    \A n \in failed :
        Over(n) => sent[n] = 1 \/ \E w \in Workers : job[w] # None
=============================================================================
