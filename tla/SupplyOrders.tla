---------------------------- MODULE SupplyOrders ----------------------------
(***************************************************************************)
(* The order ledger, the derived stock of one location and the shipping    *)
(* mailbox (central/supply_orders.py, supply_inventory.py,                 *)
(* supply_compatibility.py, shipping_mailbox.py and the /supplies handlers *)
(* of dashboard/routes.py), for one supply slot at one site.               *)
(*                                                                         *)
(* Staff handlers run concurrently with each other and with the worker.    *)
(* Creating and deleting an order check, then write, without a lock; an    *)
(* assignment holds both rows (FOR UPDATE) and is one step.  The worker's  *)
(* scan of a printer is one transaction: it matches each closed cartridge  *)
(* cycle against the stock it reads, then inserts the use, whose foreign   *)
(* key locks the order against an assignment or a delete until the commit. *)
(*                                                                         *)
(* Time is a counter of days.  `since` of the mailbox poll reaches Overlap *)
(* days behind the marker (five minutes in the code).                      *)
(***************************************************************************)
EXTENDS Integers, FiniteSets

CONSTANTS Orders,      \* ids of order rows
          Cycles,      \* cartridge cycles a scan may close
          Mails,       \* shipping mails of the supplier
          Products,    \* product identities (manufacturer and SKU)
          Desks,       \* staff request handlers
          Quantities,  \* order quantities
          Lookback,    \* shipping.initial_lookback_days
          Overlap,     \* how far a poll reaches behind its marker
          Lag,         \* days a mail may take to show in the mailbox
          Cap,         \* _MAX_MESSAGES, newest first
          MaxNow,      \* bound on the clock
          None

\* What the constants must satisfy.
SupplyAssumption ==
    /\ Quantities \subseteq Nat \ {0} /\ IsFiniteSet(Cycles)
    /\ {Overlap, Lag, Cap, MaxNow} \subseteq Nat /\ Lookback \in 1..90
    /\ None \notin Orders \cup Cycles \cup Products \cup Nat

VARIABLES order,      \* Orders -> row, or state "none"
          usage,      \* Cycles -> row, or status "none"
          worker,     \* the scan's transaction
          desk,       \* Desks -> what a handler has checked
          catalogue,  \* Products -> "absent", "fits" or "other"
          mail,       \* Mails -> what the supplier sent
          notice,     \* Mails -> shipping_notices row
          marker,     \* shipping.last_poll_at, or None
          reach,      \* history: the day the first successful poll went back to
          reachable,  \* Microsoft Graph answers
          now

vars == <<order, usage, worker, desk, catalogue, mail, notice, marker,
          reach, reachable, now>>
stockVars == <<usage, worker, catalogue>>
mailVars  == <<mail, notice, marker, reach, reachable>>

NoOrder  == [state |-> "none", product |-> None, quantity |-> 0, eta |-> 0]
NoUse    == [status |-> "none", order |-> None]
NoNotice == [state |-> "none", order |-> None]
NoMail   == [at |-> None, sku |-> None, eta |-> 0, shown |-> FALSE]
Idle     == [todo |-> {}, cycle |-> None, chosen |-> None, status |-> "none",
             added |-> [c \in Cycles |-> NoUse]]

OrderRows == [state : {"none", "ordered", "delivered", "deleted"},
              product : Products \cup {None}, quantity : Quantities \cup {0},
              eta : 0..MaxNow]
Statuses == {"none", "auto_assigned", "manually_assigned", "ambiguous", "no_stock", "deleted"}
UseRows == [status : Statuses, order : Orders \cup {None}]
Scans == [todo : SUBSET Cycles, cycle : Cycles \cup {None}, chosen : Orders \cup {None},
          status : Statuses, added : [Cycles -> UseRows]]
NoticeRows == [state : {"none", "open", "linked", "discarded"},
               order : Orders \cup {None}]
MailRows == [at : 0..MaxNow \cup {None}, sku : Products \cup {None},
             eta : 0..MaxNow, shown : BOOLEAN]

Init ==
    /\ order = [o \in Orders |-> NoOrder]
    /\ usage = [c \in Cycles |-> NoUse]
    /\ worker = Idle
    /\ desk = [d \in Desks |-> [op |-> "idle", order |-> None]]
    /\ catalogue \in [Products -> {"absent", "fits"}]
    /\ mail = [m \in Mails |-> NoMail]
    /\ notice = [m \in Mails |-> NoNotice]
    /\ marker = None /\ reach = None
    /\ reachable = TRUE
    /\ now = 0

(* The catalogue's word on the product if it has the SKU, else the row's own *)
(* model and slot, which are the ones it was ordered for.                    *)
Fits(o) == catalogue[order[o].product] # "other"

Active == {o \in Orders : order[o].state = "ordered"}
UsesOf(rows, o) == {c \in Cycles : rows[c].order = o}

(* on_hand > 0, as a transaction that sees these use rows computes it *)
Stocked(rows) ==
    {o \in Orders : /\ order[o].state = "delivered"
                    /\ Fits(o)
                    /\ Cardinality(UsesOf(rows, o)) < order[o].quantity}

(* committed uses overlaid with the scan's own *)
Seen == [c \in Cycles |-> IF worker.added[c].status # "none"
                          THEN worker.added[c] ELSE usage[c]]
Locked(o) == \E c \in Cycles : worker.added[c].order = o

-----------------------------------------------------------------------------
(* Staff: create, deliver and delete orders *)

\* supply_order_create found no active order that fits the slot
CheckCreate(d) ==
    /\ desk[d].op = "idle"
    /\ \A o \in Active : ~Fits(o)
    /\ desk' = [desk EXCEPT ![d] = [op |-> "create", order |-> None]]
    /\ UNCHANGED <<order, stockVars, mailVars, now>>

InsertOrder(d, o, p, q, eta) ==
    /\ desk[d].op = "create"
    /\ order[o].state = "none"
    /\ catalogue[p] # "other"
    /\ order' = [order EXCEPT ![o] = [state |-> "ordered", product |-> p,
                                      quantity |-> q, eta |-> eta]]
    /\ desk' = [desk EXCEPT ![d] = [op |-> "idle", order |-> None]]
    /\ UNCHANGED <<stockVars, mailVars, now>>

\* a second click changes only delivered_at, which is left out
MarkDelivered(o) ==
    /\ order[o].state = "ordered"
    /\ order' = [order EXCEPT ![o].state = "delivered"]
    /\ UNCHANGED <<stockVars, desk, mailVars, now>>

\* supply_order_delete found no use attached
CheckDelete(d, o) ==
    /\ desk[d].op = "idle"
    /\ order[o].state \in {"ordered", "delivered"}
    /\ UsesOf(usage, o) = {}
    /\ desk' = [desk EXCEPT ![d] = [op |-> "delete", order |-> o]]
    /\ UNCHANGED <<order, stockVars, mailVars, now>>

\* the delete waits for the scan that refers to the row, then the foreign
\* keys of uses and notices are set NULL; another delete may have been first
DeleteOrder(d) ==
    LET o == desk[d].order IN
    /\ desk[d].op = "delete"
    /\ ~Locked(o)
    /\ order' = [order EXCEPT ![o] = [NoOrder EXCEPT !.state = "deleted"]]
    /\ usage' = [c \in Cycles |-> IF usage[c].order = o
                    THEN [usage[c] EXCEPT !.order = None] ELSE usage[c]]
    /\ notice' = [m \in Mails |-> IF notice[m].order = o
                    THEN [state |-> "open", order |-> None] ELSE notice[m]]
    /\ desk' = [desk EXCEPT ![d] = [op |-> "idle", order |-> None]]
    /\ UNCHANGED <<worker, catalogue, mail, marker, reach, reachable, now>>

\* create_product, update_product and delete_product
EditCatalogue(p, entry) ==
    /\ entry \in {"absent", "fits", "other"} \ {catalogue[p]}
    /\ catalogue' = [catalogue EXCEPT ![p] = entry]
    /\ UNCHANGED <<order, usage, worker, desk, mailVars, now>>

-----------------------------------------------------------------------------
(* The worker: one transaction per printer, one use per closed cycle *)

StartScan(closed) ==
    /\ worker = Idle
    /\ closed # {} /\ \A c \in closed : usage[c].status = "none"
    /\ worker' = [Idle EXCEPT !.todo = closed]
    /\ UNCHANGED <<order, usage, desk, catalogue, mailVars, now>>

Verdict(candidates) ==
    IF candidates = {} THEN "no_stock"
    ELSE IF Cardinality({order[o].product : o \in candidates}) = 1
         THEN "auto_assigned" ELSE "ambiguous"

Visible == Seen

\* the code takes the order delivered first; which one does not matter here
MatchCycle(c) ==
    LET candidates == Stocked(Visible)
        verdict    == Verdict(candidates)
    IN  /\ worker.cycle = None /\ c \in worker.todo
        /\ \E o \in Orders \cup {None} :
              /\ IF verdict = "auto_assigned" THEN o \in candidates ELSE o = None
              /\ worker' = [worker EXCEPT !.cycle = c, !.chosen = o,
                                          !.status = verdict]
        /\ UNCHANGED <<order, usage, desk, catalogue, mailVars, now>>

\* db.flush(): the foreign key fails if the order has gone, and the printer's
\* transaction is rolled back, its cycles to be found again by the next scan
InsertUse ==
    LET gone == worker.chosen # None /\ order[worker.chosen].state = "deleted"
    IN  /\ worker.cycle # None
        /\ worker' =
             IF gone THEN Idle
             ELSE [worker EXCEPT
                     !.added[worker.cycle] = [status |-> worker.status,
                                              order |-> worker.chosen],
                     !.todo = @ \ {worker.cycle}, !.cycle = None,
                     !.chosen = None, !.status = "none"]
        /\ UNCHANGED <<order, usage, desk, catalogue, mailVars, now>>

CommitScan ==
    /\ worker # Idle /\ worker.todo = {} /\ worker.cycle = None
    /\ usage' = Seen
    /\ worker' = Idle
    /\ UNCHANGED <<order, desk, catalogue, mailVars, now>>

\* the scan of this printer raises, or the worker dies
RollBack ==
    /\ worker # Idle
    /\ worker' = Idle
    /\ UNCHANGED <<order, usage, desk, catalogue, mailVars, now>>

-----------------------------------------------------------------------------
(* Staff: resolve uses *)

Remaining(o) == Cardinality(UsesOf(usage, o)) < order[o].quantity

AssignUse(c, o) ==
    /\ usage[c].status # "none" /\ usage[c].status # "deleted"
    /\ usage[c].order = None
    /\ order[o].state = "delivered" /\ Fits(o) /\ Remaining(o)
    /\ ~Locked(o)
    /\ usage' = [usage EXCEPT ![c] = [status |-> "manually_assigned",
                                      order |-> o]]
    /\ UNCHANGED <<order, worker, desk, catalogue, mailVars, now>>

DeleteUse(c) ==
    /\ usage[c].status # "none" /\ usage[c].status # "deleted"
    /\ usage[c].order = None
    /\ usage' = [usage EXCEPT ![c].status = "deleted"]
    /\ UNCHANGED <<order, worker, desk, catalogue, mailVars, now>>

-----------------------------------------------------------------------------
(* The shipping mailbox *)

\* a mail is received now, and is listed by the mailbox up to Lag days later
Send(m, sku, eta) ==
    /\ mail[m].at = None
    /\ mail' = [mail EXCEPT ![m] = [at |-> now, sku |-> sku, eta |-> eta,
                                    shown |-> FALSE]]
    /\ UNCHANGED <<order, stockVars, desk, notice, marker, reach, reachable, now>>

Show(m) ==
    /\ mail[m].at # None /\ ~mail[m].shown
    /\ mail' = [mail EXCEPT ![m].shown = TRUE]
    /\ UNCHANGED <<order, stockVars, desk, notice, marker, reach, reachable, now>>

MailboxFails ==
    /\ reachable /\ reachable' = FALSE
    /\ UNCHANGED <<order, stockVars, desk, mail, notice, marker, reach, now>>

MailboxReturns ==
    /\ ~reachable /\ reachable' = TRUE
    /\ UNCHANGED <<order, stockVars, desk, mail, notice, marker, reach, now>>

\* the first poll looks back Lookback days, however old what waits there is
Since == LET back == IF marker = None THEN now - Lookback ELSE marker - Overlap
         IN  IF back > 0 THEN back ELSE 0

InWindow == {m \in Mails : mail[m].shown /\ mail[m].at >= Since}
\* the newest Cap messages of the window
Fetched == {S \in SUBSET InWindow :
    /\ Cardinality(S) = IF Cardinality(InWindow) < Cap
                        THEN Cardinality(InWindow) ELSE Cap
    /\ \A m \in S, n \in InWindow \ S : mail[m].at >= mail[n].at}

(* _matching_order: one active order of the SKU, or none *)
MatchOf(m) ==
    LET same == {o \in Active : order[o].product = mail[m].sku}
    IN  IF Cardinality(same) = 1 THEN CHOOSE o \in same : TRUE ELSE None

Imported(batch) ==
    [m \in Mails |->
        IF m \in batch /\ notice[m].state \in {"none", "discarded"}
        THEN [state |-> IF MatchOf(m) = None THEN "open" ELSE "linked",
              order |-> MatchOf(m)]
        ELSE notice[m]]

\* the newest of the batch is folded first, so the oldest mail's ETA stands
EtaAfter(o, new) ==
    LET told == {m \in Mails : new[m].order = o /\ notice[m] # new[m]
                               /\ mail[m].eta > 0}
    IN  IF told = {} THEN order[o].eta
        ELSE mail[CHOOSE m \in told :
                    \A n \in told : mail[m].at <= mail[n].at].eta

\* assume_due_delivered goes by the ETA of any linked notice
Due(o, rows) == \E m \in Mails : /\ rows[m].order = o
                                 /\ mail[m].eta > 0 /\ mail[m].eta <= now

Assumed(rows, etas) ==
    [o \in Orders |->
        IF order[o].state # "ordered" THEN order[o]
        ELSE [order[o] EXCEPT !.eta = etas[o],
                 !.state = IF Due(o, rows) THEN "delivered" ELSE @]]

PollDue == IF marker = None THEN TRUE ELSE marker < now

\* sync_shipping_mailbox: poll when the interval has passed, then assume due
\* orders delivered; a poll that raises leaves the rest of the job undone
ShippingJob ==
    /\ worker = Idle
    /\ \/ /\ PollDue /\ reachable
          /\ \E batch \in Fetched :
                LET new == Imported(batch) IN
                /\ notice' = new
                /\ order' = Assumed(new, [o \in Orders |-> EtaAfter(o, new)])
          /\ marker' = now
          /\ reach' = IF marker = None THEN Since ELSE reach
       \/ /\ ~PollDue
          /\ order' = Assumed(notice, [o \in Orders |-> order[o].eta])
          /\ UNCHANGED <<notice, marker, reach>>
    /\ UNCHANGED <<stockVars, desk, mail, reachable, now>>

AssignNotice(m, o) ==
    /\ notice[m].state = "open"
    /\ order[o].state = "ordered"
    /\ notice' = [notice EXCEPT ![m] = [state |-> "linked", order |-> o]]
    /\ order' = [order EXCEPT ![o].eta = IF mail[m].eta > 0
                                         THEN mail[m].eta ELSE @]
    /\ UNCHANGED <<stockVars, desk, mail, marker, reach, reachable, now>>

\* the row is deleted; "discarded" remembers only that there was one
DeleteNotice(m) ==
    /\ notice[m].state = "open"
    /\ notice' = [notice EXCEPT ![m].state = "discarded"]
    /\ UNCHANGED <<order, stockVars, desk, mail, marker, reach, reachable, now>>

Tick ==
    /\ now < MaxNow
    /\ \A m \in Mails : mail[m].at # None /\ ~mail[m].shown
                            => now < mail[m].at + Lag
    /\ now' = now + 1
    /\ UNCHANGED <<order, stockVars, desk, mailVars>>

-----------------------------------------------------------------------------
StaffStep ==
    \/ \E d \in Desks : CheckCreate(d) \/ DeleteOrder(d)
    \/ \E d \in Desks, o \in Orders, p \in Products, q \in Quantities,
          eta \in 0..MaxNow : InsertOrder(d, o, p, q, eta)
    \/ \E o \in Orders : MarkDelivered(o)
    \/ \E d \in Desks, o \in Orders : CheckDelete(d, o)
    \/ \E c \in Cycles, o \in Orders : AssignUse(c, o)
    \/ \E c \in Cycles : DeleteUse(c)
    \/ \E p \in Products, e \in {"absent", "fits", "other"} : EditCatalogue(p, e)

ScanStep ==
    \/ \E closed \in SUBSET Cycles : StartScan(closed)
    \/ \E c \in Cycles : MatchCycle(c)
    \/ InsertUse \/ CommitScan \/ RollBack

NoticeStep == \/ \E m \in Mails, o \in Orders : AssignNotice(m, o)
              \/ \E m \in Mails : DeleteNotice(m)

MailStep ==
    \/ \E m \in Mails, sku \in Products, eta \in 0..MaxNow : Send(m, sku, eta)
    \/ \E m \in Mails : Show(m)
    \/ MailboxFails

Next == StaffStep \/ ScanStep \/ NoticeStep \/ MailStep
          \/ ShippingJob \/ MailboxReturns \/ Tick

Spec == Init /\ [][Next]_vars

-----------------------------------------------------------------------------
TypeOK ==
    /\ order \in [Orders -> OrderRows]
    /\ usage \in [Cycles -> UseRows]
    /\ worker \in Scans
    /\ desk \in [Desks -> [op : {"idle", "create", "delete"},
                           order : Orders \cup {None}]]
    /\ catalogue \in [Products -> {"absent", "fits", "other"}]
    /\ mail \in [Mails -> MailRows]
    /\ notice \in [Mails -> NoticeRows]
    /\ marker \in 0..MaxNow \cup {None} /\ reach \in 0..MaxNow \cup {None}
    /\ reachable \in BOOLEAN /\ now \in 0..MaxNow

Overdrawn(o) == Cardinality(UsesOf(usage, o)) > order[o].quantity

(* reconcile_replacements and assign_usage each refuse stock that is used    *)
(* up, but only the second holds the order row while it looks.  Whatever the *)
(* interleaving, a step that overdraws an order is the commit of a scan, and *)
(* it does so only because an assignment went in while that scan was open:   *)
(* the uses the scan itself adds never exceed the order's quantity.          *)
OverdrawnOnlyByRace ==
    [][\A o \in Orders :
          ~Overdrawn(o) /\ Overdrawn(o)' /\ order'[o] = order[o] =>
              /\ worker # Idle /\ worker' = Idle
              /\ \E c \in UsesOf(usage, o) : usage[c].status = "manually_assigned"
              /\ Cardinality(UsesOf(worker.added, o)) <= order[o].quantity]_vars

(* Once a poll has moved the marker to or past a mail's day plus the time it *)
(* takes to be listed, the mail has been imported, unless some window held   *)
(* more than Cap (Cap is at least the number of mails in the checked runs)   *)
(* or the mail was older than Lookback when the first poll got through:      *)
(* those are passed over for good.                                           *)
MailImported ==
    marker # None => \A m \in Mails :
        mail[m].shown /\ mail[m].at >= reach /\ mail[m].at + Lag < marker
            => notice[m].state # "none"
=============================================================================
