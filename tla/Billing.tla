------------------------------- MODULE Billing -------------------------------
(***************************************************************************)
(* Cost-per-page billing of one client (central/billing.py, the meter      *)
(* arithmetic of central/queries.py, central/money.py and the rate-card    *)
(* handlers of dashboard/billing.py).  An invoice is computed on demand    *)
(* from the readings of one printer and the client's active rate card.     *)
(*                                                                         *)
(* A reading carries the meters the printer chose to report; a poll may    *)
(* bring only some of them, and firmware may reset them all.  Retention    *)
(* may delete the readings of months that have closed.  Amounts are in     *)
(* tenths of the smallest coin, so that rounding has something to do.      *)
(***************************************************************************)
EXTENDS Integers, FiniteSets, FiniteSetsExt, SequencesExt

CONSTANTS Cards,     \* ids of rate cards
          Admins,    \* request handlers
          Rates,     \* rates an admin may type
          Ceilings,  \* band ceilings
          PerMonth,  \* polls in a month
          Months,    \* months looked at
          MaxPages,  \* bound on the pages printed
          None

VARIABLES device,    \* what the printer's meters say, and what was printed
          reading,   \* time -> reading stored, or None
          now,       \* the next poll
          card,      \* Cards -> billing_rate_cards row, or None
          desk,      \* Admins -> the activation a handler has begun
          deleting   \* retention.delete_enabled

vars == <<device, reading, now, card, desk, deleting>>

Meters  == {"pages", "mono", "color"}
Classes == {"mono", "color"}
Times   == 0..(PerMonth * Months - 1)
MonthOf(t) == t \div PerMonth
AllMonths  == 0..(Months - 1)
Tiers == [kind : Classes, up_to : Ceilings, rate : Rates]
CardRows == [active : BOOLEAN, mono : Rates, color : Rates,
             minimum : {0} \cup Rates, policy : {"exclude", "bill_as_mono"},
             tiers : SUBSET Tiers]

\* What the constants must satisfy.
BillingAssumption ==
    /\ MaxPages \in Nat /\ PerMonth \in Nat \ {0} /\ Months \in Nat
    /\ Rates \subseteq Nat /\ None \notin CardRows /\ None \notin Nat

Init ==
    /\ device = [mono |-> 0, color |-> 0, printed |-> 0]
    /\ reading = [t \in Times |-> None]
    /\ now = 0
    /\ card = [c \in Cards |-> None]
    /\ desk = [a \in Admins |-> None]
    /\ deleting \in BOOLEAN

-----------------------------------------------------------------------------
(* The printer and its readings *)

PrintPage(class) ==
    /\ device.printed < MaxPages
    /\ device' = IF class = "mono" THEN [device EXCEPT !.mono = @ + 1, !.printed = @ + 1]
                                   ELSE [device EXCEPT !.color = @ + 1, !.printed = @ + 1]
    /\ UNCHANGED <<reading, now, card, desk, deleting>>

ResetMeters ==
    /\ device' = [device EXCEPT !.mono = 0, !.color = 0]
    /\ device' # device
    /\ UNCHANGED <<reading, now, card, desk, deleting>>

Meter(name) == IF name = "pages" THEN device.mono + device.color ELSE device[name]

\* a poll that reports the meters in shown
Poll(shown) ==
    /\ now \in Times
    /\ reading' = [reading EXCEPT ![now] =
                     [name \in Meters |-> IF name \in shown THEN Meter(name) ELSE None]]
    /\ now' = now + 1
    /\ UNCHANGED <<device, card, desk, deleting>>

MissPoll ==
    /\ now \in Times /\ now' = now + 1
    /\ UNCHANGED <<device, reading, card, desk, deleting>>

\* the retention pass deletes the readings of a closed month
Prune(month) ==
    /\ deleting /\ month < MonthOf(now)
    /\ reading' = [t \in Times |-> IF MonthOf(t) = month THEN None ELSE reading[t]]
    /\ reading' # reading
    /\ UNCHANGED <<device, now, card, desk, deleting>>

-----------------------------------------------------------------------------
(* What was printed in a month *)

Carrying(name) == {t \in Times : reading[t] # None /\ reading[t][name] # None}

\* positive_delta: the positive steps of a meter from each time to the next
PositiveDelta(name, times) ==
    LET step(t) ==
          LET before == {u \in times : u < t}
              last   == CHOOSE u \in before : \A v \in before : v <= u
              value  == reading[t][name]
          IN  IF before # {} /\ value > reading[last][name]
              THEN value - reading[last][name] ELSE 0
    IN  MapThenSumSet(step, times)

\* the last value the meter had before the month
Baseline(name, month) ==
    LET before == {t \in Carrying(name) : MonthOf(t) < month}
    IN  {t \in before : \A u \in before : u <= t}

\* None: the meter was not reported inside the month
PeriodMeter(name, month) ==
    LET inside == {t \in Carrying(name) : MonthOf(t) = month}
    IN  IF inside = {} THEN None
        ELSE PositiveDelta(name, Baseline(name, month) \cup inside)

Known(n) == IF n = None THEN 0 ELSE n

(* _classify: the pages billed of each class, and those disclosed as not     *)
(* billed.                                                                   *)

Classify(month, policy) ==
    LET total == PeriodMeter("pages", month)
        mono  == PeriodMeter("mono", month)
        color == PeriodMeter("color", month)
        split == Known(mono) + Known(color)
    IN  IF mono = None /\ color = None /\ policy = "bill_as_mono"
        THEN [mono |-> Known(total), color |-> 0, unbilled |-> 0]
        ELSE [mono |-> Known(mono), color |-> Known(color),
              unbilled |-> IF Known(total) > split THEN Known(total) - split ELSE 0]

-----------------------------------------------------------------------------
(* What it costs *)

Band(state, tier) ==
    IF state.left < tier.up_to - state.consumed THEN state.left
    ELSE tier.up_to - state.consumed

\* tiered_cost: bands are marginal, pages above the last cost the base rate
TieredCost(pages, tiers, base) ==
    LET priced == FoldLeft(LAMBDA s, t :
                     [cost |-> s.cost + Band(s, t) * t.rate,
                      left |-> s.left - Band(s, t), consumed |-> t.up_to],
                     [cost |-> 0, left |-> pages, consumed |-> 0],
                     SetToSortSeq(tiers, LAMBDA a, b : a.up_to < b.up_to))
    IN  priced.cost + priced.left * base

\* round_money: half up
Rounded(amount) == (amount + 5) \div 10
Line(row, kind, pages) ==
    Rounded(TieredCost(pages, {t \in row.tiers : t.kind = kind}, row[kind]))

\* build_invoice: the lines, raised to the minimum commitment
Invoiced(row, mono, color) ==
    LET subtotal == Line(row, "mono", mono) + Line(row, "color", color)
    IN  IF subtotal < row.minimum THEN row.minimum ELSE subtotal

-----------------------------------------------------------------------------
(* Rate cards.  The partial unique index allows one active card.             *)

ActiveCards(rows) == {c \in Cards : rows[c] # None /\ rows[c].active}

\* a commit that would leave two active cards raises and changes nothing
Commit(rows) ==
    /\ Cardinality(ActiveCards(rows)) <= 1
    /\ card' = rows

CreateCard(c, mono, color, minimum, policy) ==
    /\ card[c] = None
    /\ Commit([card EXCEPT ![c] =
          [active |-> ActiveCards(card) = {}, mono |-> mono, color |-> color,
           minimum |-> minimum, policy |-> policy, tiers |-> {}]])
    /\ UNCHANGED <<device, reading, now, desk, deleting>>

\* the rates are edited in place; a blank minimum clears it
UpdateCard(c, mono, color, minimum, policy) ==
    /\ card[c] # None
    /\ card' = [card EXCEPT ![c].mono = mono, ![c].color = color,
                            ![c].minimum = minimum, ![c].policy = policy]
    /\ UNCHANGED <<device, reading, now, desk, deleting>>

\* rate_card_activate has read the incumbent
BeginActivate(a, c) ==
    /\ desk[a] = None /\ card[c] # None
    /\ desk' = [desk EXCEPT ![a] =
                  [card |-> c, incumbent |-> ActiveCards(card) \ {c}]]
    /\ UNCHANGED <<device, reading, now, card, deleting>>

\* Mutant: the incumbent goes off, and the new card is never switched on
SwitchedCarelessly(c, old) ==
    [k \in Cards |-> IF k \in old /\ card[k] # None THEN [card[k] EXCEPT !.active = FALSE]
                     ELSE card[k]]
\* the incumbent off, then this one on
Switched(c, old) ==
    [k \in Cards |-> IF k = c THEN [card[c] EXCEPT !.active = TRUE]
                     ELSE IF k \in old THEN [card[k] EXCEPT !.active = FALSE]
                     ELSE card[k]]

\* Mutant: no index keeps the second active card out
EndActivateBoth(a) ==
    /\ desk[a] # None
    /\ LET c == desk[a].card  old == desk[a].incumbent IN
       IF \A k \in old \cup {c} : card[k] # None THEN card' = Switched(c, old)
       ELSE UNCHANGED card
    /\ desk' = [desk EXCEPT ![a] = None]
    /\ UNCHANGED <<device, reading, now, deleting>>
\* a card gone in the meantime makes the flush raise, as the index does
EndActivate(a) ==
    /\ desk[a] # None
    /\ LET c == desk[a].card  old == desk[a].incumbent IN
       IF /\ \A k \in old \cup {c} : card[k] # None
          /\ Cardinality(ActiveCards(Switched(c, old))) <= 1
       THEN card' = Switched(c, old)
       ELSE UNCHANGED card
    /\ desk' = [desk EXCEPT ![a] = None]
    /\ UNCHANGED <<device, reading, now, deleting>>

DeleteCard(c) ==
    /\ card[c] # None
    /\ card' = [card EXCEPT ![c] = None]
    /\ UNCHANGED <<device, reading, now, desk, deleting>>

CreateTier(c, tier) ==
    /\ card[c] # None
    /\ \A t \in card[c].tiers : t.kind # tier.kind \/ t.up_to # tier.up_to
    /\ card' = [card EXCEPT ![c].tiers = @ \cup {tier}]
    /\ UNCHANGED <<device, reading, now, desk, deleting>>

DeleteTier(c, tier) ==
    /\ card[c] # None /\ tier \in card[c].tiers
    /\ card' = [card EXCEPT ![c].tiers = @ \ {tier}]
    /\ UNCHANGED <<device, reading, now, desk, deleting>>

-----------------------------------------------------------------------------
MeterStep == \/ ResetMeters \/ MissPoll
             \/ \E class \in Classes : PrintPage(class)
             \/ \E shown \in SUBSET Meters : Poll(shown)
             \/ \E month \in AllMonths : Prune(month)

CardStep ==
    \/ \E c \in Cards, mono \in Rates, color \in Rates, minimum \in {0} \cup Rates,
          policy \in {"exclude", "bill_as_mono"} :
          CreateCard(c, mono, color, minimum, policy)
            \/ UpdateCard(c, mono, color, minimum, policy)
    \/ \E a \in Admins : EndActivate(a) \/ \E c \in Cards : BeginActivate(a, c)
    \/ \E c \in Cards : DeleteCard(c)
    \/ \E c \in Cards, tier \in Tiers : CreateTier(c, tier) \/ DeleteTier(c, tier)

Next == MeterStep \/ CardStep
Spec == Init /\ [][Next]_vars

-----------------------------------------------------------------------------
TypeOK ==
    /\ device \in [mono : Nat, color : Nat, printed : 0..MaxPages]
    /\ \A t \in Times : reading[t] = None \/ DOMAIN reading[t] = Meters
    /\ card \in [Cards -> CardRows \cup {None}]
    /\ desk \in [Admins -> [card : Cards, incumbent : SUBSET Cards] \cup {None}]
    /\ Cardinality(ActiveCards(card)) <= 1

OverMonths(f(_)) == MapThenSumSet(f, AllMonths)

(* Consecutive months add up to what the readings show was printed over the  *)
(* printer's life, meter by meter: no page falls between two months or into  *)
(* both, whatever was reset, missed or left unreported.                      *)
MonthsTile ==
    ~deleting => \A name \in Meters :
        OverMonths(LAMBDA month : Known(PeriodMeter(name, month)))
            = PositiveDelta(name, Carrying(name))

Billed(month, policy) ==
    Classify(month, policy).mono + Classify(month, policy).color

(* Under a card that excludes unsplit pages no month bills a page that was   *)
(* not printed or that another month bills.                                  *)
PagesBilledOnce == OverMonths(LAMBDA month : Billed(month, "exclude")) <= device.printed

(* The same of a card that bills unsplit pages as mono ("adjacent periods    *)
(* then tile the timeline exactly once, so a reading ... is billed in one    *)
(* month rather than in both or neither").                                   *)
UnsplitBilledOnce ==
    OverMonths(LAMBDA month : Billed(month, "bill_as_mono")) <= device.printed

RateAt(row, kind, page) ==
    LET above == {t \in row.tiers : t.kind = kind /\ t.up_to >= page}
    IN  IF above = {} THEN row[kind]
        ELSE (CHOOSE t \in above : \A u \in above : t.up_to <= u.up_to).rate

(* However the admins have cut the bands, each page costs the rate of the    *)
(* band it falls in, and one more page never makes the invoice smaller.      *)
PricedPerPage ==
    \A c \in Cards : card[c] # None => \A n \in 0..(2 * MaxPages) :
        /\ Invoiced(card[c], n + 1, 0) >= Invoiced(card[c], n, 0)
        /\ \A kind \in Classes :
             TieredCost(n, {t \in card[c].tiers : t.kind = kind}, card[c][kind])
               = MapThenSumSet(LAMBDA p : RateAt(card[c], kind, p), 1..n)

(* A client with an active card loses it only by the deletion of that card:  *)
(* two admins activating, creating and deleting at once never leave invoices *)
(* without terms.                                                            *)
ActiveKept ==
    [][ActiveCards(card) # {} /\ ActiveCards(card)' = {} =>
          \E c \in ActiveCards(card) : card'[c] = None]_vars
=============================================================================
