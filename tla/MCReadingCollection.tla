------------------------- MODULE MCReadingCollection -------------------------
(***************************************************************************)
(* ReadingCollection with a budget for faults, hand-backs and links that   *)
(* break; everything else is free.  The budget bounds the state space      *)
(* and appears in no guard of the specification.                           *)
(***************************************************************************)
EXTENDS ReadingCollection

CONSTANT MaxChanges     \* bound: faults, hand-backs and broken links together

VARIABLE changes

MCInit == Init /\ changes = 0

\* A link comes back for free.
ReadingsMC ==
    \/ /\ \/ PromptTick \/ MarkOfflinePrinters
          \/ \E a \in Agents : Takeover(a) \/ Heartbeat(a) \/ CycleNext(a)
          \/ \E a \in Agents \ link : ChangeLink(a)
       /\ UNCHANGED changes
    \/ /\ Handback \/ \E a \in Agents : FaultNext(a)
       /\ changes < MaxChanges
       /\ changes' = changes + 1

MCSpec == MCInit /\ [][ReadingsMC]_<<vars, changes>> /\ Fairness
=============================================================================
