----------------------- MODULE MCNotificationDelivery -----------------------
(***************************************************************************)
(* NotificationDelivery with a budget for escalations and for what         *)
(* operators, destinations and crashes do in one behaviour; the worker's   *)
(* other steps and the clock are free.  The budget bounds the state space  *)
(* and appears in no guard of the specification.                           *)
(***************************************************************************)
EXTENDS NotificationDelivery

CONSTANT MaxChanges     \* bound: edits, changes of health, escalations and crashes

VARIABLE changes

\* Channels start alike; changes make them differ.
MCInit ==
    /\ Init
    /\ enabled \in {{}, Channels}
    /\ \E h \in Health : health = [c \in Channels |-> h]
    /\ changes = 0

DeliveryMC ==
    \/ /\ Tick \/ SweepNext \/ \E a \in Alerts : OpenAlert(a) \/ ResolveAlert(a)
       /\ UNCHANGED changes
    \/ /\ WorldNext \/ CrashNext \/ \E a \in Alerts : Escalate(a)
       /\ changes < MaxChanges
       /\ changes' = changes + 1

MCDeliverySpec == MCInit /\ [][DeliveryMC]_<<vars, changes>>

MCReviveSpec ==
    MCInit /\ [][DeliveryMC \/ (ReviveNext /\ UNCHANGED changes)]_<<vars, changes>>

Symmetry == Permutations(Alerts)
=============================================================================
