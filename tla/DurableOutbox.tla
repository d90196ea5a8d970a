---------------------------- MODULE DurableOutbox ----------------------------
(***************************************************************************)
(* What a durable delivery queue promises about the rows it has committed, *)
(* whichever sweeper works it off (central/channels/delivery.py and        *)
(* central/events/delivery.py, module docstrings): a row is final once it  *)
(* is sent or closed, and it is sent only if a transmission took place.    *)
(* A transmission may take place more than once for a row, and the         *)
(* database may forget it: the sweepers promise at-least-once.             *)
(***************************************************************************)
CONSTANT Rows       \* the delivery rows that may come to exist

VARIABLES
    log,        \* what is committed about each row
    heard       \* the rows whose message a destination received

Final  == {"sent", "closed"}
Stages == {"absent", "open", "gone"} \cup Final

Init ==
    /\ log = [r \in Rows |-> "absent"]
    /\ heard = {}

\* Rows are added, settled and deleted, many in one commit.
Commit ==
    /\ log' \in [Rows -> Stages]
    /\ \A r \in Rows :
          /\ log[r] \in Final => log'[r] \in {log[r], "gone"}
          /\ log[r] = "gone" => log'[r] = "gone"
          /\ log'[r] = "sent" => r \in heard'
    /\ heard \subseteq heard'

\* A destination received something; the database has yet to hear of it.
Transmit == UNCHANGED log /\ heard \subseteq heard'

Next == Commit \/ Transmit

Spec == Init /\ [][Next]_<<log, heard>>
=============================================================================
