---------------------------- MODULE AtLeastOnce ----------------------------
(***************************************************************************)
(* What the rest of the backend relies on when it calls `.delay': a task   *)
(* that was handed over stays pending until its effect has happened at     *)
(* least once or the queue has given up on it, which nobody is told.       *)
(***************************************************************************)
CONSTANT Tasks

VARIABLES
    handed,     \* tasks that were enqueued
    pending,    \* tasks the queue still works on
    delivered,  \* tasks whose effect happened, once or more
    dropped     \* tasks the queue has given up on

queueVars == <<handed, pending, delivered, dropped>>

Init ==
    /\ handed = {} /\ pending = {} /\ delivered = {} /\ dropped = {}

Hand(t) ==
    /\ t \notin handed
    /\ handed' = handed \cup {t}
    /\ pending' = pending \cup {t}
    /\ UNCHANGED <<delivered, dropped>>

Deliver(t) ==
    /\ t \in pending
    /\ delivered' = delivered \cup {t}
    /\ UNCHANGED <<handed, pending, dropped>>

Settle(t) ==
    /\ t \in pending
    /\ t \in delivered \cup dropped
    /\ pending' = pending \ {t}
    /\ UNCHANGED <<handed, delivered, dropped>>

Drop(t) ==
    /\ t \in pending
    /\ dropped' = dropped \cup {t}
    /\ UNCHANGED <<handed, pending, delivered>>

Next == \E t \in Tasks : Hand(t) \/ Deliver(t) \/ Settle(t) \/ Drop(t)

Spec == Init /\ [][Next]_queueVars
=============================================================================
