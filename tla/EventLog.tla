------------------------------ MODULE EventLog ------------------------------
(***************************************************************************)
(* What the analytics outbox promises, with no worker, lease, backoff or   *)
(* lost answer in it: events are logged; an attempt takes some of them     *)
(* that are not done, and hands over some or all of them at once or later; *)
(* what has been handed over may be called done, and then takes no more    *)
(* attempts; an event takes MaxAttempts at most.                           *)
(***************************************************************************)
EXTENDS Integers

CONSTANTS Events, MaxAttempts

VARIABLES
    log,        \* events committed
    tries,      \* attempts each of them has taken
    delivered,  \* events handed over, once or more often
    done        \* events known to have been

Init ==
    /\ log = {}
    /\ tries = [e \in Events |-> 0]
    /\ delivered = {}
    /\ done = {}

Log ==
    /\ \E e \in Events : log' = log \cup {e}
    /\ UNCHANGED <<tries, delivered, done>>

Attempt ==
    /\ \E some \in SUBSET {e \in log \ done : tries[e] < MaxAttempts} :
          tries' = [e \in Events |-> IF e \in some THEN tries[e] + 1 ELSE tries[e]]
    /\ UNCHANGED <<log, delivered, done>>

Deliver ==
    /\ \E some \in SUBSET {e \in log : tries[e] > 0} : delivered' = delivered \cup some
    /\ UNCHANGED <<log, tries, done>>

Acknowledge ==
    /\ \E some \in SUBSET delivered : done' = done \cup some
    /\ UNCHANGED <<log, tries, delivered>>

Next == Log \/ Attempt \/ Deliver \/ Acknowledge

Spec == Init /\ [][Next]_<<log, tries, delivered, done>>
=============================================================================
