----------------------------- MODULE MessageFuse ------------------------------
(***************************************************************************)
(* What the budget fuse promises to whoever reads the mailboxes, without   *)
(* the counter that implements it: between two resets by the director a    *)
(* thread delivers at most Ceiling mails, and a frozen thread delivers     *)
(* none.  (SPEC: "thread congelato", director notified, manual release.)   *)
(***************************************************************************)
EXTENDS Integers

CONSTANTS Tags, Ceiling \* Ceiling: deliveries a life of the thread is worth

VARIABLES
    deliveries, \* per tag, mails delivered since the beginning
    granted,    \* per tag, mails it may have delivered by now
    frozen      \* tags whose fuse has tripped

vars == <<deliveries, granted, frozen>>

Init ==
    /\ deliveries = [t \in Tags |-> 0]
    /\ granted = [t \in Tags |-> Ceiling]
    /\ frozen = {}

Deliver(t) ==
    /\ t \notin frozen
    /\ deliveries[t] < granted[t]
    /\ deliveries' = [deliveries EXCEPT ![t] = @ + 1]
    /\ UNCHANGED <<granted, frozen>>

Trip(t) ==
    /\ frozen' = frozen \cup {t}
    /\ UNCHANGED <<deliveries, granted>>

\* The director lifts the freeze, and grants the thread a new life.
Lift(t) ==
    /\ frozen' = frozen \ {t}
    /\ UNCHANGED <<deliveries, granted>>

Grant(t) ==
    /\ granted' = [granted EXCEPT ![t] = @ + Ceiling]
    /\ UNCHANGED <<deliveries, frozen>>

Next == \E t \in Tags : Deliver(t) \/ Trip(t) \/ Lift(t) \/ Grant(t)

Spec == Init /\ [][Next]_vars
=============================================================================
