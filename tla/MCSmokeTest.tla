----------------------------- MODULE MCSmokeTest -----------------------------
(***************************************************************************)
(* Small instances of SmokeTest for TLC.                                   *)
(***************************************************************************)
EXTENDS SmokeTest

\* The system as coded, one wrong system per claim of the script, and one whose
\* second fault hides behind the first.
Wrong ==
    {AsCoded,
     [AsCoded EXCEPT !.warn = @ + 1], [AsCoded EXCEPT !.hard = @ + 1],
     [AsCoded EXCEPT !.hard = @ - 1], [AsCoded EXCEPT !.matrix = FALSE],
     [AsCoded EXCEPT !.tagged = FALSE], [AsCoded EXCEPT !.grace = FALSE],
     [AsCoded EXCEPT !.holds = FALSE],
     [AsCoded EXCEPT !.warn = @ + 1, !.grace = FALSE, !.holds = FALSE]}

\* Addresses are not compared.
SameCase == [a \in Addresses |-> a]

\* The system as coded decides as evaluate_subject does.
ASSUME \A t \in Tags, n \in 0 .. 2 * Budget :
    evaluate_subject([tags |-> <<t>>, service |-> FALSE], n, Budget) =
        CASE n >= AsCoded.hard -> "freeze"
          [] n < AsCoded.hard /\ n >= AsCoded.warn -> "accept_warn"
          [] n < AsCoded.warn -> "accept"
=============================================================================
