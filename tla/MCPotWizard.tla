----------------------------- MODULE MCPotWizard -----------------------------
(* Constants for model checking PotWizard: a fee of 5 kobo. *)
EXTENDS PotWizard

Amount(n, dot) == [tenths |-> n, point |-> dot, blank |-> FALSE]
\* Zero, a tenth of a kobo, the fee itself, a tenth of a kobo more, and 6 kobo with a point
\* behind it.
MCTyped ==
    {Amount(0, FALSE), Amount(1, FALSE), Amount(50, FALSE), Amount(51, FALSE), Amount(60, TRUE)}
MCMaxEdits == [new |-> 5, edit |-> 2]

Leg(a, i) == [d |-> a, seq |-> i, amount |-> 7, date |-> "may"]
Draft(m, c) == [row |-> TRUE, admin |-> TRUE, mode |-> m, min |-> 7, config |-> c]
MCStored ==
    {Draft("scheduled", [ordered |-> FALSE, legs |-> <<Leg("a1", 0), Leg("a2", 1)>>]),
     Draft("recurring", [d |-> "a1", amount |-> 7, interval |-> 30, date |-> "may"]),
     Draft("target_based", [d |-> "a1", amount |-> 7, date |-> None]),
     Draft("manual", NoConfig)}
=============================================================================
