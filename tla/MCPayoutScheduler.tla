------------------------- MODULE MCPayoutScheduler --------------------------
(* Constants for model checking PayoutScheduler. *)
EXTENDS PayoutScheduler

MCAmount == [l \in Legs |-> <<30, 20, 10>>[l]]
MCDate   == [l \in Legs |-> <<0, 0, 1>>[l]]
=============================================================================
