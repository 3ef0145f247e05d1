--------------------------- MODULE MCDisbursement ---------------------------
(* Constants for model checking Disbursement. *)
EXTENDS Disbursement, TLC

Config(mode, refund, date) ==
    [payoutMode |-> mode, refundType |-> refund, targetDate |-> date]

ManualAdmin        == {Config("manual", "admin", FALSE)}
ManualContributors == {Config("manual", "contributors", FALSE)}
TargetDatePot      == {Config("target_based", "admin", TRUE)}
TwoModes == ManualContributors \union TargetDatePot
EveryMode ==
    {Config("manual", "contributors", FALSE), Config("target_based", "admin", TRUE),
     Config("target_based", "contributors", FALSE), Config("recurring", "admin", FALSE)}

SmallPayout == {9000}
Symmetry    == Permutations(Refs)
=============================================================================
