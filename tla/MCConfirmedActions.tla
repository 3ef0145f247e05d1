------------------------- MODULE MCConfirmedActions -------------------------
(* Constants for model checking ConfirmedActions. *)
EXTENDS ConfirmedActions, TLC

MCOps == {[action |-> "trigger_payout", context |-> "to ann"],
          [action |-> "trigger_payout", context |-> "to bob"],
          [action |-> "contribute", context |-> "null"]}
Symmetry == Permutations(Requests) \union Permutations(Keys)
=============================================================================
