--------------------------- MODULE MCPotLifecycle ---------------------------
(* Constants for model checking PotLifecycle. *)
EXTENDS PotLifecycle, TLC

MCConfigs == {{}, {"destinationAccount"},
              destinationSchema \union {"amount", "intervalDays", "nextRunAt"}}
MCTerms   == {[limits |-> <<1, 2>>, refundType |-> "contributors"],
              [limits |-> <<2, 3>>, refundType |-> "admin"]}
Symmetry  == Permutations(Requests)
=============================================================================
