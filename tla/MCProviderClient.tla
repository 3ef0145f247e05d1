-------------------------- MODULE MCProviderClient --------------------------
(* Constants for model checking ProviderClient. *)
EXTENDS ProviderClient

CONSTANT contribution

MCDue  == [r \in Refs |-> 2]
MCPaid == [r \in Refs |-> {1, 2, 3}]
=============================================================================
