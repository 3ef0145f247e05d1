----------------------------- MODULE MCSessions -----------------------------
(* Constants for model checking Sessions: two tabs, of one browser or of two. *)
EXTENDS Sessions

CONSTANTS a, b, laptop, phone

MCOpenings == {[t \in Tabs |-> laptop], [t \in Tabs |-> IF t = a THEN laptop ELSE phone]}
=============================================================================
