----------------------------- MODULE EventInbox -----------------------------
(***************************************************************************)
(* What the webhook inbox promises the handlers it dispatches to           *)
(* (NombaWebhooksService.handle): an event is dispatched by one delivery   *)
(* at a time, again only if its dispatch threw, and never once processed.  *)
(***************************************************************************)
CONSTANT Events  \* webhook events, by their requestId

VARIABLE inbox   \* what provider_events says of each event

Init == inbox = [e \in Events |-> "new"]

Claim(e)   == inbox[e] = "new"     /\ inbox' = [inbox EXCEPT ![e] = "claimed"]
Release(e) == inbox[e] = "claimed" /\ inbox' = [inbox EXCEPT ![e] = "new"]
Process(e) == inbox[e] = "claimed" /\ inbox' = [inbox EXCEPT ![e] = "processed"]

Next == \E e \in Events : Claim(e) \/ Release(e) \/ Process(e)

Spec == Init /\ [][Next]_inbox
=============================================================================
