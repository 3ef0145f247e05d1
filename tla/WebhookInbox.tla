---------------------------- MODULE WebhookInbox ----------------------------
(***************************************************************************)
(* The webhook inbox: NombaClient.handleWebhook, with its store of         *)
(* requestIds in Redis, around NombaWebhooksService.handle, with its rows  *)
(* in provider_events.                                                     *)
(*                                                                         *)
(* The provider delivers an event until a delivery is answered with 2xx;   *)
(* it may give up waiting for one and deliver again while the first is     *)
(* still being handled.  Each delivery runs the code statement by          *)
(* statement.  A delivery whose signature, headers or JSON are wrong       *)
(* throws before it reaches any state and is not an event.  What the       *)
(* dispatched handler does is its own module's; here it succeeds, or       *)
(* throws.                                                                 *)
(***************************************************************************)
EXTENDS Integers, FiniteSets

CONSTANTS
    Events,      \* webhook events, by their requestId
    Deliveries,  \* deliveries that may be under way at the same time
    MaxFailures  \* bound on timeouts, throwing handlers, failing statements, deaths

ASSUME InboxAssumption == MaxFailures \in Nat /\ Events # {}

NoEvent == "none"  \* what an idle delivery carries

VARIABLES
    seen,       \* requestIds in the Redis store
    row,        \* provider_events: "none", "unclaimed" or "claimed" (claimedAt set)
    processed,  \* events whose row says processed
    event,      \* the event a delivery carries
    pc,         \* the delivery's position
    waiting,    \* deliveries the provider still waits for
    acked,      \* events for which the provider got a 2xx
    effects,    \* times an event's handler ran to its end
    skipped,    \* history: events of which a delivery lost the insert, or lost the
                \* claim to one at work
    stranded,   \* history: events whose claim outlived the delivery that held it
    failed,     \* history: events of which a delivery failed once it had the row
    failures    \* failures so far

inboxVars    == <<seen, row, processed>>
providerVars == <<event, waiting, acked>>
history      == <<effects, skipped, stranded, failed>>
vars == <<inboxVars, providerVars, history, pc, failures>>

Init ==
    /\ seen = {}
    /\ row = [e \in Events |-> "none"]
    /\ processed = {}
    /\ event = [d \in Deliveries |-> NoEvent]
    /\ pc = [d \in Deliveries |-> "idle"]
    /\ waiting = {}
    /\ acked = {}
    /\ effects = [e \in Events |-> 0]
    /\ skipped = {}
    /\ stranded = {}
    /\ failed = {}
    /\ failures = 0

Failure == failures < MaxFailures /\ failures' = failures + 1

\* The delivery that has the event's row fails.
Fail(d) == Failure /\ failed' = failed \union {event[d]}

Goto(d, step) == pc' = [pc EXCEPT ![d] = step]

\* The request ends; the provider learns of it only if it still waits.
Respond(d, ok) ==
    /\ Goto(d, "idle")
    /\ event' = [event EXCEPT ![d] = NoEvent]
    /\ waiting' = waiting \ {d}
    /\ acked' = IF ok /\ d \in waiting THEN acked \union {event[d]} ELSE acked
-----------------------------------------------------------------------------
(* The provider *)

\* A first delivery, or another one while none was answered with 2xx.
deliver(d, e) ==
    /\ pc[d] = "idle"
    /\ e \notin acked
    /\ \A w \in waiting : event[w] # e
    /\ event' = [event EXCEPT ![d] = e]
    /\ waiting' = waiting \union {d}
    /\ Goto(d, "store")
    /\ UNCHANGED <<inboxVars, acked, history, failures>>

\* The provider stops waiting for an answer, which is still being worked on.
giveUp(d) ==
    /\ d \in waiting
    /\ Failure
    /\ waiting' = waiting \ {d}
    /\ UNCHANGED <<inboxVars, event, acked, history, pc>>
-----------------------------------------------------------------------------
(* One delivery *)

\* webhookIdStore.has: a requestId that was handled is answered at once.
checkStore(d) ==
    /\ pc[d] = "store"
    /\ \/ event[d] \in seen /\ Respond(d, TRUE)
       \/ event[d] \notin seen /\ Goto(d, "read") /\ UNCHANGED providerVars
    /\ UNCHANGED <<inboxVars, history, failures>>

\* SELECT of the row: processed ends the handler, missing means insert.
readRow(d) ==
    /\ pc[d] = "read"
    /\ Goto(d, IF event[d] \in processed THEN "add"
               ELSE IF row[event[d]] = "none" THEN "insert" ELSE "claim")
    /\ UNCHANGED <<inboxVars, providerVars, history, failures>>

\* INSERT: the loser of a race for eventId's unique index returns.
insertRow(d) ==
    /\ pc[d] = "insert"
    /\ \/ /\ row[event[d]] = "none"
          /\ row' = [row EXCEPT ![event[d]] = "unclaimed"]
          /\ Goto(d, "claim")
          /\ UNCHANGED skipped
       \/ /\ row[event[d]] # "none"
          /\ skipped' = skipped \union {event[d]}
          /\ Goto(d, "add")
          /\ UNCHANGED row
    /\ UNCHANGED <<seen, processed, providerVars, effects, stranded, failed, failures>>

\* A delivery has the claim of an event.
Holding(e) ==
    \E d \in Deliveries : event[d] = e /\ pc[d] \in {"dispatch", "release", "process"}

\* Mutant of claimRow: the UPDATE has no WHERE claimed_at IS NULL.
claimRowUnconditional(d) ==
    /\ pc[d] = "claim"
    /\ row' = [row EXCEPT ![event[d]] = "claimed"]
    /\ Goto(d, "dispatch")
    /\ UNCHANGED <<seen, processed, providerVars, history, failures>>

\* UPDATE ... WHERE claimed_at IS NULL: the loser returns without dispatching.
claimRow(d) ==
    /\ pc[d] = "claim"
    /\ \/ /\ row[event[d]] = "unclaimed"
          /\ row' = [row EXCEPT ![event[d]] = "claimed"]
          /\ Goto(d, "dispatch")
          /\ UNCHANGED skipped
       \/ /\ row[event[d]] = "claimed"
          /\ skipped' = IF Holding(event[d]) THEN skipped \union {event[d]} ELSE skipped
          /\ Goto(d, "add")
          /\ UNCHANGED row
    /\ UNCHANGED <<seen, processed, providerVars, effects, stranded, failed, failures>>

\* Mutant of dispatch: what the handler throws is swallowed.
dispatchSwallowed(d) ==
    /\ pc[d] = "dispatch"
    /\ \/ /\ effects' = [effects EXCEPT ![event[d]] = @ + 1]
          /\ UNCHANGED <<failed, failures>>
       \/ Fail(d) /\ UNCHANGED effects
    /\ Goto(d, "process")
    /\ UNCHANGED <<inboxVars, providerVars, skipped, stranded>>

\* The switch on event_type: the handler runs to its end, or throws.
dispatch(d) ==
    /\ pc[d] = "dispatch"
    /\ \/ /\ effects' = [effects EXCEPT ![event[d]] = @ + 1]
          /\ Goto(d, "process")
          /\ UNCHANGED <<failed, failures>>
       \/ /\ Fail(d)
          /\ Goto(d, "release")
          /\ UNCHANGED effects
    /\ UNCHANGED <<inboxVars, providerVars, skipped, stranded>>

\* Mutant of releaseClaim: the claim of a handler that threw is kept.
releaseClaimKept(d) ==
    /\ pc[d] = "release"
    /\ Respond(d, FALSE)
    /\ UNCHANGED <<inboxVars, history, failures>>

\* The catch block: claimedAt is set to NULL again and the error answered with
\* 500, or the UPDATE itself fails.
releaseClaim(d) ==
    /\ pc[d] = "release"
    /\ Respond(d, FALSE)
    /\ \/ /\ row' = [row EXCEPT ![event[d]] = "unclaimed"]
          /\ UNCHANGED <<stranded, failed, failures>>
       \/ /\ Fail(d)
          /\ stranded' = stranded \union {event[d]}
          /\ UNCHANGED row
    /\ UNCHANGED <<seen, processed, effects, skipped>>

\* UPDATE processed = true.  Its failure is answered with 500, and the row stays
\* claimed and unprocessed.
markProcessed(d) ==
    /\ pc[d] = "process"
    /\ \/ /\ processed' = processed \union {event[d]}
          /\ Goto(d, "add")
          /\ UNCHANGED <<providerVars, failed, failures>>
       \/ /\ Fail(d)
          /\ Respond(d, FALSE)
          /\ UNCHANGED processed
    /\ UNCHANGED <<seen, row, effects, skipped, stranded>>

\* webhookIdStore.add, after any return of the handler, and 200.  If Redis fails
\* the provider gets a 500 and delivers again.
addToStore(d) ==
    /\ pc[d] = "add"
    /\ \/ /\ seen' = seen \union {event[d]}
          /\ Respond(d, TRUE)
          /\ UNCHANGED failures
       \/ /\ Failure
          /\ Respond(d, FALSE)
          /\ UNCHANGED seen
    /\ UNCHANGED <<row, processed, history>>

\* The process dies: the provider gets no answer.
die(d) ==
    /\ \/ /\ pc[d] \in {"dispatch", "release", "process"}
          /\ Fail(d)
          /\ stranded' = stranded \union {event[d]}
       \/ pc[d] = "claim" /\ Fail(d) /\ UNCHANGED stranded
       \/ pc[d] \in {"store", "read", "insert", "add"} /\ Failure /\ UNCHANGED <<stranded, failed>>
    /\ Respond(d, FALSE)
    /\ UNCHANGED <<inboxVars, effects, skipped>>

handle(d) ==
    \/ checkStore(d) \/ readRow(d) \/ insertRow(d) \/ claimRow(d) \/ dispatch(d)
    \/ releaseClaim(d) \/ markProcessed(d) \/ addToStore(d)

Next ==
    \/ \E d \in Deliveries, e \in Events : deliver(d, e)
    \/ \E d \in Deliveries : giveUp(d) \/ handle(d) \/ die(d)

Spec == Init /\ [][Next]_vars

\* A request being handled runs on, and the provider delivers an event until it
\* gets a 2xx.
FairSpec ==
    /\ Spec
    /\ \A d \in Deliveries : WF_vars(handle(d))
    /\ \A e \in Events : WF_vars(\E d \in Deliveries : deliver(d, e))
-----------------------------------------------------------------------------
(* Properties *)

\* Every variable keeps its type.
TypeOK ==
    /\ seen \subseteq Events
    /\ row \in [Events -> {"none", "unclaimed", "claimed"}]
    /\ processed \subseteq Events
    /\ event \in [Deliveries -> Events \union {NoEvent}]
    /\ pc \in [Deliveries -> {"idle", "store", "read", "insert", "claim", "dispatch",
                              "release", "process", "add"}]
    /\ waiting \subseteq Deliveries
    /\ acked \subseteq Events
    /\ effects \in [Events -> Nat]
    /\ skipped \subseteq Events
    /\ stranded \subseteq Events
    /\ failed \subseteq Events
    /\ failures \in Nat

\* A delivery has the event's row, or is about to claim it.
Working(e) == Holding(e) \/ \E d \in Deliveries : event[d] = e /\ pc[d] = "claim"

\* How the code can lose an event: a delivery that lost the insert or the claim
\* answers 200 and the one it lost to fails ("the loser skips dispatch entirely"),
\* or a claim outlives its delivery, since nothing ever clears it.
Lost == (skipped \intersect failed) \union stranded

\* The provider is told that an event was handled only if it was, or is being,
\* handled, but for the events the code can lose.
AnsweredIsHandled ==
    \A e \in seen \union acked : effects[e] = 1 \/ Working(e) \/ e \in Lost

\* Redelivery gets every event handled in the end, with the same exceptions
\* (handle releases the claim "so the next redelivery can actually retry").
EventuallyHandled == \A e \in Events : <>(effects[e] = 1 \/ e \in Lost)

\* The rows of provider_events as the abstract inbox's state.
rowOf == [e \in Events |->
            IF e \in processed THEN "processed"
            ELSE IF row[e] = "claimed" THEN "claimed" ELSE "new"]

I == INSTANCE EventInbox WITH Events <- Events, inbox <- rowOf

\* The deliveries, however they overlap and wherever they die, implement the
\* abstract inbox the handlers' modules build on.
ImplementsInbox == I!Spec
=============================================================================
