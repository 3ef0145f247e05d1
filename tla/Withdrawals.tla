---------------------------- MODULE Withdrawals ----------------------------
(***************************************************************************)
(* What a pot promises those whose money it holds (the pendingOperation    *)
(* lock of pots.service.ts and the transfers worker): money leaves it in   *)
(* one operation at a time; each leg of the operation is withdrawn at most *)
(* once, and only if the pot covers it; and what was withdrawn is paid, or *)
(* given back because it was not paid, never both.                         *)
(***************************************************************************)
EXTENDS Integers

CONSTANTS
    Refs,         \* the legs, by their references
    Contribution  \* what a contribution adds to the pot

VARIABLES
    balance,    \* what the pot holds
    leg,        \* "new", "due", "declined", "sent", "paid" or "returned"
    cost,       \* what a leg takes from the pot, fee included
    operation   \* the legs of the operation in flight that have not ended

vars == <<balance, leg, cost, operation>>

Init ==
    /\ balance = 0
    /\ leg = [r \in Refs |-> "new"]
    /\ cost = [r \in Refs |-> 0]
    /\ operation = {}

\* A contribution arrives, or the provider takes it back.
Contribute ==
    /\ balance' = balance + Contribution
    /\ UNCHANGED <<leg, cost, operation>>

TakeBack ==
    /\ balance >= Contribution
    /\ balance' = balance - Contribution
    /\ UNCHANGED <<leg, cost, operation>>

\* An operation starts when no other is in flight.
Start(S) ==
    /\ operation = {}
    /\ S # {}
    /\ \A r \in S : leg[r] = "new"
    /\ operation' = S
    /\ leg' = [r \in Refs |-> IF r \in S THEN "due" ELSE leg[r]]
    /\ cost' \in [Refs -> Nat]
    /\ \A r \in Refs \ S : cost'[r] = cost[r]
    /\ UNCHANGED balance

\* Legs end without having been withdrawn: the pot does not cover them, or no job is
\* added for them.
Decline(S) ==
    /\ S \subseteq operation
    /\ \A r \in S : leg[r] = "due"
    /\ leg' = [r \in Refs |-> IF r \in S THEN "declined" ELSE leg[r]]
    /\ operation' = operation \ S
    /\ UNCHANGED <<balance, cost>>

\* What is sent has been taken from the pot.
Withdraw(r) ==
    /\ leg[r] = "due"
    /\ balance >= cost[r]
    /\ leg' = [leg EXCEPT ![r] = "sent"]
    /\ balance' = balance - cost[r]
    /\ UNCHANGED <<cost, operation>>

Pay(r) ==
    /\ leg[r] = "sent"
    /\ leg' = [leg EXCEPT ![r] = "paid"]
    /\ UNCHANGED <<balance, cost, operation>>

GiveBack(r) ==
    /\ leg[r] = "sent"
    /\ leg' = [leg EXCEPT ![r] = "returned"]
    /\ balance' = balance + cost[r]
    /\ UNCHANGED <<cost, operation>>

\* A leg that is settled gives back its share of the lock.
Release(r) ==
    /\ r \in operation
    /\ leg[r] \in {"paid", "returned"}
    /\ operation' = operation \ {r}
    /\ UNCHANGED <<balance, leg, cost>>

Next ==
    \/ Contribute \/ TakeBack
    \/ \E S \in SUBSET Refs : Start(S) \/ Decline(S)
    \/ \E r \in Refs : Withdraw(r) \/ Pay(r) \/ GiveBack(r) \/ Release(r)

Spec == Init /\ [][Next]_vars
=============================================================================
