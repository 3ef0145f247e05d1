-------------------------- MODULE PayoutScheduler ---------------------------
(***************************************************************************)
(* Payouts by the calendar (payout-scheduler.service.ts): the legs of a    *)
(* 'scheduled' pot, ordered or not, or the occurrences of a 'recurring'    *)
(* one, which the cron sweep enqueues and the transfers worker pays.       *)
(*                                                                         *)
(* A leg is marked fired, or nextRunAt advanced, only when its transfer    *)
(* succeeded (apply-on-success.ts).  The sweep reads the legs, then the    *)
(* balance, then claims the pot's lock, each a statement of its own, while *)
(* workers and webhooks finish earlier payouts and an admin's payout or    *)
(* refund may hold the lock.  The occurrences of a recurring payout are    *)
(* numbered like legs: occurrence n is due from n intervals on, and they   *)
(* fire one after the other.                                               *)
(***************************************************************************)
EXTENDS Integers, FiniteSets, FiniteSetsExt

CONSTANTS
    Modes,       \* a subset of {"ordered", "unordered", "recurring"}
    Legs,        \* 1..n, in sequenceOrder
    Amount,      \* the amount of each leg
    Date,        \* the day each leg is due
    OUTBOUND_FEE,
    Funds,       \* what the pot's balance may be at first
    MaxJobs,     \* bound on the payouts enqueued
    MaxRivals,   \* bound on the admin's operations
    MaxFaults    \* bound on the failures

ASSUME SchedulerAssumption ==
    /\ IsFiniteSet(Legs) /\ Legs = 1..Cardinality(Legs)
    /\ Amount \in [Legs -> Nat \ {0}]
    /\ Date \in [Legs -> Nat]
    /\ Funds \subseteq Nat
    /\ {OUTBOUND_FEE, MaxJobs, MaxRivals, MaxFaults} \subseteq Nat

LastDay == Max({Date[l] : l \in Legs})

VARIABLES
    mode,     \* the pot's payout configuration
    today,    \* the day
    fired,    \* legs with fired set, or occurrences before nextRunAt
    balance,  \* the pot's balance
    lock,     \* pendingOperationLegCount, 0 when pendingOperation is null
    rivals,   \* the admin's operations so far, and whether one is in flight
    sweep,    \* the sweep's position, the legs it works on and the balance it read
    jobs,     \* the payout jobs, one record each
    paid,     \* how often the provider executed a payout of each leg
    windows,  \* history: which unprotected windows were hit
    short,    \* history: a leg found the balance short when it was to be paid
    faults    \* failures so far

vars == <<mode, today, fired, balance, lock, rivals, sweep, jobs, paid, windows, short, faults>>

NoSweep == [pc |-> "idle", legs |-> {}, balance |-> 0, moved |-> FALSE]

Init ==
    /\ mode \in Modes
    /\ today = 0
    /\ fired = {}
    /\ balance \in Funds
    /\ lock = 0
    /\ rivals = [count |-> 0, active |-> FALSE]
    /\ sweep = NoSweep
    /\ jobs = {}
    /\ paid = [l \in Legs |-> 0]
    /\ windows = {}
    /\ short = FALSE
    /\ faults = 0

Fault == faults < MaxFaults /\ faults' = faults + 1

\* What a leg takes from the pot; every occurrence of a recurring payout is alike.
Need(l) == (IF mode = "recurring" THEN Amount[1] ELSE Amount[l]) + OUTBOUND_FEE

\* Payouts whose outcome is not yet known or not yet applied.
Live == {j \in jobs : j.at # "done"}

Step(j, at) == (jobs \ {j}) \union {[j EXCEPT !.at = at]}

\* GREATEST(legCount - 1, 0), and the lock is cleared at 0.
decrementPendingOperationLeg == IF lock > 0 THEN lock - 1 ELSE 0

\* worker.ts: a leg of a batch gives back its share, a single leg the whole lock.
releaseLock(j) == IF j.isFanOutLeg THEN decrementPendingOperationLeg ELSE 0

tick ==
    /\ today < LastDay
    /\ today' = today + 1
    /\ UNCHANGED <<mode, fired, balance, lock, rivals, sweep, jobs, paid, windows, short, faults>>
-----------------------------------------------------------------------------
(* An admin's payout or refund of the whole balance, which Disbursement models *)

rivalClaims ==
    /\ lock = 0
    /\ rivals.count < MaxRivals
    /\ rivals' = [count |-> rivals.count + 1, active |-> TRUE]
    /\ lock' = 1
    /\ UNCHANGED <<mode, today, fired, balance, sweep, jobs, paid, windows, short, faults>>

\* It succeeded, and took the balance, or it failed.
rivalEnds ==
    /\ rivals.active
    /\ rivals' = [rivals EXCEPT !.active = FALSE]
    /\ lock' = 0
    /\ balance' \in {0, balance}
    /\ sweep' = [sweep EXCEPT !.moved = @ \/ (balance' # balance /\ sweep.pc = "claim")]
    /\ UNCHANGED <<mode, today, fired, jobs, paid, windows, short, faults>>
-----------------------------------------------------------------------------
(* fireDueRecurringPayouts and fireDueScheduledLegs *)

Unfired == Legs \ fired

\* The legs a sweep looks at: all that are due, or the first that has not fired, if
\* due.  A leg's number is its sequenceOrder, so a set of legs stands for the sorted
\* array the code goes through.
dueLegs == {l \in Unfired : Date[l] <= today /\ (mode = "unordered" \/ l = Min(Unfired))}

\* The sweep reads what is due.  Payouts that are under way are not excluded.
readDue ==
    /\ sweep.pc = "idle"
    /\ dueLegs # {}
    /\ Cardinality(jobs) + Cardinality(dueLegs) <= MaxJobs
    /\ sweep' = [NoSweep EXCEPT !.pc = "balance", !.legs = dueLegs]
    /\ windows' = IF Live = {} THEN windows ELSE windows \union {"overlap"}
    /\ UNCHANGED <<mode, today, fired, balance, lock, rivals, jobs, paid, short, faults>>

\* Mutant of admitted: what earlier legs need is not reserved.
admittedAlone(legs, funds) == {l \in legs : Need(l) <= funds}

\* In sequenceOrder, each leg the balance covers on top of the admitted ones before
\* it; one that does not fit does not hold up a smaller one after it.
admitted(legs, funds) ==
    CHOOSE A \in SUBSET legs : \A l \in legs :
        l \in A <=> funds - MapThenSumSet(Need, {k \in A : k < l}) >= Need(l)

\* The balance is read once and the legs it covers are admitted; if none is, the
\* sweep is over and they stay unfired.
readBalance ==
    LET legs == admitted(sweep.legs, balance) IN
    /\ sweep.pc = "balance"
    /\ sweep' = IF legs = {} THEN NoSweep
                ELSE [sweep EXCEPT !.pc = "claim", !.legs = legs, !.balance = balance]
    /\ UNCHANGED <<mode, today, fired, balance, lock, rivals, jobs, paid, windows, short, faults>>

\* Mutant of claimLock: one share for the whole batch.
claimLockOnce ==
    /\ sweep.pc = "claim"
    /\ \/ lock = 0 /\ lock' = 1 /\ sweep' = [sweep EXCEPT !.pc = "enqueue"]
       \/ lock # 0 /\ sweep' = NoSweep /\ UNCHANGED lock
    /\ UNCHANGED <<mode, today, fired, balance, rivals, jobs, paid, windows, short, faults>>

\* One claim for the batch, with a share for each leg, if the lock is free.
claimLock ==
    /\ sweep.pc = "claim"
    /\ \/ /\ lock = 0
          /\ lock' = Cardinality(sweep.legs)
          /\ sweep' = [sweep EXCEPT !.pc = "enqueue"]
          /\ windows' = IF sweep.moved THEN windows \union {"moved"} ELSE windows
       \/ /\ lock # 0
          /\ sweep' = NoSweep
          /\ UNCHANGED <<lock, windows>>
    /\ UNCHANGED <<mode, today, fired, balance, rivals, jobs, paid, short, faults>>

\* A job under a fresh reference; if it cannot be added the leg's share of the lock
\* is given back.
enqueue ==
    LET leg == Min(sweep.legs)
        job == [leg |-> leg, n |-> Cardinality({j \in jobs : j.leg = leg}),
                isFanOutLeg |-> mode = "unordered", at |-> "queued"]
    IN
    /\ sweep.pc = "enqueue"
    /\ \/ /\ jobs' = jobs \union {job}
          /\ UNCHANGED <<lock, faults>>
       \/ /\ Fault
          /\ lock' = releaseLock(job)
          /\ UNCHANGED jobs
    /\ sweep' = IF sweep.legs = {leg} THEN NoSweep ELSE [sweep EXCEPT !.legs = @ \ {leg}]
    /\ UNCHANGED <<mode, today, fired, balance, rivals, paid, windows, short>>

sweepStep == readDue \/ readBalance \/ claimLock \/ enqueue
-----------------------------------------------------------------------------
(* processLedgerDisbursement, for a scheduled payout *)

\* The payout is posted, or the balance is short and the leg's share of the lock is
\* given back.
post(j) ==
    /\ j.at = "queued"
    /\ \/ /\ balance >= Need(j.leg)
          /\ balance' = balance - Need(j.leg)
          /\ jobs' = Step(j, "posted")
          /\ UNCHANGED <<lock, short>>
       \/ /\ balance < Need(j.leg)
          /\ lock' = releaseLock(j)
          /\ jobs' = Step(j, "done")
          /\ short' = TRUE
          /\ UNCHANGED balance
    /\ UNCHANGED <<mode, today, fired, rivals, sweep, paid, windows, faults>>

Execute(l) == paid' = [paid EXCEPT ![l] = @ + 1]

\* Mutant of onSuccess: a leg that succeeded is not marked.
onSuccessDropped(l) == fired

\* mark_scheduled_leg_fired; advance_recurring_next_run_at moves on from whatever
\* occurrence is next by now.
onSuccess(l) == IF mode # "recurring" THEN fired \union {l}
                ELSE IF Unfired = {} THEN fired ELSE fired \union {Min(Unfired)}

\* The transfer succeeds, is accepted for later, or is refused: then the posting is
\* reversed and the lock released.
transfer(j) ==
    /\ j.at = "posted"
    /\ \/ /\ Execute(j.leg)
          /\ jobs' = Step(j, "executed")
          /\ UNCHANGED <<balance, lock, faults>>
       \/ /\ jobs' = Step(j, "pending")
          /\ UNCHANGED <<balance, lock, paid, faults>>
       \/ /\ Fault
          /\ balance' = balance + Need(j.leg)
          /\ lock' = releaseLock(j)
          /\ jobs' = Step(j, "done")
          /\ UNCHANGED paid
    /\ UNCHANGED <<mode, today, fired, rivals, sweep, windows, short>>

\* Mutant of complete: the lock is not released.
completeHeld(j) ==
    /\ j.at = "executed"
    /\ jobs' = Step(j, "released")
    /\ UNCHANGED <<mode, today, fired, balance, lock, rivals, sweep, paid, windows, short, faults>>

\* markCompleted, and the lock is released before the leg is marked.
complete(j) ==
    /\ j.at = "executed"
    /\ lock' = releaseLock(j)
    /\ jobs' = Step(j, "released")
    /\ UNCHANGED <<mode, today, fired, balance, rivals, sweep, paid, windows, short, faults>>

\* applyOnSuccess; if it fails the error is taken for a refused transfer: the
\* posting is reversed and the lock released once more.
applyOnSuccess(j) ==
    /\ j.at = "released"
    /\ jobs' = Step(j, "done")
    /\ \/ /\ fired' = onSuccess(j.leg)
          /\ UNCHANGED <<balance, lock, windows, faults>>
       \/ /\ Fault
          /\ balance' = balance + Need(j.leg)
          /\ lock' = releaseLock(j)
          /\ windows' = windows \union {"interrupted"}
          /\ UNCHANGED fired
    /\ UNCHANGED <<mode, today, rivals, sweep, paid, short>>

\* resolvePendingTransfer: here the leg is marked before the lock is released.
resolvePendingTransfer(j) ==
    /\ j.at = "pending"
    /\ \/ /\ Execute(j.leg)
          /\ fired' = onSuccess(j.leg)
          /\ UNCHANGED <<balance, faults>>
       \/ /\ Fault
          /\ balance' = balance + Need(j.leg)
          /\ UNCHANGED <<fired, paid>>
    /\ lock' = decrementPendingOperationLeg
    /\ jobs' = Step(j, "done")
    /\ UNCHANGED <<mode, today, rivals, sweep, windows, short>>

workerStep(j) == post(j) \/ transfer(j) \/ complete(j) \/ applyOnSuccess(j)

Next ==
    \/ tick \/ rivalClaims \/ rivalEnds \/ sweepStep
    \/ \E j \in jobs : workerStep(j) \/ resolvePendingTransfer(j)

Spec == Init /\ [][Next]_vars

\* The cron job runs every day, jobs are taken up, webhooks arrive, an admin's
\* operation ends.
FairSpec ==
    /\ Spec
    /\ WF_vars(tick) /\ WF_vars(sweepStep) /\ WF_vars(rivalEnds)
    /\ WF_vars(\E j \in jobs : workerStep(j))
    /\ WF_vars(\E j \in jobs : resolvePendingTransfer(j))
-----------------------------------------------------------------------------
(* Properties *)

\* A leg is paid at most once, except through the two windows the code leaves: a
\* sweep that reads the legs while a payout is under way (the lock is released
\* before the leg is marked, and the claim does not look at the leg again), and a
\* statement that fails once the transfer was executed.
LegPaidOnce == windows \intersect {"overlap", "interrupted"} = {} =>
                   \A l \in Legs : paid[l] <= 1

\* What the sweep admits, the pot can pay: a leg finds the balance short only if
\* money left between the sweep's read of the balance and its claim, or an earlier
\* leg was paid twice or released a lock that was not its own.
AdmittedIsCovered == short => windows # {}

\* The lock counts what is outstanding: the payouts under way, the legs the sweep
\* is still enqueueing, and the admin's operation.
LockCountsLegs ==
    "interrupted" \notin windows =>
        lock = Cardinality({j \in Live : j.at # "released"})
                 + (IF sweep.pc = "enqueue" THEN Cardinality(sweep.legs) ELSE 0)
                 + (IF rivals.active THEN 1 ELSE 0)

\* Every leg is paid in the end, unless it, or for an ordered pot one before it,
\* stays uncovered.
EveryLegFires ==
    \A l \in Legs :
        \/ <>(l \in fired)
        \/ <>[](\E k \in 1..l : k \notin fired /\ balance < Need(k) /\ (mode = "unordered" => k = l))
        \/ <>(Cardinality(jobs) + Cardinality(dueLegs) > MaxJobs)
=============================================================================
