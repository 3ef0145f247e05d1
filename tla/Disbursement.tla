---------------------------- MODULE Disbursement ----------------------------
(***************************************************************************)
(* How money leaves one open pot.                                          *)
(*                                                                         *)
(* A request or a cron sweep checks the pot's balance, claims the pot's    *)
(* pendingOperation lock and enqueues one transfer job per leg             *)
(* (pots.service.ts).  A worker takes each job, posts the ledger           *)
(* transaction, calls the provider and settles the outcome (worker.ts),    *)
(* and a webhook settles what the provider did not answer at once          *)
(* (resolvePendingTransfer).  Every await of the code between two          *)
(* statements on shared state is a step boundary here.                     *)
(*                                                                         *)
(* A leg is identified by its transaction reference, a fresh UUID in the   *)
(* code.  Infrastructure failures are named by Faults and counted by       *)
(* MaxFaults, so that a run says which failures it admits.                 *)
(***************************************************************************)
EXTENDS LedgerBook, FiniteSets, FiniteSetsExt

CONSTANTS
    Refs,             \* transaction references, one per leg ever enqueued
    Configs,          \* pot configurations the initial states range over
    MaxContributions, \* bound on the contributions ever confirmed
    IntendedAmount,   \* what each contribution adds to the pot, in kobo
    PayoutAmounts,    \* explicit amounts of manual and recurring payouts
    TargetAmount,     \* targetAmount of a target_based config
    Attempts,         \* attempts of a transfer job (5 in the code)
    Faults,           \* the failures admitted, a subset of FaultKinds
    MaxFaults         \* bound on the failures in one behaviour

FaultKinds ==
    {"timeout",   \* a transfer call gets no response (NombaApiError status 0)
     "overtake",  \* a webhook is handled before the worker handled the response
     "crash",     \* the worker dies while a job is active (stalled job)
     "db",        \* a statement after the posting fails
     "reserve",   \* the throttle's Redis call fails
     "lookup",    \* the bank account lookup fails
     "enqueue",   \* adding a job to the queue fails, or the caller dies first
     "operator"}  \* an operator retries a failed job

PayoutModes == {"manual", "target_based", "recurring"}

OnSuccess == {"none", "mark_target_based_fired", "advance_recurring_next_run_at"}

ASSUME ConstantsAssumption ==
    /\ IsFiniteSet(Refs)
    /\ Configs \subseteq [payoutMode : PayoutModes,
                          refundType : {"admin", "contributors"},
                          targetDate : BOOLEAN]
    /\ MaxContributions \in Nat
    /\ IntendedAmount \in Nat \ {0}
    /\ PayoutAmounts \subseteq Nat \ {0}
    /\ TargetAmount \in Nat \ {0}
    /\ Attempts \in Nat \ {0}
    /\ Faults \subseteq FaultKinds
    /\ MaxFaults \in Nat

VARIABLES
    config,            \* payout mode, refund type and target date: fixed once open
    status,            \* pots.status
    pendingOperation,  \* pots.pendingOperation, "none" for NULL
    legCount,          \* pots.pendingOperationLegCount, 0 for NULL
    closer,            \* close(): "checked" once its checks passed, before its update
    balances,          \* the balances table
    tx,                \* transactions.status of each reference, "none" if no row
    reversals,         \* references whose <reference>_reversal is posted
    received,          \* contributions ever confirmed
    funded,            \* contributions whose status is 'funded'
    reverser,          \* reverseFunding: "checked" once its checks passed, before it posts
    request,           \* progress of the caller that creates the leg
    data,              \* the leg's job payload
    job,               \* the BullMQ job's state
    tries,             \* attempts made
    stalls,            \* times the job was recovered from a dead worker
    pc,                \* the worker's position in the processor
    end,               \* how the processor will end: return, throw, unrecoverable, definitive
    nomba,             \* the provider's record of the transfer
    hooks,             \* webhooks the provider sent and we have not handled
    handler,           \* resolvePendingTransfer's position
    applied,           \* times applyOnSuccess ran for the leg
    faults             \* failures so far

potVars      == <<config, status, pendingOperation, legCount, closer>>
ledgerVars   == <<balances, tx, reversals>>
fundingVars  == <<received, funded, reverser>>
requestVars  == <<request, data>>
workerVars   == <<job, tries, stalls, pc, end>>
providerVars == <<nomba, hooks>>
vars == <<potVars, ledgerVars, fundingVars, requestVars, workerVars,
          providerVars, handler, applied, faults>>

NoLeg == [kind |-> "payout", amount |-> 0, isFanOutLeg |-> FALSE,
          onSuccess |-> "none", legs |-> {}]

Init ==
    /\ config \in Configs
    /\ status = "open"
    /\ pendingOperation = "none"
    /\ legCount = 0
    /\ closer = "idle"
    /\ balances = ZeroBalances
    /\ tx = [r \in Refs |-> "none"]
    /\ reversals = {}
    /\ received = 0
    /\ funded = 0
    /\ reverser = "idle"
    /\ request = [r \in Refs |-> "none"]
    /\ data = [r \in Refs |-> NoLeg]
    /\ job = [r \in Refs |-> "none"]
    /\ tries = [r \in Refs |-> 0]
    /\ stalls = [r \in Refs |-> 0]
    /\ pc = [r \in Refs |-> "idle"]
    /\ end = [r \in Refs |-> "return"]
    /\ nomba = [r \in Refs |-> "none"]
    /\ hooks = [r \in Refs |-> {}]
    /\ handler = [r \in Refs |-> "idle"]
    /\ applied = [r \in Refs |-> 0]
    /\ faults = 0

Fault(kind) ==
    /\ kind \in Faults
    /\ faults < MaxFaults
    /\ faults' = faults + 1
-----------------------------------------------------------------------------
(* Statements several handlers share. *)

clearPendingOperation ==
    /\ pendingOperation' = "none"
    /\ legCount' = 0
    /\ UNCHANGED <<config, status, closer>>

\* First statement of decrementPendingOperationLeg: GREATEST(n - 1, 0), where
\* GREATEST ignores NULL.  The row is cleared by a second statement if the
\* count came back as zero.
DecrementedLegCount == IF legCount <= 1 THEN 0 ELSE legCount - 1

decrementLeg ==
    /\ legCount' = DecrementedLegCount
    /\ UNCHANGED <<config, status, pendingOperation, closer>>

\* postTransaction of a reference that has no row yet, with status 'processing'.
postTransaction(r) ==
    /\ balances' = applyEntries(balances, outboundFeeLegs(data[r].amount))
    /\ tx' = [tx EXCEPT ![r] = "processing"]
    /\ UNCHANGED reversals

markCompleted(r) ==
    /\ tx' = [tx EXCEPT ![r] = "completed"]
    /\ UNCHANGED <<balances, reversals>>

\* Mutant of reverseTransaction: the reversal is not looked up before it is posted.
reverseTransactionTwice(r) ==
    /\ balances' = applyEntries(balances, Flip(outboundFeeLegs(data[r].amount)))
    /\ tx' = [tx EXCEPT ![r] = "reversed"]
    /\ reversals' = reversals \union {r}

\* The reversing entries are idempotent by <reference>_reversal; the status is
\* written in the same commit.
reverseTransaction(r) ==
    /\ balances' = IF r \in reversals THEN balances
                   ELSE applyEntries(balances, Flip(outboundFeeLegs(data[r].amount)))
    /\ tx' = [tx EXCEPT ![r] = "reversed"]
    /\ reversals' = reversals \union {r}

\* fired of a target_based config.
Fired == \E r \in Refs : data[r].onSuccess = "mark_target_based_fired" /\ applied[r] > 0

\* applied counts what applyOnSuccess did: a target_based config is fired once
\* the count is positive, a recurring nextRunAt advances by one interval each
\* time.  A config with a target date also closes its pot, if no operation is
\* pending at that moment.
applyOnSuccess(r) ==
    /\ applied' = [applied EXCEPT ![r] = @ + 1]
    /\ status' = IF /\ data[r].onSuccess = "mark_target_based_fired"
                    /\ config.targetDate
                    /\ status = "open"
                    /\ pendingOperation = "none"
                 THEN "closed" ELSE status
    /\ UNCHANGED <<config, pendingOperation, legCount, closer>>
-----------------------------------------------------------------------------
(* Money coming in, and out again when the provider reverses a payment. *)

\* confirmFunding's posting and status update, once the payments reach the expected
\* amount.  The pot's status is not looked at; the payout this may set off is
\* tryFire's.
confirmFunding ==
    /\ received < MaxContributions
    /\ received' = received + 1
    /\ funded' = funded + 1
    /\ balances' = applyEntries(balances, inboundFeeLegs(IntendedAmount))
    /\ UNCHANGED <<potVars, tx, reversals, reverser, requestVars, workerVars,
                   providerVars, handler, applied, faults>>

\* reverseFunding throws while an operation is pending, and is redelivered.
reverseFundingCheck ==
    /\ reverser = "idle"
    /\ funded > 0
    /\ pendingOperation = "none"
    /\ reverser' = "checked"
    /\ UNCHANGED <<potVars, ledgerVars, received, funded, requestVars, workerVars,
                   providerVars, handler, applied, faults>>

\* The reversal itself; it throws, and will be redelivered, when the pot no
\* longer holds the contribution.
reverseFundingPost ==
    /\ reverser = "checked"
    /\ reverser' = "idle"
    /\ LET entries == Flip(inboundFeeLegs(IntendedAmount))
       IN  IF CanApply(balances, entries)
           THEN /\ balances' = applyEntries(balances, entries)
                /\ funded' = funded - 1
           ELSE UNCHANGED <<balances, funded>>
    /\ UNCHANGED <<potVars, tx, reversals, received, requestVars, workerVars,
                   providerVars, handler, applied, faults>>
-----------------------------------------------------------------------------
(* Requests and sweeps: check, claim the lock, enqueue. *)

Full == balances["pot"] - OUTBOUND_FEE

Offer(kind, amounts, onSuccess) ==
    {[kind |-> kind, amount |-> a, onSuccess |-> onSuccess] : a \in amounts}

\* triggerPayout for a manual pot: a stated amount, or the full balance.
triggerPayout ==
    IF config.payoutMode = "manual"
    THEN Offer("payout", PayoutAmounts \union {Full}, "none") ELSE {}

\* triggerRefund of type admin: the full balance.
triggerRefund ==
    IF config.refundType = "admin" THEN Offer("refund", {Full}, "none") ELSE {}

\* tryFire: a config still eligible whose date (any time may have come) or
\* amount is reached disburses the full balance.
tryFire ==
    IF /\ config.payoutMode = "target_based"
       /\ ~Fired \/ ~config.targetDate
       /\ config.targetDate \/ balances["pot"] >= TargetAmount
    THEN Offer("payout", {Full}, "mark_target_based_fired") ELSE {}

\* fireDueRecurringPayouts: a due config disburses its fixed amount.
fireDueRecurringPayouts ==
    IF config.payoutMode = "recurring"
    THEN Offer("payout", PayoutAmounts, "advance_recurring_next_run_at") ELSE {}

\* The checks before the lock: the pot is open and covers amount and fee.
postFixedAmountDisbursement(r) ==
    /\ request[r] = "none"
    /\ status = "open"
    /\ \E o \in triggerPayout \union triggerRefund \union tryFire
                  \union fireDueRecurringPayouts :
          /\ o.amount > 0
          /\ o.amount + OUTBOUND_FEE <= balances["pot"]
          /\ data' = [data EXCEPT ![r] =
                 [kind |-> o.kind, amount |-> o.amount, isFanOutLeg |-> FALSE,
                  onSuccess |-> o.onSuccess, legs |-> {r}]]
    /\ request' = [request EXCEPT ![r] = "checked"]
    /\ UNCHANGED <<potVars, ledgerVars, fundingVars, workerVars, providerVars,
                   handler, applied, faults>>

\* Mutant of refundShares: every leg fires, whether or not it covers its fee.
refundSharesUncovered(S, first, bal) ==
    LET n     == Cardinality(S)
        share == bal \div n
    IN  [r \in S |-> (IF r = first THEN bal - (n - 1) * share ELSE share) - OUTBOUND_FEE]

\* The legs' truncated shares of the pool, but for the largest leg: it gets what
\* the others leave.
distributeExactly(share, largest, firing, pool) ==
    [r \in firing |->
        IF r = largest THEN pool - MapThenSumSet(LAMBDA x : share[x], firing \ {largest})
        ELSE share[r]]

\* The legs that clear their own fee when the pool is split among firing.
nextFiring(share, largest, firing, pool) ==
    {r \in firing : distributeExactly(share, largest, firing, pool)[r] > OUTBOUND_FEE}

\* What is left for each leg: the ones that do not clear their fee are dropped
\* and the pool is split again among the others, all of which then clear theirs
\* (RefundIsExact), so that the loop ends.
narrowToFeeCoveredLegs(share, largest, legs, pool) ==
    LET firing == nextFiring(share, largest, legs, pool)
    IN  [r \in legs |->
            IF r \in firing
            THEN distributeExactly(share, largest, firing, pool)[r] - OUTBOUND_FEE
            ELSE 0]

\* The legs of a refund of equal contributions; of equal legs any may be the one
\* that absorbs the remainder.
refundShares(S, first, bal) ==
    narrowToFeeCoveredLegs([r \in S |-> bal \div Cardinality(S)], first, S, bal)

\* postContributorsRefund up to the lock: one leg per funded contribution, and
\* at least one leg covers its fee.
postContributorsRefund(S) ==
    /\ config.refundType = "contributors"
    /\ status = "open"
    /\ S # {}
    /\ Cardinality(S) = funded
    /\ \A r \in S : request[r] = "none"
    /\ balances["pot"] \div funded > 0
    /\ \E first \in S : refundShares(S, first, balances["pot"])[first] > 0
    /\ request' = [r \in Refs |-> IF r \in S THEN "checked" ELSE request[r]]
    /\ data' = [r \in Refs |-> IF r \in S
                 THEN [kind |-> "refund", amount |-> 0, isFanOutLeg |-> TRUE,
                       onSuccess |-> "none", legs |-> S]
                 ELSE data[r]]
    /\ UNCHANGED <<potVars, ledgerVars, fundingVars, workerVars, providerVars,
                   handler, applied, faults>>

\* Mutant of claimLock: the UPDATE has no WHERE pending_operation IS NULL.
claimLockUnconditional(S) ==
    /\ S # {}
    /\ \A r \in S : request[r] = "checked" /\ data[r].legs = S
    /\ \E first \in S :
          /\ pendingOperation' = data[first].kind
          /\ legCount' = Cardinality(S)
          /\ request' = [r \in Refs |-> IF r \in S THEN "claimed" ELSE request[r]]
          /\ data' = [r \in Refs |->
                 IF r \in S /\ data[r].isFanOutLeg
                 THEN [data[r] EXCEPT !.amount = refundShares(S, first, balances["pot"])[r]]
                 ELSE data[r]]
    /\ UNCHANGED <<config, status, closer, ledgerVars, fundingVars, workerVars,
                   providerVars, handler, applied, faults>>

\* UPDATE pots ... WHERE pending_operation IS NULL.  The loser throws and its
\* references are never used.  A fan-out refund then re-reads the balance and
\* rescales its legs.
claimLock(S) ==
    /\ S # {}
    /\ \A r \in S : request[r] = "checked" /\ data[r].legs = S
    /\ \/ /\ pendingOperation = "none"
          /\ \E first \in S :
                /\ pendingOperation' = data[first].kind
                /\ legCount' = Cardinality(S)
                /\ request' = [r \in Refs |-> IF r \in S THEN "claimed" ELSE request[r]]
                /\ data' = [r \in Refs |->
                       IF r \in S /\ data[r].isFanOutLeg
                       THEN [data[r] EXCEPT !.amount =
                               refundShares(S, first, balances["pot"])[r]]
                       ELSE data[r]]
       \/ /\ pendingOperation # "none"
          /\ request' = [r \in Refs |-> IF r \in S THEN "none" ELSE request[r]]
          /\ data' = [r \in Refs |-> IF r \in S THEN NoLeg ELSE data[r]]
          /\ UNCHANGED <<pendingOperation, legCount>>
    /\ UNCHANGED <<config, status, closer, ledgerVars, fundingVars, workerVars,
                   providerVars, handler, applied, faults>>

\* Adding the job to the transfers queue.  A failure propagates to the caller:
\* the legs not yet enqueued never are, and nobody releases the lock.
enqueue(r) ==
    /\ request[r] = "claimed"
    /\ data[r].amount > 0
    /\ \/ /\ request' = [request EXCEPT ![r] = "enqueued"]
          /\ job' = [job EXCEPT ![r] = "waiting"]
          /\ UNCHANGED faults
       \/ /\ Fault("enqueue")
          /\ request' = [s \in Refs |->
                 IF s \in data[r].legs /\ request[s] \in {"claimed", "clear"}
                 THEN "abandoned" ELSE request[s]]
          /\ UNCHANGED job
    /\ UNCHANGED <<potVars, ledgerVars, fundingVars, data, tries, stalls, pc, end,
                   providerVars, handler, applied>>

\* A leg the rescaling left with nothing gives its share of the lock back.
dropLeg(r) ==
    /\ data[r].amount = 0
    /\ \/ /\ request[r] = "claimed"
          /\ decrementLeg
          /\ request' = [request EXCEPT ![r] =
                 IF DecrementedLegCount = 0 THEN "clear" ELSE "dropped"]
       \/ /\ request[r] = "clear"
          /\ clearPendingOperation
          /\ request' = [request EXCEPT ![r] = "dropped"]
    /\ UNCHANGED <<ledgerVars, fundingVars, data, workerVars, providerVars,
                   handler, applied, faults>>
-----------------------------------------------------------------------------
(* PotsService.close: the checks, then a conditional update. *)

closeCheck ==
    /\ closer = "idle"
    /\ status = "open"
    /\ pendingOperation = "none"
    /\ balances["pot"] = 0
    /\ closer' = "checked"
    /\ UNCHANGED <<config, status, pendingOperation, legCount, ledgerVars, fundingVars,
                   requestVars, workerVars, providerVars, handler, applied, faults>>

\* Mutant of closeUpdate: the UPDATE has no WHERE pending_operation IS NULL.
closeUpdateUnconditional ==
    /\ closer = "checked"
    /\ closer' = "idle"
    /\ status' = "closed"
    /\ UNCHANGED <<config, pendingOperation, legCount, ledgerVars, fundingVars,
                   requestVars, workerVars, providerVars, handler, applied, faults>>

closeUpdate ==
    /\ closer = "checked"
    /\ closer' = "idle"
    /\ status' = IF pendingOperation = "none" THEN "closed" ELSE status
    /\ UNCHANGED <<config, pendingOperation, legCount, ledgerVars, fundingVars,
                   requestVars, workerVars, providerVars, handler, applied, faults>>
-----------------------------------------------------------------------------
(* The transfers worker: one job execution, statement by statement. *)

Goto(r, step, how) ==
    /\ pc' = [pc EXCEPT ![r] = step]
    /\ end' = [end EXCEPT ![r] = how]
    /\ UNCHANGED <<job, tries, stalls>>

\* The processor returns, throws (a further attempt if one is left) or throws
\* UnrecoverableError, in or out of the try block (no further attempt).
JobAfter(r, how) ==
    CASE how = "return" -> "completed"
      [] how = "throw"  -> IF tries[r] < Attempts THEN "waiting" ELSE "failed"
      [] OTHER          -> "failed"

Finish(r, how) ==
    /\ job' = [job EXCEPT ![r] = JobAfter(r, how)]
    /\ pc' = [pc EXCEPT ![r] = "idle"]
    /\ end' = [end EXCEPT ![r] = "return"]
    /\ UNCHANGED <<tries, stalls>>

\* A job is taken once the recipient's throttle has a slot; a job that gets
\* none is delayed and changes nothing.  If the throttle itself fails, the
\* lock is released and the error rethrown.
startJob(r) ==
    /\ job[r] = "waiting"
    /\ job' = [job EXCEPT ![r] = "active"]
    /\ tries' = [tries EXCEPT ![r] = @ + 1]
    /\ \/ /\ pc' = [pc EXCEPT ![r] = "balance"]
          /\ UNCHANGED <<end, faults>>
       \/ /\ Fault("reserve")
          /\ pc' = [pc EXCEPT ![r] = "release"]
          /\ end' = [end EXCEPT ![r] = "throw"]
    /\ UNCHANGED <<potVars, ledgerVars, fundingVars, requestVars, stalls,
                   providerVars, handler, applied>>

checkBalance(r) ==
    /\ pc[r] = "balance"
    /\ IF balances["pot"] < data[r].amount + OUTBOUND_FEE
       THEN Goto(r, "release", "unrecoverable")
       ELSE Goto(r, "existing", "return")
    /\ UNCHANGED <<potVars, ledgerVars, fundingVars, requestVars, providerVars,
                   handler, applied, faults>>

\* A row already 'processing' ends the job; otherwise the destination is looked
\* up, and a failing lookup is thrown with the lock still held.
checkExisting(r) ==
    /\ pc[r] = "existing"
    /\ \/ tx[r] = "processing" /\ Finish(r, "return") /\ UNCHANGED faults
       \/ tx[r] # "processing" /\ Goto(r, "post", "return") /\ UNCHANGED faults
       \/ tx[r] # "processing" /\ Fault("lookup") /\ Finish(r, "throw")
    /\ UNCHANGED <<potVars, ledgerVars, fundingVars, requestVars, providerVars,
                   handler, applied>>

\* Mutant of post: a reference that has a row is posted once more.
postAgain(r) ==
    /\ pc[r] = "post"
    /\ IF CanApply(balances, outboundFeeLegs(data[r].amount))
       THEN postTransaction(r) /\ Goto(r, "call", "return")
       ELSE UNCHANGED ledgerVars /\ Goto(r, "release", "unrecoverable")
    /\ UNCHANGED <<potVars, fundingVars, requestVars, providerVars, handler, applied,
                   faults>>

\* An existing row is returned as it is, whatever its status.
post(r) ==
    /\ pc[r] = "post"
    /\ \/ /\ tx[r] # "none"
          /\ Goto(r, "call", "return")
          /\ UNCHANGED <<ledgerVars, faults>>
       \/ /\ tx[r] = "none"
          /\ CanApply(balances, outboundFeeLegs(data[r].amount))
          /\ postTransaction(r)
          /\ Goto(r, "call", "return")
          /\ UNCHANGED faults
       \/ /\ tx[r] = "none"
          /\ ~CanApply(balances, outboundFeeLegs(data[r].amount))
          /\ Goto(r, "release", "unrecoverable")
          /\ UNCHANGED <<ledgerVars, faults>>
       \/ /\ tx[r] = "none"
          /\ Fault("db")
          /\ Goto(r, "release", "throw")
          /\ UNCHANGED ledgerVars
    /\ UNCHANGED <<potVars, fundingVars, requestVars, providerVars, handler, applied>>

Notify(r, outcome) == hooks' = [hooks EXCEPT ![r] = @ \union {outcome}]

\* A transfer the provider never saw, or refused, is attempted afresh; it
\* answers a repeated merchantTxRef with what became of the first.
Fresh(r) == nomba[r] \in {"none", "failed"}

callSuccess(r) ==
    /\ pc[r] = "call"
    /\ Fresh(r) \/ nomba[r] = "executed"
    /\ nomba' = [nomba EXCEPT ![r] = "executed"]
    /\ IF Fresh(r) THEN Notify(r, "success") ELSE UNCHANGED hooks
    /\ Goto(r, "complete", "return")
    /\ UNCHANGED <<potVars, ledgerVars, fundingVars, requestVars, handler, applied, faults>>

\* Mutant of callPending: a pending transfer is taken for a completed one.
callPendingCompletes(r) ==
    /\ pc[r] = "call"
    /\ Fresh(r) \/ nomba[r] = "pending"
    /\ nomba' = [nomba EXCEPT ![r] = "pending"]
    /\ Goto(r, "complete", "return")
    /\ UNCHANGED <<potVars, ledgerVars, fundingVars, requestVars, hooks, handler,
                   applied, faults>>

\* Mutant of callPending: a pending transfer is taken for a refused one.
callPendingReverses(r) ==
    /\ pc[r] = "call"
    /\ Fresh(r) \/ nomba[r] = "pending"
    /\ nomba' = [nomba EXCEPT ![r] = "pending"]
    /\ Goto(r, "reverse", "unrecoverable")
    /\ UNCHANGED <<potVars, ledgerVars, fundingVars, requestVars, hooks, handler,
                   applied, faults>>

\* Mutant of callPending: the job of a pending transfer gives the lock back as it ends.
callPendingUnlocks(r) ==
    /\ pc[r] = "call"
    /\ Fresh(r) \/ nomba[r] = "pending"
    /\ nomba' = [nomba EXCEPT ![r] = "pending"]
    /\ clearPendingOperation
    /\ Finish(r, "return")
    /\ UNCHANGED <<ledgerVars, fundingVars, requestVars, hooks, handler, applied, faults>>

\* PENDING_BILLING: the row stays 'processing' and the lock held.
callPending(r) ==
    /\ pc[r] = "call"
    /\ Fresh(r) \/ nomba[r] = "pending"
    /\ nomba' = [nomba EXCEPT ![r] = "pending"]
    /\ Finish(r, "return")
    /\ UNCHANGED <<potVars, ledgerVars, fundingVars, requestVars, hooks, handler,
                   applied, faults>>

\* A definitive failure status ("definitive": handled inside the try block) or an
\* HTTP rejection (handled in the catch block): confirmed not executed.  The
\* provider may or may not also send a webhook.
callRejected(r) ==
    /\ pc[r] = "call"
    /\ Fresh(r)
    /\ nomba' = [nomba EXCEPT ![r] = "failed"]
    /\ Notify(r, "failed") \/ UNCHANGED hooks
    /\ \E how \in {"definitive", "unrecoverable"} : Goto(r, "reverse", how)
    /\ UNCHANGED <<potVars, ledgerVars, fundingVars, requestVars, handler, applied, faults>>

\* No response: the transfer may have been lost, accepted or executed.  The
\* row stays 'processing', the lock held, and the error is rethrown.
callTimeout(r) ==
    /\ pc[r] = "call"
    /\ Fault("timeout")
    /\ \/ UNCHANGED providerVars
       \/ Fresh(r) /\ nomba' = [nomba EXCEPT ![r] = "pending"] /\ UNCHANGED hooks
       \/ Fresh(r) /\ nomba' = [nomba EXCEPT ![r] = "executed"] /\ Notify(r, "success")
    /\ Finish(r, "throw")
    /\ UNCHANGED <<potVars, ledgerVars, fundingVars, requestVars, handler, applied>>

\* A failed statement of the try block after the posting lands in the same catch
\* as a rejection, and reverses; one that fails in the catch block, or before the
\* try block, is rethrown as it is.
dbFailure(r) ==
    /\ Fault("db")
    /\ \/ /\ \/ pc[r] \in {"call", "complete", "apply"}
             \/ pc[r] \in {"reverse", "release", "clear"}
                  /\ end[r] \in {"return", "definitive"}
          /\ Goto(r, "reverse", "unrecoverable")
       \/ /\ pc[r] \in {"reverse", "release", "clear"}
          /\ end[r] \in {"throw", "unrecoverable"}
          /\ Finish(r, "throw")
    /\ UNCHANGED <<potVars, ledgerVars, fundingVars, requestVars, providerVars,
                   handler, applied>>

complete(r) ==
    /\ pc[r] = "complete"
    /\ markCompleted(r)
    /\ Goto(r, "release", "return")
    /\ UNCHANGED <<potVars, fundingVars, requestVars, providerVars, handler, applied, faults>>

reverse(r) ==
    /\ pc[r] = "reverse"
    /\ reverseTransaction(r)
    /\ Goto(r, "release", end[r])
    /\ UNCHANGED <<potVars, fundingVars, requestVars, providerVars, handler, applied, faults>>

\* What follows releaseLock in the branch the processor is in.
AfterRelease(r) ==
    IF end[r] = "return" /\ data[r].onSuccess # "none"
    THEN Goto(r, "apply", "return") ELSE Finish(r, end[r])

\* Mutant of releaseLock: the leg of a fan-out refund clears the whole lock.
releaseLockWhole(r) ==
    /\ pc[r] = "release"
    /\ clearPendingOperation
    /\ AfterRelease(r)
    /\ UNCHANGED <<ledgerVars, fundingVars, requestVars, providerVars, handler,
                   applied, faults>>

releaseLock(r) ==
    /\ pc[r] = "release"
    /\ IF data[r].isFanOutLeg
       THEN /\ decrementLeg
            /\ IF DecrementedLegCount = 0 THEN Goto(r, "clear", end[r])
               ELSE AfterRelease(r)
       ELSE clearPendingOperation /\ AfterRelease(r)
    /\ UNCHANGED <<ledgerVars, fundingVars, requestVars, providerVars, handler,
                   applied, faults>>

clearLock(r) ==
    /\ pc[r] = "clear"
    /\ clearPendingOperation
    /\ AfterRelease(r)
    /\ UNCHANGED <<ledgerVars, fundingVars, requestVars, providerVars, handler,
                   applied, faults>>

apply(r) ==
    /\ pc[r] = "apply"
    /\ applyOnSuccess(r)
    /\ Finish(r, "return")
    /\ UNCHANGED <<ledgerVars, fundingVars, requestVars, providerVars, handler, faults>>

\* The worker dies: BullMQ hands a stalled job out again once, and fails it
\* the second time.
workerCrash(r) ==
    /\ job[r] = "active"
    /\ Fault("crash")
    /\ job' = [job EXCEPT ![r] = IF stalls[r] = 0 THEN "waiting" ELSE "failed"]
    /\ stalls' = [stalls EXCEPT ![r] = @ + 1]
    /\ pc' = [pc EXCEPT ![r] = "idle"]
    /\ end' = [end EXCEPT ![r] = "return"]
    /\ UNCHANGED <<potVars, ledgerVars, fundingVars, requestVars, tries, providerVars,
                   handler, applied>>

\* FailedJobTracker.retry: a new job with the payload, and the reference, of
\* the failed one.  It is given 3 attempts where the first had 5; Attempts bounds
\* both.
retryFailedJob(r) ==
    /\ job[r] = "failed"
    /\ Fault("operator")
    /\ job' = [job EXCEPT ![r] = "waiting"]
    /\ tries' = [tries EXCEPT ![r] = 0]
    /\ stalls' = [stalls EXCEPT ![r] = 0]
    /\ UNCHANGED <<potVars, ledgerVars, fundingVars, requestVars, pc, end,
                   providerVars, handler, applied>>

workerStep(r) ==
    \/ startJob(r) \/ checkBalance(r) \/ checkExisting(r) \/ post(r)
    \/ callSuccess(r) \/ callPending(r) \/ callRejected(r) \/ callTimeout(r)
    \/ complete(r) \/ reverse(r) \/ releaseLock(r) \/ clearLock(r) \/ apply(r)
-----------------------------------------------------------------------------
(* The provider settles a pending transfer and says so. *)

settle(r) ==
    /\ nomba[r] = "pending"
    /\ \/ nomba' = [nomba EXCEPT ![r] = "executed"] /\ Notify(r, "success")
       \/ nomba' = [nomba EXCEPT ![r] = "failed"] /\ Notify(r, "failed")
    /\ UNCHANGED <<potVars, ledgerVars, fundingVars, requestVars, workerVars,
                   handler, applied, faults>>

(* resolvePendingTransfer, called by the webhook handler. *)

\* Mutant of resolveRead: the webhook of a failed payout is dropped.
resolveReadSuccessOnly(r) ==
    /\ handler[r] = "idle"
    /\ "overtake" \in Faults \/ pc[r] = "idle"
    /\ \E outcome \in hooks[r] :
          /\ hooks' = [hooks EXCEPT ![r] = @ \ {outcome}]
          /\ handler' = [handler EXCEPT ![r] =
                 IF tx[r] = "processing" /\ outcome = "success" THEN "complete" ELSE "idle"]
    /\ UNCHANGED <<potVars, ledgerVars, fundingVars, requestVars, workerVars, nomba,
                   applied, faults>>

\* The status is read once, and what is not 'processing' is left alone.
\* Without "overtake" the worker is done with the response by then.
resolveRead(r) ==
    /\ handler[r] = "idle"
    /\ "overtake" \in Faults \/ pc[r] = "idle"
    /\ \E outcome \in hooks[r] :
          /\ hooks' = [hooks EXCEPT ![r] = @ \ {outcome}]
          /\ handler' = [handler EXCEPT ![r] =
                 IF tx[r] # "processing" THEN "idle"
                 ELSE IF outcome = "success" THEN "complete" ELSE "reverse"]
    /\ UNCHANGED <<potVars, ledgerVars, fundingVars, requestVars, workerVars, nomba,
                   applied, faults>>

resolveLedger(r) ==
    /\ \/ /\ handler[r] = "complete"
          /\ markCompleted(r)
          /\ handler' = [handler EXCEPT ![r] =
                 IF data[r].onSuccess # "none" THEN "apply" ELSE "decrement"]
       \/ /\ handler[r] = "reverse"
          /\ reverseTransaction(r)
          /\ handler' = [handler EXCEPT ![r] = "decrement"]
    /\ UNCHANGED <<potVars, fundingVars, requestVars, workerVars, providerVars,
                   applied, faults>>

resolveApply(r) ==
    /\ handler[r] = "apply"
    /\ applyOnSuccess(r)
    /\ handler' = [handler EXCEPT ![r] = "decrement"]
    /\ UNCHANGED <<ledgerVars, fundingVars, requestVars, workerVars, providerVars, faults>>

\* Mutant of resolveRelease: the count reaches zero and the lock is not cleared.
resolveReleaseCountOnly(r) ==
    /\ handler[r] = "decrement"
    /\ decrementLeg
    /\ handler' = [handler EXCEPT ![r] = "idle"]
    /\ UNCHANGED <<ledgerVars, fundingVars, requestVars, workerVars, providerVars,
                   applied, faults>>

resolveRelease(r) ==
    /\ \/ /\ handler[r] = "decrement"
          /\ decrementLeg
          /\ handler' = [handler EXCEPT ![r] =
                 IF DecrementedLegCount = 0 THEN "clear" ELSE "idle"]
       \/ /\ handler[r] = "clear"
          /\ clearPendingOperation
          /\ handler' = [handler EXCEPT ![r] = "idle"]
    /\ UNCHANGED <<ledgerVars, fundingVars, requestVars, workerVars, providerVars,
                   applied, faults>>

webhookStep(r) ==
    resolveRead(r) \/ resolveLedger(r) \/ resolveApply(r) \/ resolveRelease(r)
-----------------------------------------------------------------------------
Next ==
    \/ confirmFunding \/ reverseFundingCheck \/ reverseFundingPost
    \/ closeCheck \/ closeUpdate
    \/ \E S \in SUBSET Refs : postContributorsRefund(S) \/ claimLock(S)
    \/ \E r \in Refs :
          \/ postFixedAmountDisbursement(r) \/ enqueue(r) \/ dropLeg(r)
          \/ workerStep(r) \/ dbFailure(r) \/ workerCrash(r) \/ retryFailedJob(r)
          \/ settle(r) \/ webhookStep(r)

\* A caller runs to its end, workers and webhook deliveries keep going, and the
\* provider settles what it accepted.
Fairness ==
    /\ \A S \in SUBSET Refs : WF_vars(claimLock(S))
    /\ \A r \in Refs : /\ WF_vars(enqueue(r) \/ dropLeg(r))
                       /\ WF_vars(workerStep(r))
                       /\ WF_vars(webhookStep(r))
                       /\ WF_vars(settle(r))

Spec     == Init /\ [][Next]_vars
FairSpec == Spec /\ Fairness
-----------------------------------------------------------------------------
(* Properties *)

PotTypeOK ==
    /\ config \in Configs
    /\ status \in {"open", "closed"}
    /\ pendingOperation \in {"none", "payout", "refund"}
    /\ legCount \in Nat
    /\ closer \in {"idle", "checked"}

LedgerTypeOK ==
    /\ balances \in [Accounts -> Int]
    /\ tx \in [Refs -> {"none", "processing", "completed", "reversed"}]
    /\ reversals \in SUBSET Refs

FundingTypeOK ==
    /\ received \in Nat
    /\ funded \in Nat
    /\ reverser \in {"idle", "checked"}

RequestTypeOK ==
    /\ request \in [Refs -> {"none", "checked", "claimed", "enqueued", "clear",
                             "dropped", "abandoned"}]
    /\ data \in [Refs -> [kind : {"payout", "refund"}, amount : Nat,
                          isFanOutLeg : BOOLEAN, onSuccess : OnSuccess,
                          legs : SUBSET Refs]]

WorkerTypeOK ==
    /\ job \in [Refs -> {"none", "waiting", "active", "completed", "failed"}]
    /\ tries \in [Refs -> Nat]
    /\ stalls \in [Refs -> Nat]
    /\ pc \in [Refs -> {"idle", "balance", "existing", "post", "call", "complete",
                        "reverse", "release", "clear", "apply"}]
    /\ end \in [Refs -> {"return", "throw", "unrecoverable", "definitive"}]

ProviderTypeOK ==
    /\ nomba \in [Refs -> {"none", "pending", "executed", "failed"}]
    /\ hooks \in [Refs -> SUBSET {"success", "failed"}]

WebhookTypeOK ==
    /\ handler \in [Refs -> {"idle", "complete", "reverse", "apply", "decrement", "clear"}]
    /\ applied \in [Refs -> Nat]

\* Every variable keeps its type.  In particular no leg is ever given a negative
\* amount and no counter goes below zero.
TypeOK ==
    /\ PotTypeOK /\ LedgerTypeOK /\ FundingTypeOK /\ RequestTypeOK
    /\ WorkerTypeOK /\ ProviderTypeOK /\ WebhookTypeOK
    /\ faults \in Nat

\* The books balance: what the debit-normal accounts hold equals what the
\* credit-normal ones do, the provider's fees cancel out, and no account is
\* ever negative, whatever fails (ledger.service.ts: a posting is one database
\* transaction and a reversal is posted once).
BooksBalance ==
    /\ balances["platform_float"] + balances["nomba_fee_expense"] + balances["suspense"]
         = balances["pot"] + balances["platform_revenue"] + balances["nomba_clearing"]
    /\ balances["nomba_fee_expense"] = balances["nomba_clearing"]
    /\ \A a \in Accounts : balances[a] >= 0

Debited(r) == tx[r] # "none" /\ r \notin reversals

\* The pot's balance is what was contributed minus what its standing
\* disbursements and their fees took: no retry, duplicate webhook or repeated
\* reversal debits or credits the pot twice.
PotReconciles ==
    balances["pot"] =
        funded * IntendedAmount
          - MapThenSumSet(LAMBDA r : data[r].amount + OUTBOUND_FEE,
                          {r \in Refs : Debited(r)})

\* No transfer reaches the provider before its ledger transaction is posted
\* (processLedgerDisbursement posts first, so reconciliation can see it).
PostedBeforeSent == \A r \in Refs : nomba[r] # "none" => tx[r] # "none"

\* Money that left is never given back to the pot: a transaction is reversed
\* only when its transfer did not execute and will not (docs/system-rules.md 13,
\* "confirmed not-executed").
ReversedNeverExecuted ==
    \A r \in reversals : nomba[r] \notin {"executed", "pending"}

\* Legs whose share of the lock has not been given back.
Holding(r) ==
    \/ request[r] = "claimed"
    \/ job[r] = "waiting"
    \/ job[r] = "active" /\ pc[r] \notin {"clear", "apply"}
    \/ tx[r] = "processing"
    \/ handler[r] \in {"apply", "decrement"}

\* Money in flight is tagged: while a leg is unresolved the lock is held and
\* counts exactly the unresolved legs (pots.ts on pendingOperation).
LockCountsUnresolvedLegs ==
    /\ legCount = Cardinality({r \in Refs : Holding(r)})
    /\ \A r \in Refs : Holding(r) => pendingOperation # "none"

\* Two operations are never in flight on the same pot: unresolved legs all
\* belong to one payout or one refund.
OneOperationInFlight ==
    \A r, s \in Refs : Holding(r) /\ Holding(s) => data[r].legs = data[s].legs

\* What has become of a leg, by its transaction and the provider's record of it; a leg
\* is "lost" if the two disagree.
Outcome(r) ==
    CASE tx[r] = "none" /\ request[r] \in {"none", "checked"}   -> "new"
      [] tx[r] = "none" /\ request[r] \notin {"none", "checked"} ->
            IF Holding(r) THEN "due" ELSE "declined"
      [] tx[r] = "processing"                                   -> "sent"
      [] tx[r] = "completed" /\ nomba[r] = "executed"           -> "paid"
      [] tx[r] = "reversed" /\ nomba[r] = "failed"              -> "returned"
      [] OTHER                                                  -> "lost"

\* What a leg of a claimed operation takes from the pot.
Cost(r) ==
    IF request[r] \in {"none", "checked"} THEN 0 ELSE data[r].amount + OUTBOUND_FEE

W == INSTANCE Withdrawals WITH
        Contribution <- IntendedAmount,
        balance      <- balances["pot"],
        leg          <- [r \in Refs |-> Outcome(r)],
        cost         <- [r \in Refs |-> Cost(r)],
        operation    <- {r \in Refs : Holding(r)}

\* Callers, workers and webhooks together do what the pot promises: one operation at a
\* time, whose legs are each withdrawn at most once, and then paid or given back as the
\* provider's record has it, never both (docs/system-rules.md, the pot-wide lock).
ImplementsWithdrawals == W!Spec

\* A pot is closed only when no disbursement is unresolved, so that no reversal
\* lands on a closed pot (close()'s comment on the WHERE clause).
ClosesOnlyWhenSettled ==
    [][status = "open" /\ status' = "closed" =>
          \A r \in Refs : tx[r] # "processing"]_vars

\* A config advances once per transfer, and only for one that executed
\* (applyOnSuccess: fired/nextRunAt state reflects reality).
AppliedOncePerTransfer ==
    \A r \in Refs : applied[r] > 0 => applied[r] = 1 /\ nomba[r] = "executed"

\* Every operation releases the pot: the lock is never held for ever.
LockReleased == pendingOperation # "none" ~> pendingOperation = "none"

\* Every posted transaction is eventually settled.
ProcessingResolved == \A r \in Refs : tx[r] = "processing" ~> tx[r] # "processing"

\* A 'processing' transaction keeps the lock held until its outcome is known
\* (worker.ts: "leave it 'processing' and the lock held").
ProcessingHoldsLock == \A r \in Refs : tx[r] = "processing" => pendingOperation # "none"

\* A pot is closed only at zero balance (pots.ts: "closed (terminal, only
\* reachable at zero balance)").
ClosesOnlyAtZero == [][status = "open" /\ status' = "closed" => balances["pot"] = 0]_vars

\* A config with a target date closes its pot once it fired (target-based-payout
\* .service.ts: "A targetDate config fires once then closes the pot").
FiredTargetDateCloses == Fired /\ config.targetDate ~> status = "closed"
-----------------------------------------------------------------------------
(* Inductive invariants, used by DisbursementProofs. *)

\* The worker and the webhook handler settle, and the provider knows, only what
\* was posted.
SettlesOnlyPosted ==
    \A r \in Refs : tx[r] = "none" =>
        /\ pc[r] \in {"idle", "balance", "existing", "post", "release", "clear"}
        /\ pc[r] \in {"release", "clear"} => end[r] \in {"throw", "unrecoverable"}
        /\ handler[r] \notin {"complete", "reverse"}
        /\ nomba[r] = "none"
        /\ hooks[r] = {}
        /\ r \notin reversals

StandingDisbursements == {r \in Refs : Debited(r)}

\* The platform has earned its fee of every standing contribution and of every
\* standing disbursement, and recognised the provider's: what keeps the fee
\* accounts from going negative when a disbursement is reversed.
FeesReconcile ==
    /\ balances["platform_revenue"] =
          PLATFORM_INBOUND_FEE * funded
            + PLATFORM_OUTBOUND_FEE * Cardinality(StandingDisbursements)
    /\ balances["nomba_clearing"] =
          nombaInboundFeeFor(IntendedAmount) * funded
            + NOMBA_OUTBOUND_FEE * Cardinality(StandingDisbursements)
    /\ balances["suspense"] = 0

\* Without the failures that make a worker lose track of a posted transaction,
\* a job runs only for a reference that has no row, so that a transfer is
\* called once and reversed only after it was refused.
CalledOnce ==
    \A r \in Refs :
        /\ request[r] \in {"none", "checked", "claimed"} => tx[r] = "none" /\ job[r] = "none"
        /\ job[r] # "active" => pc[r] = "idle"
        /\ job[r] = "none" => tx[r] = "none"
        /\ job[r] = "waiting" => tx[r] = "none"
        /\ pc[r] \in {"balance", "existing", "post"} => tx[r] = "none"
        /\ pc[r] \in {"release", "clear"} /\ end[r] = "throw" => tx[r] = "none"
        /\ pc[r] = "reverse" => end[r] # "throw"
        /\ pc[r] = "call" => nomba[r] = "none"
        /\ pc[r] = "reverse" \/ handler[r] = "reverse" \/ "failed" \in hooks[r]
              \/ r \in reversals => nomba[r] = "failed"
=============================================================================
