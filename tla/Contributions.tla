--------------------------- MODULE Contributions ----------------------------
(***************************************************************************)
(* How money comes in: one contribution, the payments into its virtual     *)
(* account, and what becomes of them (contributions.service.ts,            *)
(* expiry.service.ts, worker.ts).                                          *)
(*                                                                         *)
(* Each payment_success webhook runs confirmFunding; payments may arrive   *)
(* together.  Once the contribution has expired, a sweep claims it and     *)
(* enqueues the refund of each recorded payment, which the transfers       *)
(* worker posts against suspense and sends.  A payment_reversal takes a    *)
(* funded contribution back.  Events are dispatched as EventInbox says:    *)
(* one dispatch of an event at a time, and another only if it threw.       *)
(***************************************************************************)
EXTENDS LedgerBook, FiniteSets, FiniteSetsExt

CONSTANTS
    Payments,        \* payments, by the provider's transactionId
    Amounts,         \* amounts a payment may have, in kobo
    Payloads,        \* what a payment's webhook may lack, a subset of PayloadKinds
    IntendedAmount,  \* contributions.intendedAmount
    OtherFunds,      \* contributed earlier, to this pot
    Attempts,        \* attempts of a refund job (5 in the code)
    Faults,          \* the failures admitted, a subset of FaultKinds
    MaxFaults        \* bound on the failures in one behaviour

PayloadKinds == {"complete", "no sender", "bad amount"}

FaultKinds ==
    {"db",        \* a statement of a webhook handler or of the worker fails
     "die",       \* the process dies while it handles an event
     "enqueue",   \* a refund job cannot be added to the queue
     "lookup",    \* the bank account lookup fails
     "rejected",  \* the provider refuses a transfer
     "timeout",   \* a transfer call gets no response
     "busy"}      \* the pot has a payout or refund in flight

ASSUME FundingAssumption ==
    /\ IsFiniteSet(Payments)
    /\ "reversal" \notin Payments
    /\ Amounts \subseteq Nat \ {0}
    /\ Payloads \subseteq PayloadKinds
    /\ IntendedAmount \in Nat \ {0}
    /\ OtherFunds \in Nat
    /\ Attempts \in Nat \ {0}
    /\ Faults \subseteq FaultKinds
    /\ MaxFaults \in Nat

\* The payment_success event of each payment, and one payment_reversal.
Events == Payments \union {"reversal"}

VARIABLES
    amount,     \* the amount of each payment
    payload,    \* what its webhook carries
    account,    \* the virtual account: "open" or, once expiresAt passed, "expired"
    paid,       \* payments made
    inbox,      \* provider_events
    pc,         \* the position of the handler of each event
    total,      \* the total a handler read
    status,     \* contributions.status
    rows,       \* payments recorded in contribution_payments
    refunded,   \* payments whose refunded flag is set
    credit,     \* the transaction contribution_<id>: "none", "completed" or "reversed"
    excessTx,   \* payments whose overpayment_refund_<id> is posted
    excessSent, \* payments whose overpayment the provider sent back
    expiryTx,   \* the transaction expiry_refund_<id> of each payment
    reversals,  \* payments whose expiry_refund_<id>_reversal is posted
    balances,   \* the balances table
    sweep,      \* the sweep's position
    swept,      \* what the sweep works from: the status it read, the payments
                \* left to enqueue, and whether all went well
    job,        \* the refund job of each payment
    tries,      \* attempts made
    worker,     \* the worker's position
    nomba,      \* the provider's record of each refund transfer
    windows,    \* history: which of the code's unprotected windows were hit
    faults      \* failures so far

vars == <<amount, payload, account, paid, inbox, pc, total, status, rows, refunded,
          credit, excessTx, excessSent, expiryTx, reversals, balances, sweep, swept, job,
          tries, worker, nomba, windows, faults>>

bankVars    == <<amount, payload, account, paid>>
webhookVars == <<inbox, pc, total>>
tableVars   == <<status, rows, refunded>>
ledgerVars  == <<credit, excessTx, excessSent, expiryTx, reversals, balances>>
sweepVars   == <<sweep, swept>>
workerVars  == <<job, tries, worker, nomba>>

Inbox == INSTANCE EventInbox WITH Events <- Events, inbox <- inbox

ExpectedAmount == IntendedAmount + nombaInboundFeeFor(IntendedAmount) + PLATFORM_INBOUND_FEE

NothingSwept == [status |-> "pending", todo |-> {}, allEnqueuedOk |-> TRUE]

Init ==
    /\ amount \in [Payments -> Amounts]
    /\ payload \in [Payments -> Payloads]
    /\ account = "open"
    /\ paid = {}
    /\ Inbox!Init
    /\ pc = [e \in Events |-> "idle"]
    /\ total = [p \in Payments |-> 0]
    /\ status = "pending"
    /\ rows = {}
    /\ refunded = {}
    /\ credit = "none"
    /\ excessTx = {}
    /\ excessSent = {}
    /\ expiryTx = [p \in Payments |-> "none"]
    /\ reversals = {}
    /\ balances = IF OtherFunds = 0 THEN ZeroBalances
                  ELSE applyEntries(ZeroBalances, inboundFeeLegs(OtherFunds))
    /\ sweep = "idle"
    /\ swept = NothingSwept
    /\ job = [p \in Payments |-> "none"]
    /\ tries = [p \in Payments |-> 0]
    /\ worker = [p \in Payments |-> "idle"]
    /\ nomba = [p \in Payments |-> "none"]
    /\ windows = {}
    /\ faults = 0

Fault(kind) ==
    /\ kind \in Faults
    /\ faults < MaxFaults
    /\ faults' = faults + 1

Open == {"pending", "underpaid"}

Goto(e, step) == pc' = [pc EXCEPT ![e] = step]

\* The handler returns: the event is processed.
Return(e) == Inbox!Process(e) /\ Goto(e, "idle")

\* The handler throws: the claim is released and the provider delivers again.
Throw(e) == Inbox!Release(e) /\ Goto(e, "idle")
-----------------------------------------------------------------------------
(* Payers, the bank and time *)

pay(p) ==
    /\ p \notin paid
    /\ account = "open"
    /\ paid' = paid \union {p}
    /\ UNCHANGED <<amount, payload, account, webhookVars, tableVars, ledgerVars,
                   sweepVars, workerVars, windows, faults>>

expire ==
    /\ account = "open"
    /\ account' = "expired"
    /\ UNCHANGED <<amount, payload, paid, webhookVars, tableVars, ledgerVars, sweepVars,
                   workerVars, windows, faults>>
-----------------------------------------------------------------------------
(* confirmFunding *)

\* Handlers between their read of the status and their last write of it.
Confirming == {p \in Payments : pc[p] \in {"insert", "total", "underpaid", "post", "fund"}}

\* The event is claimed and the contribution found by its account number; one that
\* is no longer open is left alone, a payload without a sender throws, one whose
\* amount cannot be parsed is skipped.
confirmFunding(p) ==
    /\ p \in paid
    /\ inbox[p] = "new"
    /\ \/ /\ status \notin Open \/ payload[p] = "bad amount"
          /\ inbox' = [inbox EXCEPT ![p] = "processed"]
          /\ UNCHANGED <<pc, windows>>
       \/ /\ status \in Open
          /\ payload[p] = "complete"
          /\ Inbox!Claim(p)
          /\ Goto(p, "insert")
          /\ windows' = IF Confirming = {} THEN windows ELSE windows \union {"payments"}
    /\ UNCHANGED <<bankVars, total, tableVars, ledgerVars, sweepVars, workerVars, faults>>

\* Claimed and released again: the event stays as it was.
confirmThrows(p) ==
    /\ p \in paid
    /\ inbox[p] = "new"
    /\ status \in Open
    /\ payload[p] = "no sender"
    /\ UNCHANGED vars

\* INSERT into contribution_payments: a payment that was recorded is not counted
\* again, and nothing more is done about it.
insertPayment(p) ==
    /\ pc[p] = "insert"
    /\ \/ p \in rows /\ Return(p) /\ UNCHANGED rows
       \/ p \notin rows /\ rows' = rows \union {p} /\ Goto(p, "total") /\ UNCHANGED inbox
    /\ UNCHANGED <<bankVars, total, status, refunded, ledgerVars, sweepVars, workerVars,
                   windows, faults>>

SumOf(S) == MapThenSumSet(LAMBDA p : amount[p], S)

\* Mutant of readTotal: the payment just recorded is not yet in the sum.
readTotalBefore(p) ==
    /\ pc[p] = "total"
    /\ total' = [total EXCEPT ![p] = SumOf(rows \ {p})]
    /\ Goto(p, IF SumOf(rows \ {p}) < ExpectedAmount THEN "underpaid" ELSE "post")
    /\ UNCHANGED <<bankVars, inbox, tableVars, ledgerVars, sweepVars, workerVars, windows,
                   faults>>

readTotal(p) ==
    /\ pc[p] = "total"
    /\ total' = [total EXCEPT ![p] = SumOf(rows)]
    /\ Goto(p, IF SumOf(rows) < ExpectedAmount THEN "underpaid" ELSE "post")
    /\ UNCHANGED <<bankVars, inbox, tableVars, ledgerVars, sweepVars, workerVars, windows,
                   faults>>

\* UPDATE status = 'underpaid', whatever the status is by now.
markUnderpaid(p) ==
    /\ pc[p] = "underpaid"
    /\ status' = "underpaid"
    /\ Return(p)
    /\ UNCHANGED <<bankVars, total, rows, refunded, ledgerVars, sweepVars, workerVars,
                   windows, faults>>

\* Mutant of postContribution: the transaction's reference is not that of the
\* contribution but of the payment.
postContributionPerPayment(p) ==
    /\ pc[p] = "post"
    /\ credit' = "completed"
    /\ balances' = applyEntries(balances, inboundFeeLegs(IntendedAmount))
    /\ Goto(p, "fund")
    /\ UNCHANGED <<bankVars, inbox, total, tableVars, excessTx, excessSent, expiryTx,
                   reversals, sweepVars, workerVars, windows, faults>>

\* postTransaction, once per contribution, for the intended amount.
postContribution(p) ==
    /\ pc[p] = "post"
    /\ \/ /\ credit = "none"
          /\ credit' = "completed"
          /\ balances' = applyEntries(balances, inboundFeeLegs(IntendedAmount))
       \/ /\ credit # "none"
          /\ UNCHANGED <<credit, balances>>
    /\ Goto(p, "fund")
    /\ UNCHANGED <<bankVars, inbox, total, tableVars, excessTx, excessSent, expiryTx,
                   reversals, sweepVars, workerVars, windows, faults>>

\* UPDATE status = 'funded', whatever the status is by now.  The target-based
\* payout this may set off is Disbursement's, and its failure is swallowed.
markFunded(p) ==
    /\ pc[p] = "fund"
    /\ status' = "funded"
    /\ Goto(p, "excess")
    /\ UNCHANGED <<bankVars, inbox, total, rows, refunded, ledgerVars, sweepVars,
                   workerVars, windows, faults>>

\* Mutant of thisPaymentExcess: the part that was needed is not taken off.
thisPaymentExcessWhole(p) == amount[p]

\* The share of the excess this payment brought: no more than itself.
thisPaymentExcess(p) ==
    LET excess == total[p] - ExpectedAmount
    IN  IF amount[p] > excess THEN excess ELSE amount[p]

\* An excess that does not cover the transfer's fee is kept; otherwise its refund
\* is posted out of suspense.  A float that does not cover it throws.
postExcess(p) ==
    LET legs == suspenseRefundLegs(thisPaymentExcess(p) - OUTBOUND_FEE) IN
    /\ pc[p] = "excess"
    /\ \/ /\ thisPaymentExcess(p) <= OUTBOUND_FEE
          /\ Return(p)
          /\ UNCHANGED <<excessTx, balances>>
       \/ /\ thisPaymentExcess(p) > OUTBOUND_FEE
          /\ p \in excessTx \/ CanApply(balances, legs)
          /\ excessTx' = excessTx \union {p}
          /\ balances' = IF p \in excessTx THEN balances ELSE applyEntries(balances, legs)
          /\ Goto(p, "send")
          /\ UNCHANGED inbox
       \/ /\ thisPaymentExcess(p) > OUTBOUND_FEE
          /\ p \notin excessTx /\ ~CanApply(balances, legs)
          /\ Throw(p)
          /\ UNCHANGED <<excessTx, balances>>
    /\ UNCHANGED <<bankVars, total, tableVars, credit, excessSent, expiryTx, reversals,
                   sweepVars, workerVars, windows, faults>>

\* refundOverpayment: the transfer is sent; its status is not looked at, and an
\* error throws, with the ledger entry standing.
refundOverpayment(p) ==
    /\ pc[p] = "send"
    /\ \/ /\ excessSent' = excessSent \union {p}
          /\ Return(p)
          /\ UNCHANGED faults
       \/ /\ Fault("rejected")
          /\ Throw(p)
          /\ UNCHANGED excessSent
       \/ /\ Fault("timeout")
          /\ \E sent \in {{}, {p}} : excessSent' = excessSent \union sent
          /\ Throw(p)
    /\ UNCHANGED <<bankVars, total, tableVars, credit, excessTx, expiryTx, reversals,
                   balances, sweepVars, workerVars, windows>>

confirmStep(p) ==
    \/ insertPayment(p) \/ readTotal(p) \/ markUnderpaid(p)
    \/ postContribution(p) \/ markFunded(p) \/ postExcess(p) \/ refundOverpayment(p)
-----------------------------------------------------------------------------
(* reverseFunding *)

\* Nothing to reverse unless funded; a pot with an operation in flight throws, and
\* the event is delivered again.
reverseFunding ==
    /\ paid # {}
    /\ inbox["reversal"] = "new"
    /\ \/ /\ status # "funded"
          /\ inbox' = [inbox EXCEPT !["reversal"] = "processed"]
          /\ UNCHANGED <<pc, faults>>
       \/ /\ status = "funded"
          /\ Inbox!Claim("reversal")
          /\ Goto("reversal", "reverse")
          /\ UNCHANGED faults
       \/ /\ status = "funded"
          /\ Fault("busy")
          /\ UNCHANGED <<inbox, pc>>
    /\ UNCHANGED <<bankVars, total, tableVars, ledgerVars, sweepVars, workerVars, windows>>

\* reverseTransaction, idempotent by its reference.  It throws if the float no
\* longer holds the contribution.
reverseContribution ==
    LET legs == Flip(inboundFeeLegs(IntendedAmount)) IN
    /\ pc["reversal"] = "reverse"
    /\ \/ /\ credit = "completed" /\ CanApply(balances, legs)
          /\ credit' = "reversed"
          /\ balances' = applyEntries(balances, legs)
          /\ Goto("reversal", "mark")
          /\ UNCHANGED inbox
       \/ /\ credit = "reversed"
          /\ Goto("reversal", "mark")
          /\ UNCHANGED <<credit, balances, inbox>>
       \/ /\ credit = "completed" /\ ~CanApply(balances, legs)
          /\ Throw("reversal")
          /\ UNCHANGED <<credit, balances>>
    /\ UNCHANGED <<bankVars, total, tableVars, excessTx, excessSent, expiryTx, reversals,
                   sweepVars, workerVars, windows, faults>>

markReversed ==
    /\ pc["reversal"] = "mark"
    /\ status' = "reversed"
    /\ Return("reversal")
    /\ UNCHANGED <<bankVars, total, rows, refunded, ledgerVars, sweepVars, workerVars,
                   windows, faults>>

\* A statement fails, and the claim is released; or the process dies, and it is not.
handlerFails(e) ==
    /\ pc[e] # "idle"
    /\ \/ Fault("db") /\ Inbox!Release(e)
       \/ Fault("die") /\ UNCHANGED inbox
    /\ Goto(e, "idle")
    /\ windows' = windows \union (IF pc[e] \in {"total", "post"} THEN {"uncounted"}
                                  ELSE IF pc[e] = "fund" THEN {"interrupted"} ELSE {})
    /\ UNCHANGED <<bankVars, total, tableVars, ledgerVars, sweepVars, workerVars>>

reverseStep == reverseContribution \/ markReversed
-----------------------------------------------------------------------------
(* ExpiryService.sweepExpiredContributions; sweeps do not overlap. *)

selectExpired ==
    /\ sweep = "idle"
    /\ account # "open"
    /\ status \in Open
    /\ swept' = [status |-> status, todo |-> {}, allEnqueuedOk |-> TRUE]
    /\ sweep' = "claim"
    /\ UNCHANGED <<bankVars, webhookVars, tableVars, ledgerVars, workerVars, windows, faults>>

\* Mutant of claimExpired: the UPDATE has no condition on the status.
claimExpiredUnconditional ==
    /\ sweep = "claim"
    /\ status' = "failed"
    /\ sweep' = "payments"
    /\ windows' = IF Confirming = {} THEN windows ELSE windows \union {"sweep"}
    /\ UNCHANGED <<bankVars, webhookVars, rows, refunded, ledgerVars, swept, workerVars, faults>>

\* UPDATE status = 'failed' WHERE status IN (pending, underpaid): if the
\* contribution was funded meanwhile it is left alone.
claimExpired ==
    /\ sweep = "claim"
    /\ \/ /\ status \in Open
          /\ status' = "failed"
          /\ sweep' = "payments"
          /\ windows' = IF Confirming = {} THEN windows ELSE windows \union {"sweep"}
       \/ /\ status \notin Open
          /\ sweep' = "idle"
          /\ UNCHANGED <<status, windows>>
    /\ swept' = IF sweep' = "idle" THEN NothingSwept ELSE swept
    /\ UNCHANGED <<bankVars, webhookVars, rows, refunded, ledgerVars, workerVars, faults>>

\* The payments not yet refunded that cover the transfer's fee.
selectPayments ==
    /\ sweep = "payments"
    /\ swept' = [swept EXCEPT !.todo = {p \in rows \ refunded : amount[p] > OUTBOUND_FEE}]
    /\ sweep' = "enqueue"
    /\ UNCHANGED <<bankVars, webhookVars, tableVars, ledgerVars, workerVars, windows, faults>>

\* One job per payment; adding it again under the same jobId does nothing.
enqueueContributionRefund(p) ==
    /\ sweep = "enqueue"
    /\ p \in swept.todo
    /\ \/ /\ job' = [job EXCEPT ![p] = IF @ = "none" THEN "waiting" ELSE @]
          /\ swept' = [swept EXCEPT !.todo = @ \ {p}]
          /\ UNCHANGED faults
       \/ /\ Fault("enqueue")
          /\ swept' = [swept EXCEPT !.todo = @ \ {p}, !.allEnqueuedOk = FALSE]
          /\ UNCHANGED job
    /\ UNCHANGED <<bankVars, webhookVars, tableVars, ledgerVars, sweep, tries, worker,
                   nomba, windows>>

\* expireVirtualAccount, whose failure is swallowed and which nothing here reads.
\* If a job could not be added the claim is rolled back to the status the sweep
\* read, whatever it is by now.
finishSweep ==
    /\ sweep = "enqueue"
    /\ swept.todo = {}
    /\ \/ /\ swept.allEnqueuedOk
          /\ UNCHANGED <<status, windows>>
       \/ /\ ~swept.allEnqueuedOk
          /\ status' = swept.status
          /\ windows' = windows \union {"rollback"}
    /\ sweep' = "idle"
    /\ swept' = NothingSwept
    /\ UNCHANGED <<bankVars, webhookVars, rows, refunded, ledgerVars, workerVars, faults>>

sweepStep ==
    \/ selectExpired \/ claimExpired \/ selectPayments \/ finishSweep
    \/ \E p \in Payments : enqueueContributionRefund(p)
-----------------------------------------------------------------------------
(* The transfers worker on a contribution refund: processContributionRefund. *)

WorkerGoto(p, step) ==
    worker' = [worker EXCEPT ![p] = step] /\ UNCHANGED <<job, tries>>

WorkerEnd(p, how) ==
    /\ worker' = [worker EXCEPT ![p] = "idle"]
    /\ job' = [job EXCEPT ![p] = CASE how = "return" -> "completed"
                                   [] how = "throw" /\ tries[p] < Attempts -> "waiting"
                                   [] OTHER -> "failed"]
    /\ UNCHANGED tries

\* What is sent: the fee is the sender's.
refundAmount(p) == amount[p] - OUTBOUND_FEE

\* A transaction already 'processing' ends the job; otherwise the bank lookup, whose
\* failure is tried again.
startRefund(p) ==
    /\ job[p] = "waiting"
    /\ tries' = [tries EXCEPT ![p] = @ + 1]
    /\ \/ /\ expiryTx[p] = "processing"
          /\ job' = [job EXCEPT ![p] = "completed"]
          /\ UNCHANGED <<worker, faults>>
       \/ /\ expiryTx[p] # "processing"
          /\ job' = [job EXCEPT ![p] = "active"]
          /\ worker' = [worker EXCEPT ![p] = "post"]
          /\ UNCHANGED faults
       \/ /\ expiryTx[p] # "processing"
          /\ Fault("lookup")
          /\ job' = [job EXCEPT ![p] = IF tries'[p] < Attempts THEN "waiting" ELSE "failed"]
          /\ UNCHANGED worker
    /\ UNCHANGED <<bankVars, webhookVars, tableVars, ledgerVars, sweepVars, nomba, windows>>

\* An existing transaction is used as it is.  A float that does not cover the
\* refund throws and is tried again.
postRefund(p) ==
    LET legs == suspenseRefundLegs(refundAmount(p)) IN
    /\ worker[p] = "post"
    /\ \/ /\ expiryTx[p] # "none"
          /\ WorkerGoto(p, "call")
          /\ UNCHANGED <<expiryTx, balances>>
       \/ /\ expiryTx[p] = "none" /\ CanApply(balances, legs)
          /\ expiryTx' = [expiryTx EXCEPT ![p] = "processing"]
          /\ balances' = applyEntries(balances, legs)
          /\ WorkerGoto(p, "call")
       \/ /\ expiryTx[p] = "none" /\ ~CanApply(balances, legs)
          /\ WorkerEnd(p, "throw")
          /\ UNCHANGED <<expiryTx, balances>>
    /\ UNCHANGED <<bankVars, webhookVars, tableVars, credit, excessTx, excessSent,
                   reversals, sweepVars, nomba, windows, faults>>

\* The provider executes the transfer, or accepts it and settles later, or refuses
\* it, or is not heard of; it does not execute the same merchantTxRef twice.
callRefund(p) ==
    /\ worker[p] = "call"
    /\ \/ /\ nomba[p] \in {"none", "failed", "executed"}
          /\ nomba' = [nomba EXCEPT ![p] = "executed"]
          /\ WorkerGoto(p, "complete")
          /\ UNCHANGED faults
       \/ /\ nomba[p] \in {"none", "failed", "pending"}
          /\ nomba' = [nomba EXCEPT ![p] = "pending"]
          /\ WorkerEnd(p, "return")
          /\ UNCHANGED faults
       \/ /\ nomba[p] \in {"none", "failed"}
          /\ Fault("rejected")
          /\ nomba' = [nomba EXCEPT ![p] = "failed"]
          /\ WorkerGoto(p, "reverse")
       \/ /\ Fault("timeout")
          /\ \/ UNCHANGED nomba
             \/ /\ nomba[p] \in {"none", "failed"}
                /\ nomba' = [nomba EXCEPT ![p] = "pending"]
          /\ WorkerEnd(p, "throw")
    /\ UNCHANGED <<bankVars, webhookVars, tableVars, ledgerVars, sweepVars, windows>>

\* markCompleted, then the payment's refunded flag.
completeRefund(p) ==
    /\ worker[p] = "complete"
    /\ expiryTx' = [expiryTx EXCEPT ![p] = "completed"]
    /\ refunded' = refunded \union {p}
    /\ WorkerEnd(p, "return")
    /\ UNCHANGED <<bankVars, webhookVars, status, rows, credit, excessTx, excessSent,
                   reversals, balances, sweepVars, nomba, windows, faults>>

\* reverseTransaction: posted once, by its reference; the status is set every time.
reverseExpiry(p) ==
    /\ expiryTx' = [expiryTx EXCEPT ![p] = "reversed"]
    /\ reversals' = reversals \union {p}
    /\ balances' = IF p \in reversals THEN balances
                   ELSE applyEntries(balances, Flip(suspenseRefundLegs(refundAmount(p))))

reverseRefund(p) ==
    /\ worker[p] = "reverse"
    /\ reverseExpiry(p)
    /\ WorkerEnd(p, "unrecoverable")
    /\ UNCHANGED <<bankVars, webhookVars, tableVars, credit, excessTx, excessSent,
                   sweepVars, nomba, windows, faults>>

\* Any error after the posting that is not the provider's silence is taken for a
\* refusal.
refundFails(p) ==
    /\ worker[p] \in {"call", "complete"}
    /\ Fault("db")
    /\ WorkerGoto(p, "reverse")
    /\ UNCHANGED <<bankVars, webhookVars, tableVars, ledgerVars, sweepVars, nomba, windows>>

\* resolvePendingTransfer for a pending refund, whose transfer has settled.  It is
\* one step here: how it races the worker is Disbursement's subject.
resolvePendingTransfer(p) ==
    /\ nomba[p] = "pending"
    /\ expiryTx[p] = "processing"
    /\ worker[p] = "idle"
    /\ \/ /\ nomba' = [nomba EXCEPT ![p] = "executed"]
          /\ expiryTx' = [expiryTx EXCEPT ![p] = "completed"]
          /\ refunded' = refunded \union {p}
          /\ UNCHANGED <<reversals, balances, faults>>
       \/ /\ Fault("rejected")
          /\ nomba' = [nomba EXCEPT ![p] = "failed"]
          /\ reverseExpiry(p)
          /\ UNCHANGED refunded
    /\ UNCHANGED <<bankVars, webhookVars, status, rows, credit, excessTx, excessSent,
                   sweepVars, job, tries, worker, windows>>

workerStep(p) ==
    \/ startRefund(p) \/ postRefund(p) \/ callRefund(p)
    \/ completeRefund(p) \/ reverseRefund(p)
-----------------------------------------------------------------------------
Next ==
    \/ expire \/ reverseFunding \/ reverseStep \/ sweepStep
    \/ \E e \in Events : handlerFails(e)
    \/ \E p \in Payments :
          \/ pay(p) \/ confirmFunding(p) \/ confirmThrows(p) \/ confirmStep(p)
          \/ workerStep(p) \/ refundFails(p) \/ resolvePendingTransfer(p)

Spec == Init /\ [][Next]_vars

-----------------------------------------------------------------------------
(* Properties *)

\* The refund's entries stand: whatever its status says, they were not reversed.
Sent(p) == expiryTx[p] # "none" /\ p \notin reversals

\* The books hold the contribution once and every refund once, whatever is
\* delivered, retried or swept again: what the float and the pot hold is what came
\* in less what the standing refunds and their fees took.
BooksReconcile ==
    /\ balances["pot"] = OtherFunds + (IF credit = "completed" THEN IntendedAmount ELSE 0)
    /\ balances["suspense"] =
          MapThenSumSet(LAMBDA p : amount[p], {p \in Payments : Sent(p)})
            + MapThenSumSet(thisPaymentExcess, excessTx)
    /\ balances["platform_float"] + balances["suspense"]
         = balances["pot"] + balances["platform_revenue"]
    /\ \A a \in Accounts : balances[a] >= 0

\* What the provider paid back, or will.
PaidBack(p) == nomba[p] \in {"pending", "executed"}

\* A contribution is credited, or its payments are sent back, never both: the
\* promise of the sweep's atomic claim (expiry.service.ts).
CreditedOrRefunded == credit = "completed" => \A p \in rows : ~PaidBack(p)

\* The promise is kept except through the windows the code leaves open: a sweep's
\* claim or another payment between a handler's read of the status and its write,
\* a claim rolled back after jobs were added, a handler that stops between the
\* posting and the status.
CreditedOrRefundedOutsideWindows == windows = {} => CreditedOrRefunded

\* Overpayments sent back never exceed what came in too much, unless two payments
\* of the contribution are handled at the same time.
ExcessRefundedOnce ==
    "payments" \notin windows =>
        MapThenSumSet(thisPaymentExcess, excessTx) <=
            (IF SumOf(rows) > ExpectedAmount THEN SumOf(rows) - ExpectedAmount ELSE 0)

\* Payments that add up to what was asked for are credited once their handlers are
\* done, however they interleave; only a handler that stops after it recorded its
\* payment leaves them uncounted, since the redelivery takes the payment for one
\* already dealt with (confirmFunding's unique violation).
FullyPaidIsCredited ==
    (\A p \in Payments : pc[p] = "idle") /\ SumOf(rows) >= ExpectedAmount
        => credit # "none" \/ "uncounted" \in windows
=============================================================================
