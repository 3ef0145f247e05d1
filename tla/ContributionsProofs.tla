------------------------ MODULE ContributionsProofs ------------------------
(***************************************************************************)
(* Proofs about Contributions: for any payments, amounts, faults and       *)
(* bounds, the ledger's balances are what the standing transactions say, a *)
(* contribution paid in full is credited, no more of an overpayment is     *)
(* sent back than came in too much, and outside the windows the code       *)
(* leaves open a contribution is never both credited and refunded.         *)
(***************************************************************************)
EXTENDS Contributions, SumTheorems

-----------------------------------------------------------------------------
(* The inductive invariant *)

HandlerSteps ==
    {"idle", "insert", "total", "underpaid", "post", "fund", "excess", "send",
     "reverse", "mark"}

\* Every variable keeps its type.
TypeOK ==
    /\ amount \in [Payments -> Amounts]
    /\ payload \in [Payments -> Payloads]
    /\ paid \subseteq Payments
    /\ inbox \in [Events -> {"new", "claimed", "processed"}]
    /\ pc \in [Events -> HandlerSteps]
    /\ total \in [Payments -> Int]
    /\ status \in {"pending", "underpaid", "funded", "failed", "reversed"}
    /\ rows \subseteq Payments
    /\ credit \in {"none", "completed", "reversed"}
    /\ excessTx \subseteq Payments
    /\ expiryTx \in [Payments -> {"none", "processing", "completed", "reversed"}]
    /\ reversals \subseteq Payments
    /\ balances \in [Accounts -> Int]
    /\ sweep \in {"idle", "claim", "payments", "enqueue"}
    /\ swept \in [status : Open, todo : SUBSET Payments, allEnqueuedOk : BOOLEAN]
    /\ job \in [Payments -> {"none", "waiting", "active", "completed", "failed"}]
    /\ tries \in [Payments -> Nat]
    /\ worker \in [Payments -> {"idle", "post", "call", "complete", "reverse"}]
    /\ nomba \in [Payments -> {"none", "pending", "executed", "failed"}]
    /\ faults \in Nat

\* A handler holds the claim of its event, so no event is dispatched to two of them,
\* and it runs the steps of its own kind.
HandlersHoldClaims ==
    /\ \A e \in Events : pc[e] # "idle" => inbox[e] = "claimed"
    /\ pc["reversal"] \in {"idle", "reverse", "mark"}
    /\ \A p \in Payments : pc[p] \notin {"reverse", "mark"}

\* A payment is counted once: the handler that recorded it is the only one to go past the
\* insertion, and it has not yet posted the excess.
RecordedOnce ==
    /\ \A p \in Payments : pc[p] \notin {"idle", "insert"} => p \in rows
    /\ \A p \in Payments : pc[p] \notin {"idle", "insert", "send"} => p \notin excessTx
    /\ excessTx \subseteq rows
    /\ \A p \in Payments : p \in excessTx \/ pc[p] \in {"post", "fund", "excess", "send"}
          => total[p] >= ExpectedAmount
    /\ \A p \in excessTx : thisPaymentExcess(p) > OUTBOUND_FEE

\* What the refunds go through: a payment is refunded only if it was recorded and covers
\* the fee, its ledger transaction is there before the provider is called.
RefundsInOrder ==
    /\ \A p \in Payments : p \in swept.todo \/ job[p] # "none"
          => p \in rows /\ amount[p] > OUTBOUND_FEE
    /\ \A p \in Payments : worker[p] # "idle" \/ expiryTx[p] # "none" \/ nomba[p] # "none"
          => job[p] # "none"
    /\ \A p \in Payments : worker[p] \in {"call", "complete", "reverse"} => expiryTx[p] # "none"
    /\ \A p \in reversals : expiryTx[p] # "none"

\* What the contributions brought to an account.
Brought(forOthers, forThis) ==
    (IF OtherFunds = 0 THEN 0 ELSE forOthers) + (IF credit = "completed" THEN forThis ELSE 0)

\* The excess each payment brought.
excessOf == [p \in Payments |-> thisPaymentExcess(p)]

\* Payments whose expiry refund stands.
SentBack == {p \in Payments : Sent(p)}

\* The refunds that stand: of the expired contribution's payments, and of excesses.
Standing == Cardinality(SentBack) + Cardinality(excessTx)

\* Every account holds what the standing transactions put there.
Accounted ==
    /\ \A a \in Accounts : balances[a] >= 0
    /\ balances["pot"] = OtherFunds + (IF credit = "completed" THEN IntendedAmount ELSE 0)
    /\ balances["suspense"] = Sum(amount, SentBack) + Sum(excessOf, excessTx)
    /\ balances["platform_float"] + balances["suspense"]
         = balances["pot"] + balances["platform_revenue"]
    /\ balances["platform_revenue"] =
          Brought(PLATFORM_INBOUND_FEE, PLATFORM_INBOUND_FEE) + PLATFORM_OUTBOUND_FEE * Standing
    /\ balances["nomba_fee_expense"] =
          Brought(nombaInboundFeeFor(OtherFunds), nombaInboundFeeFor(IntendedAmount))
            + NOMBA_OUTBOUND_FEE * Standing
    /\ balances["nomba_clearing"] = balances["nomba_fee_expense"]

\* Payments that add up are credited, or someone is about to.
Credited ==
    Sum(amount, rows) >= ExpectedAmount =>
        \/ credit # "none"
        \/ "uncounted" \in windows
        \/ \E p \in Payments : pc[p] \in {"total", "post"}

\* Handlers that were told the contribution is paid, and excesses posted.
Exceeding == excessTx \union {p \in Payments : pc[p] \in {"post", "fund", "excess", "send"}}

\* Payments recorded and not yet in anyone's total.
Uncounted == {p \in Payments : pc[p] = "total"}

Over(x) == IF x > ExpectedAmount THEN x - ExpectedAmount ELSE 0

\* Without the "payments" window handlers do not overlap, and what each will send back is
\* covered by what had been counted when it read the total.
ExcessCovered ==
    "payments" \notin windows =>
        /\ \A p, q \in Confirming : p = q
        /\ Sum(excessOf, Exceeding) <= Over(Sum(amount, rows \ Uncounted))

\* Without any window the status tells which of the two was decided: a handler runs only
\* while the contribution is open, its credit is followed by 'funded', a reversal runs only
\* on 'funded', and refunds only on 'failed'.
Decided ==
    windows = {} =>
        /\ \A p \in Confirming : status \in Open
        /\ \A p, q \in Confirming : p = q
        /\ credit # "none" => status \in {"funded", "reversed"} \/ \E p \in Payments : pc[p] = "fund"
        /\ pc["reversal"] # "idle" => status = "funded"
        /\ sweep \in {"payments", "enqueue"} \/ (\E p \in Payments : job[p] # "none")
              => status = "failed"

Inv ==
    /\ TypeOK /\ HandlersHoldClaims /\ RecordedOnce /\ RefundsInOrder
    /\ Accounted /\ Credited /\ ExcessCovered /\ Decided
-----------------------------------------------------------------------------
(* Types *)

USE FundingAssumption
USE DEF Fault, Goto, Return, Throw, Open, Inbox!Claim, Inbox!Release, Inbox!Process,
        bankVars, webhookVars, tableVars, ledgerVars, sweepVars, workerVars,
        WorkerGoto, WorkerEnd

\* Amounts are positive and payments finitely many.
LEMMA AmountsAre ==
    ASSUME amount \in [Payments -> Amounts]
    PROVE  /\ \A p \in Payments : amount[p] \in Int /\ amount[p] > 0
           /\ \A S \in SUBSET Payments : /\ IsFiniteSet(S)
                                         /\ Sum(amount, S) \in Int /\ Sum(amount, S) >= 0
<1>1. ASSUME NEW p \in Payments
      PROVE  amount[p] \in Int /\ amount[p] > 0
  <2>1. amount[p] \in Nat \ {0}
    OBVIOUS
  <2> QED
    BY <2>1
<1>2. ASSUME NEW S \in SUBSET Payments
      PROVE  IsFiniteSet(S) /\ Sum(amount, S) \in Int /\ Sum(amount, S) >= 0
  BY <1>1, FS_Subset, SumType
<1> QED
  BY <1>1, <1>2

\* The total confirmFunding reads.
LEMMA SumOfIs ==
    ASSUME NEW S
    PROVE  SumOf(S) = Sum(amount, S)
BY DEF SumOf, Sum, MapThenSumSet, MapThenFoldSet

\* The constants of lib/fees.ts.
LEMMA FeesAre ==
    /\ OUTBOUND_FEE = 5000 /\ PLATFORM_OUTBOUND_FEE = 3000 /\ NOMBA_OUTBOUND_FEE = 2000
    /\ PLATFORM_INBOUND_FEE = 1000
    /\ \A x \in Nat : nombaInboundFeeFor(x) \in Nat
    /\ ExpectedAmount \in Nat /\ ExpectedAmount > 0
<1>1. ASSUME NEW x \in Nat
      PROVE  nombaInboundFeeFor(x) \in Nat
  <2>1. (x * 100) \div 10000 \in Int
    OBVIOUS
  <2> DEFINE raw == (x * 100) \div 10000
  <2>2. raw \in Int
    BY <2>1
  <2>3. nombaInboundFeeFor(x) = IF raw < 1000 THEN 1000 ELSE IF raw > 15000 THEN 15000 ELSE raw
    BY DEF nombaInboundFeeFor, NOMBA_INBOUND_FEE_MIN, NOMBA_INBOUND_FEE_MAX
  <2> HIDE DEF raw
  <2> QED
    BY <2>2, <2>3
<1>2. IntendedAmount \in Nat /\ IntendedAmount > 0
  OBVIOUS
<1>3. nombaInboundFeeFor(IntendedAmount) \in Nat
  BY <1>1, <1>2
<1> QED
  BY <1>1, <1>2, <1>3
     DEF OUTBOUND_FEE, PLATFORM_OUTBOUND_FEE, NOMBA_OUTBOUND_FEE, PLATFORM_INBOUND_FEE,
         ExpectedAmount

\* What a posting adds to the accounts.
Moves(bal, new, pot, float, revenue, fees, suspense) ==
    /\ new \in [Accounts -> Int]
    /\ new["pot"] = bal["pot"] + pot
    /\ new["platform_float"] = bal["platform_float"] + float
    /\ new["platform_revenue"] = bal["platform_revenue"] + revenue
    /\ new["nomba_fee_expense"] = bal["nomba_fee_expense"] + fees
    /\ new["nomba_clearing"] = bal["nomba_clearing"] + fees
    /\ new["suspense"] = bal["suspense"] + suspense

\* A contribution, and its reversal.
LEMMA InboundEntries ==
    ASSUME NEW bal \in [Accounts -> Int], NEW x \in Nat
    PROVE  /\ Moves(bal, applyEntries(bal, inboundFeeLegs(x)),
                    x, x + 1000, 1000, nombaInboundFeeFor(x), 0)
           /\ Moves(bal, applyEntries(bal, Flip(inboundFeeLegs(x))),
                    -x, -x - 1000, -1000, -nombaInboundFeeFor(x), 0)
<1>1. nombaInboundFeeFor(x) \in Nat
  BY FeesAre
<1> QED
  BY <1>1 DEF Moves, applyEntries, signedDelta, Flip, inboundFeeLegs, Debit, Credit,
              normalBalance, Accounts, PLATFORM_INBOUND_FEE

\* A refund out of suspense, and its reversal.
LEMMA RefundEntries ==
    ASSUME NEW bal \in [Accounts -> Int], NEW x \in Int
    PROVE  /\ Moves(bal, applyEntries(bal, suspenseRefundLegs(x)),
                    0, -x - 2000, 3000, 2000, x + 5000)
           /\ Moves(bal, applyEntries(bal, Flip(suspenseRefundLegs(x))),
                    0, x + 2000, -3000, -2000, -x - 5000)
BY DEF Moves, applyEntries, signedDelta, Flip, suspenseRefundLegs, Debit, Credit,
       normalBalance, Accounts, OUTBOUND_FEE, PLATFORM_OUTBOUND_FEE, NOMBA_OUTBOUND_FEE

\* A posting that fits leaves no account below zero.
LEMMA Fits ==
    ASSUME NEW bal, NEW legs, CanApply(bal, legs)
    PROVE  \A a \in Accounts : applyEntries(bal, legs)[a] >= 0
BY DEF applyEntries, CanApply

\* The excess of a payment.
LEMMA ExcessTyped ==
    ASSUME amount \in [Payments -> Amounts], total \in [Payments -> Int]
    PROVE  \A p \in Payments :
              /\ thisPaymentExcess(p) \in Int
              /\ excessOf[p] = thisPaymentExcess(p)
              /\ total[p] >= ExpectedAmount =>
                    thisPaymentExcess(p) >= 0 /\ thisPaymentExcess(p) <= total[p] - ExpectedAmount
              /\ thisPaymentExcess(p) <= amount[p]
BY AmountsAre, FeesAre DEF thisPaymentExcess, excessOf

\* The first state.
LEMMA InitType == Init => TypeOK
<1> SUFFICES ASSUME Init PROVE TypeOK
  OBVIOUS
<1>1. balances \in [Accounts -> Int]
  <2>1. ZeroBalances \in [Accounts -> Int]
    BY DEF ZeroBalances
  <2> QED
    BY <2>1, InboundEntries DEF Moves, Init
<1> QED
  BY <1>1 DEF Init, TypeOK, Inbox!Init, NothingSwept, HandlerSteps, Events

\* Steps of confirmFunding's handlers.
LEMMA ConfirmType ==
    ASSUME TypeOK, NEW p \in Payments, confirmFunding(p) \/ confirmThrows(p) \/ confirmStep(p)
    PROVE  TypeOK'
<1>0. p \in Events /\ amount[p] \in Int /\ Sum(amount, rows) \in Int
  BY AmountsAre DEF Events, TypeOK
<1>1. CASE confirmFunding(p)
  BY <1>0, <1>1 DEF TypeOK, HandlerSteps, confirmFunding, vars
<1>2. CASE insertPayment(p)
  BY <1>0, <1>2 DEF TypeOK, HandlerSteps, insertPayment
<1>3. CASE readTotal(p)
  BY <1>0, <1>3, SumOfIs DEF TypeOK, HandlerSteps, readTotal
<1>4. CASE markUnderpaid(p) \/ markFunded(p)
  BY <1>0, <1>4 DEF TypeOK, HandlerSteps, markUnderpaid, markFunded
<1>5. CASE postContribution(p)
  <2>1. balances' \in [Accounts -> Int]
    BY <1>5, InboundEntries DEF Moves, TypeOK, postContribution
  <2> QED
    BY <1>0, <1>5, <2>1 DEF TypeOK, HandlerSteps, postContribution
<1>6. CASE postExcess(p)
  <2>1. thisPaymentExcess(p) - OUTBOUND_FEE \in Int
    BY ExcessTyped, FeesAre DEF TypeOK
  <2>2. balances' \in [Accounts -> Int]
    BY <1>6, <2>1, RefundEntries DEF Moves, TypeOK, postExcess
  <2> QED
    BY <1>0, <1>6, <2>2 DEF TypeOK, HandlerSteps, postExcess
<1>7. CASE refundOverpayment(p)
  BY <1>0, <1>7 DEF TypeOK, HandlerSteps, refundOverpayment
<1>8. CASE confirmThrows(p)
  BY <1>0, <1>8 DEF TypeOK, HandlerSteps, confirmThrows, vars
<1> QED
  BY <1>1, <1>2, <1>3, <1>4, <1>5, <1>6, <1>7, <1>8 DEF confirmStep

\* The reversal's steps, and a handler that fails.
LEMMA ReverseType ==
    ASSUME TypeOK, \/ reverseFunding \/ reverseStep
                   \/ \E e \in Events : handlerFails(e)
    PROVE  TypeOK'
<1>0. "reversal" \in Events
  BY DEF Events
<1>1. CASE reverseFunding
  BY <1>0, <1>1 DEF TypeOK, HandlerSteps, reverseFunding
<1>2. CASE reverseContribution
  <2>1. balances' \in [Accounts -> Int]
    <3>1. balances \in [Accounts -> Int] /\ IntendedAmount \in Nat
      BY DEF TypeOK
    <3>2. applyEntries(balances, Flip(inboundFeeLegs(IntendedAmount))) \in [Accounts -> Int]
      BY <3>1, InboundEntries DEF Moves
    <3> QED
      BY <1>2, <3>1, <3>2 DEF reverseContribution
  <2> QED
    BY <1>0, <1>2, <2>1 DEF TypeOK, HandlerSteps, reverseContribution
<1>3. CASE markReversed
  BY <1>0, <1>3 DEF TypeOK, HandlerSteps, markReversed
<1>4. ASSUME NEW e \in Events, handlerFails(e)
      PROVE  TypeOK'
  BY <1>4 DEF TypeOK, HandlerSteps, handlerFails
<1> QED
  BY <1>1, <1>2, <1>3, <1>4 DEF reverseStep

\* The sweep's steps.
LEMMA SweepType ==
    ASSUME TypeOK, sweepStep
    PROVE  TypeOK'
<1>1. CASE selectExpired
  BY <1>1 DEF TypeOK, selectExpired
<1>2. CASE claimExpired
  BY <1>2 DEF TypeOK, claimExpired, NothingSwept
<1>3. CASE selectPayments
  BY <1>3 DEF TypeOK, selectPayments
<1>4. CASE finishSweep
  BY <1>4 DEF TypeOK, finishSweep, NothingSwept
<1>5. ASSUME NEW p \in Payments, enqueueContributionRefund(p)
      PROVE  TypeOK'
  <2>1. job' \in [Payments -> {"none", "waiting", "active", "completed", "failed"}]
    BY <1>5 DEF TypeOK, enqueueContributionRefund
  <2>2. swept' \in [status : Open, todo : SUBSET Payments, allEnqueuedOk : BOOLEAN]
    <3> DEFINE T == swept.todo \ {p}
    <3>1. /\ swept \in [status : Open, todo : SUBSET Payments, allEnqueuedOk : BOOLEAN]
          /\ T \in SUBSET Payments
      BY DEF TypeOK
    <3>2. \/ swept' = [swept EXCEPT !.todo = T]
          \/ swept' = [swept EXCEPT !.todo = T, !.allEnqueuedOk = FALSE]
      BY <1>5 DEF enqueueContributionRefund
    <3> HIDE DEF T
    <3>3. CASE swept' = [swept EXCEPT !.todo = T]
      BY <3>1, <3>3
    <3>4. CASE swept' = [swept EXCEPT !.todo = T, !.allEnqueuedOk = FALSE]
      BY <3>1, <3>4
    <3> QED
      BY <3>2, <3>3, <3>4
  <2>3. faults' \in Nat
    BY <1>5 DEF TypeOK, enqueueContributionRefund
  <2> QED
    BY <1>5, <2>1, <2>2, <2>3 DEF TypeOK, enqueueContributionRefund
<1> QED
  BY <1>1, <1>2, <1>3, <1>4, <1>5 DEF sweepStep

\* The worker's steps and the settlement.
LEMMA WorkerType ==
    ASSUME TypeOK, NEW p \in Payments,
           workerStep(p) \/ refundFails(p) \/ resolvePendingTransfer(p)
    PROVE  TypeOK'
<1>0. refundAmount(p) \in Int
  BY AmountsAre, FeesAre DEF TypeOK, refundAmount
<1>1. CASE startRefund(p)
  BY <1>1 DEF TypeOK, startRefund
<1>2. CASE postRefund(p)
  <2>1. balances' \in [Accounts -> Int]
    BY <1>0, <1>2, RefundEntries DEF Moves, TypeOK, postRefund
  <2> QED
    BY <1>2, <2>1 DEF TypeOK, postRefund
<1>3. CASE callRefund(p)
  BY <1>3 DEF TypeOK, callRefund
<1>4. CASE completeRefund(p)
  BY <1>4 DEF TypeOK, completeRefund
<1>5. reverseExpiry(p) => balances' \in [Accounts -> Int]
  BY <1>0, RefundEntries DEF Moves, TypeOK, reverseExpiry
<1>6. CASE reverseRefund(p)
  BY <1>5, <1>6 DEF TypeOK, reverseRefund, reverseExpiry
<1>7. CASE refundFails(p)
  BY <1>7 DEF TypeOK, refundFails
<1>8. CASE resolvePendingTransfer(p)
  <2>1. balances' \in [Accounts -> Int]
    BY <1>5, <1>8 DEF TypeOK, resolvePendingTransfer
  <2> QED
    BY <1>8, <2>1 DEF TypeOK, resolvePendingTransfer, reverseExpiry
<1> QED
  BY <1>1, <1>2, <1>3, <1>4, <1>6, <1>7, <1>8 DEF workerStep

\* Every step.
LEMMA NextType ==
    ASSUME TypeOK, [Next]_vars
    PROVE  TypeOK'
<1>1. CASE expire \/ \E p \in Payments : pay(p)
  BY <1>1 DEF TypeOK, expire, pay
<1>2. CASE UNCHANGED vars
  BY <1>2 DEF TypeOK, vars
<1> QED
  BY <1>1, <1>2, ConfirmType, ReverseType, SweepType, WorkerType DEF Next
-----------------------------------------------------------------------------
(* The webhook handlers *)

\* A handler holds its claim through every step.
LEMMA NextHandlers ==
    ASSUME TypeOK, HandlersHoldClaims, [Next]_vars
    PROVE  HandlersHoldClaims'
<1>0. /\ pc \in [Events -> HandlerSteps] /\ inbox \in [Events -> {"new", "claimed", "processed"}]
      /\ "reversal" \in Events /\ "reversal" \notin Payments /\ Payments \subseteq Events
  BY DEF TypeOK, Events
<1>1. ASSUME NEW p \in Payments, confirmFunding(p) \/ confirmThrows(p)
      PROVE  HandlersHoldClaims'
  BY <1>0, <1>1 DEF HandlersHoldClaims, confirmFunding, confirmThrows, vars
<1>2. ASSUME NEW p \in Payments, confirmStep(p)
      PROVE  HandlersHoldClaims'
  <2>1. CASE insertPayment(p) \/ readTotal(p) \/ markUnderpaid(p)
    BY <1>0, <2>1 DEF HandlersHoldClaims, insertPayment, readTotal, markUnderpaid
  <2>2. CASE postContribution(p) \/ markFunded(p)
    BY <1>0, <2>2 DEF HandlersHoldClaims, postContribution, markFunded
  <2>3. CASE postExcess(p)
    BY <1>0, <2>3 DEF HandlersHoldClaims, postExcess
  <2>4. CASE refundOverpayment(p)
    BY <1>0, <2>4 DEF HandlersHoldClaims, refundOverpayment
  <2> QED
    BY <1>2, <2>1, <2>2, <2>3, <2>4 DEF confirmStep
<1>3. CASE reverseFunding
  BY <1>0, <1>3 DEF HandlersHoldClaims, reverseFunding
<1>4. CASE reverseStep
  BY <1>0, <1>4 DEF HandlersHoldClaims, reverseStep, reverseContribution, markReversed
<1>5. ASSUME NEW e \in Events, handlerFails(e)
      PROVE  HandlersHoldClaims'
  BY <1>0, <1>5 DEF HandlersHoldClaims, handlerFails
<1>6. ASSUME UNCHANGED <<inbox, pc>> PROVE HandlersHoldClaims'
  BY <1>6 DEF HandlersHoldClaims
<1>7. CASE expire \/ sweepStep \/ UNCHANGED vars
  BY <1>6, <1>7 DEF expire, sweepStep, selectExpired, claimExpired, selectPayments,
                    finishSweep, enqueueContributionRefund, vars
<1>8. ASSUME NEW p \in Payments,
             pay(p) \/ workerStep(p) \/ refundFails(p) \/ resolvePendingTransfer(p)
      PROVE  HandlersHoldClaims'
  BY <1>6, <1>8 DEF pay, workerStep, startRefund, postRefund, callRefund, completeRefund,
                    reverseRefund, refundFails, resolvePendingTransfer
<1> QED
  BY <1>1, <1>2, <1>3, <1>4, <1>5, <1>7, <1>8 DEF Next

\* What steps other than the handlers' leave alone.
HandlersRest == UNCHANGED <<amount, pc, total, rows, excessTx, credit>>

\* Steps of the payers, the sweep and the worker.
LEMMA Rest ==
    ASSUME \/ expire \/ sweepStep \/ UNCHANGED vars
           \/ \E p \in Payments : \/ pay(p) \/ confirmThrows(p) \/ workerStep(p)
                                  \/ refundFails(p) \/ resolvePendingTransfer(p)
    PROVE  HandlersRest
<1>1. CASE expire \/ sweepStep \/ UNCHANGED vars
  BY <1>1 DEF HandlersRest, expire, sweepStep, selectExpired, claimExpired, selectPayments,
              finishSweep, enqueueContributionRefund, vars
<1>2. ASSUME NEW p \in Payments, pay(p) \/ confirmThrows(p) \/ refundFails(p)
      PROVE  HandlersRest
  BY <1>2 DEF HandlersRest, pay, confirmThrows, refundFails, vars
<1>3. ASSUME NEW p \in Payments, workerStep(p) \/ resolvePendingTransfer(p)
      PROVE  HandlersRest
  BY <1>3 DEF HandlersRest, workerStep, startRefund, postRefund, callRefund, completeRefund,
              reverseRefund, resolvePendingTransfer
<1> QED
  BY <1>1, <1>2, <1>3

\* A payment is recorded once, and its excess posted by the handler that recorded it.
LEMMA NextRecorded ==
    ASSUME TypeOK, HandlersHoldClaims, RecordedOnce, [Next]_vars
    PROVE  RecordedOnce'
<1>0. /\ pc \in [Events -> HandlerSteps] /\ total \in [Payments -> Int]
      /\ "reversal" \in Events /\ "reversal" \notin Payments /\ Payments \subseteq Events
      /\ amount \in [Payments -> Amounts] /\ rows \subseteq Payments
      /\ excessTx \subseteq Payments
  BY DEF TypeOK, Events
<1>1. ASSUME NEW p \in Payments, confirmFunding(p)
      PROVE  RecordedOnce'
  <2>1. pc[p] = "idle"
    BY <1>0, <1>1 DEF confirmFunding, HandlersHoldClaims
  <2> QED
    BY <1>0, <1>1, <2>1 DEF RecordedOnce, confirmFunding, thisPaymentExcess
<1>2. ASSUME NEW p \in Payments, confirmStep(p)
      PROVE  RecordedOnce'
  <2>1. CASE insertPayment(p)
    BY <1>0, <2>1 DEF RecordedOnce, insertPayment, thisPaymentExcess
  <2>2. CASE readTotal(p)
    <3>1. SumOf(rows) \in Int
      BY <1>0, AmountsAre, SumOfIs
    <3>2. p \notin excessTx
      BY <2>2 DEF RecordedOnce, readTotal
    <3> QED
      BY <1>0, <2>2, <3>1, <3>2, FeesAre DEF RecordedOnce, readTotal, thisPaymentExcess
  <2>3. CASE markUnderpaid(p) \/ postContribution(p) \/ markFunded(p)
    BY <1>0, <2>3 DEF RecordedOnce, markUnderpaid, postContribution, markFunded,
                      thisPaymentExcess
  <2>4. CASE postExcess(p)
    BY <1>0, <2>4 DEF RecordedOnce, postExcess, thisPaymentExcess
  <2>5. CASE refundOverpayment(p)
    BY <1>0, <2>5 DEF RecordedOnce, refundOverpayment, thisPaymentExcess
  <2> QED
    BY <1>2, <2>1, <2>2, <2>3, <2>4, <2>5 DEF confirmStep
<1>3. CASE reverseFunding
  BY <1>0, <1>3 DEF RecordedOnce, reverseFunding, thisPaymentExcess
<1>4. CASE reverseStep
  BY <1>0, <1>4 DEF RecordedOnce, reverseStep, reverseContribution, markReversed,
                    thisPaymentExcess
<1>5. ASSUME NEW e \in Events, handlerFails(e)
      PROVE  RecordedOnce'
  BY <1>0, <1>5 DEF RecordedOnce, handlerFails, thisPaymentExcess
<1>6. ASSUME HandlersRest PROVE RecordedOnce'
  BY <1>6 DEF RecordedOnce, HandlersRest, thisPaymentExcess
<1> QED
  BY <1>1, <1>2, <1>3, <1>4, <1>5, <1>6, Rest DEF Next
-----------------------------------------------------------------------------
(* The refunds *)

\* Steps that leave the refunds alone.
LEMMA NextRefunds ==
    ASSUME TypeOK, RefundsInOrder, [Next]_vars
    PROVE  RefundsInOrder'
<1>0. /\ job \in [Payments -> {"none", "waiting", "active", "completed", "failed"}]
      /\ worker \in [Payments -> {"idle", "post", "call", "complete", "reverse"}]
      /\ nomba \in [Payments -> {"none", "pending", "executed", "failed"}]
      /\ expiryTx \in [Payments -> {"none", "processing", "completed", "reversed"}]
      /\ rows \subseteq Payments /\ reversals \subseteq Payments
      /\ swept \in [status : Open, todo : SUBSET Payments, allEnqueuedOk : BOOLEAN]
  BY DEF TypeOK
<1>1. ASSUME amount' = amount, rows \subseteq rows',
             UNCHANGED <<swept, job, worker, expiryTx, nomba, reversals>>
      PROVE  RefundsInOrder'
  BY <1>1 DEF RefundsInOrder
<1>2. ASSUME NEW p \in Payments,
             confirmFunding(p) \/ confirmThrows(p) \/ confirmStep(p) \/ pay(p)
      PROVE  RefundsInOrder'
  BY <1>1, <1>2
     DEF confirmFunding, confirmThrows, confirmStep, insertPayment, readTotal, markUnderpaid,
         postContribution, markFunded, postExcess, refundOverpayment, pay, vars
<1>3. CASE \/ expire \/ reverseFunding \/ reverseStep \/ UNCHANGED vars
           \/ \E e \in Events : handlerFails(e)
  BY <1>1, <1>3 DEF expire, reverseFunding, reverseStep, reverseContribution, markReversed,
                    handlerFails, vars
<1>4. CASE sweepStep
  <2>1. CASE selectExpired
    BY <2>1 DEF RefundsInOrder, selectExpired
  <2>2. CASE claimExpired
    BY <2>2 DEF RefundsInOrder, claimExpired, NothingSwept
  <2>3. CASE selectPayments
    <3>1. swept'.todo = {p \in rows \ refunded : amount[p] > OUTBOUND_FEE}
      BY <1>0, <2>3 DEF selectPayments
    <3> QED
      BY <2>3, <3>1 DEF RefundsInOrder, selectPayments
  <2>4. CASE finishSweep
    BY <2>4 DEF RefundsInOrder, finishSweep, NothingSwept
  <2>5. ASSUME NEW p \in Payments, enqueueContributionRefund(p)
        PROVE  RefundsInOrder'
    <3>1. /\ swept'.todo \subseteq swept.todo /\ p \in swept.todo
          /\ \A q \in Payments : q # p => job'[q] = job[q]
          /\ job[p] # "none" => job'[p] # "none"
      <4>1. /\ p \in swept.todo
            /\ \/ job' = [job EXCEPT ![p] = IF job[p] = "none" THEN "waiting" ELSE job[p]]
               \/ job' = job
            /\ \/ swept' = [swept EXCEPT !.todo = swept.todo \ {p}]
               \/ swept' = [swept EXCEPT !.todo = swept.todo \ {p}, !.allEnqueuedOk = FALSE]
        BY <2>5 DEF enqueueContributionRefund
      <4>2. swept'.todo \subseteq swept.todo
        <5>1. CASE swept' = [swept EXCEPT !.todo = swept.todo \ {p}]
          BY <1>0, <5>1
        <5>2. CASE swept' = [swept EXCEPT !.todo = swept.todo \ {p}, !.allEnqueuedOk = FALSE]
          BY <1>0, <5>2
        <5> QED
          BY <4>1, <5>1, <5>2
      <4>3. /\ \A q \in Payments : q # p => job'[q] = job[q]
            /\ job[p] # "none" => job'[p] # "none"
        BY <1>0, <4>1
      <4> QED
        BY <4>1, <4>2, <4>3
    <3> QED
      BY <1>0, <2>5, <3>1 DEF RefundsInOrder, enqueueContributionRefund
  <2> QED
    BY <1>4, <2>1, <2>2, <2>3, <2>4, <2>5 DEF sweepStep
<1>5. ASSUME NEW p \in Payments, workerStep(p)
      PROVE  RefundsInOrder'
  <2>1. CASE startRefund(p)
    BY <1>0, <2>1 DEF RefundsInOrder, startRefund
  <2>2. CASE postRefund(p)
    BY <1>0, <2>2 DEF RefundsInOrder, postRefund
  <2>3. CASE callRefund(p)
    BY <1>0, <2>3 DEF RefundsInOrder, callRefund
  <2>4. CASE completeRefund(p)
    BY <1>0, <2>4 DEF RefundsInOrder, completeRefund
  <2>5. CASE reverseRefund(p)
    BY <1>0, <2>5 DEF RefundsInOrder, reverseRefund, reverseExpiry
  <2> QED
    BY <1>5, <2>1, <2>2, <2>3, <2>4, <2>5 DEF workerStep
<1>6. ASSUME NEW p \in Payments, refundFails(p)
      PROVE  RefundsInOrder'
  BY <1>0, <1>6 DEF RefundsInOrder, refundFails
<1>7. ASSUME NEW p \in Payments, resolvePendingTransfer(p)
      PROVE  RefundsInOrder'
  BY <1>0, <1>7 DEF RefundsInOrder, resolvePendingTransfer, reverseExpiry
<1> QED
  BY <1>2, <1>3, <1>4, <1>5, <1>6, <1>7 DEF Next
-----------------------------------------------------------------------------
(* The books *)

\* A payment more, or less, among those that count.
LEMMA CountOne ==
    ASSUME NEW S \in SUBSET Payments, NEW p \in Payments, p \notin S
    PROVE  /\ Cardinality(S) \in Nat
           /\ Cardinality(S \union {p}) = Cardinality(S) + 1
BY FS_Subset, FS_AddElement, FS_CardinalityType

\* The first state holds what others contributed.
LEMMA InitAccounted == Init => Accounted
<1> SUFFICES ASSUME Init PROVE Accounted
  OBVIOUS
<1>1. SentBack = {} /\ excessTx = {} /\ credit = "none"
  BY DEF Init, SentBack, Sent
<1>2. Standing = 0
  <2>1. Cardinality({}) = 0
    BY FS_EmptySet
  <2> QED
    BY <1>1, <2>1 DEF Standing
<1>3. Sum(amount, SentBack) = 0 /\ Sum(excessOf, excessTx) = 0
  BY <1>1, SumEmpty
<1>4. ZeroBalances \in [Accounts -> Int] /\ \A a \in Accounts : ZeroBalances[a] = 0
  BY DEF ZeroBalances
<1>5. nombaInboundFeeFor(OtherFunds) \in Nat /\ OtherFunds \in Nat
  BY FeesAre
<1>6. CASE OtherFunds = 0
  BY <1>1, <1>2, <1>3, <1>4, <1>6, FeesAre DEF Init, Accounted, Brought, Accounts
<1>7. CASE OtherFunds # 0
  <2>1. balances = applyEntries(ZeroBalances, inboundFeeLegs(OtherFunds))
    BY <1>7 DEF Init
  <2>2. Moves(ZeroBalances, balances, OtherFunds, OtherFunds + 1000, 1000,
              nombaInboundFeeFor(OtherFunds), 0)
    BY <1>4, <2>1, InboundEntries
  <2>3. /\ balances["pot"] = OtherFunds /\ balances["platform_float"] = OtherFunds + 1000
        /\ balances["platform_revenue"] = 1000 /\ balances["suspense"] = 0
        /\ balances["nomba_fee_expense"] = nombaInboundFeeFor(OtherFunds)
        /\ balances["nomba_clearing"] = nombaInboundFeeFor(OtherFunds)
    BY <1>4, <1>5, <2>2 DEF Moves, Accounts
  <2> QED
    BY <1>1, <1>2, <1>3, <1>5, <1>7, <2>3, FeesAre DEF Accounted, Brought, Accounts
<1> QED
  BY <1>6, <1>7

\* Steps that post nothing.
LEMMA NothingPosted ==
    ASSUME Accounted, UNCHANGED <<balances, credit, amount>>,
           SentBack' = SentBack, excessTx' = excessTx,
           Sum(excessOf, excessTx)' = Sum(excessOf, excessTx)
    PROVE  Accounted'
BY DEF Accounted, Standing, Brought

\* What a total that is read changes: nothing that was posted.
LEMMA ExcessKept ==
    ASSUME TypeOK, TypeOK', UNCHANGED <<amount, excessTx>>,
           \A p \in excessTx : total'[p] = total[p]
    PROVE  Sum(excessOf, excessTx)' = Sum(excessOf, excessTx)
<1>1. \A p \in excessTx : excessOf'[p] = excessOf[p]
  BY DEF TypeOK, excessOf, thisPaymentExcess
<1>2. IsFiniteSet(excessTx)
  BY FS_Subset DEF TypeOK
<1>3. Sum(excessOf', excessTx) = Sum(excessOf, excessTx)
  BY <1>1, <1>2, SumSame
<1> QED
  BY <1>3

\* The numbers of Accounted.
LEMMA Numbers ==
    ASSUME TypeOK, RecordedOnce
    PROVE  /\ Sum(amount, SentBack) \in Int /\ Sum(amount, SentBack) >= 0
           /\ Sum(excessOf, excessTx) \in Int /\ Sum(excessOf, excessTx) >= 0
           /\ Cardinality(SentBack) \in Nat /\ Cardinality(excessTx) \in Nat
           /\ Standing \in Nat /\ Standing = Cardinality(SentBack) + Cardinality(excessTx)
           /\ \A a \in Accounts : balances[a] \in Int
<1>1. SentBack \in SUBSET Payments /\ excessTx \in SUBSET Payments
  BY DEF SentBack, TypeOK
<1>2. IsFiniteSet(SentBack) /\ IsFiniteSet(excessTx)
  BY <1>1, FS_Subset
<1>3. Cardinality(SentBack) \in Nat /\ Cardinality(excessTx) \in Nat
  BY <1>2, FS_CardinalityType
<1>4. Sum(amount, SentBack) \in Int /\ Sum(amount, SentBack) >= 0
  BY <1>1, AmountsAre DEF TypeOK
<1>5. \A p \in excessTx : excessOf[p] \in Int /\ excessOf[p] >= 0
  BY <1>1, ExcessTyped DEF TypeOK, RecordedOnce
<1>6. Sum(excessOf, excessTx) \in Int /\ Sum(excessOf, excessTx) >= 0
  BY <1>2, <1>5, SumType
<1> QED
  BY <1>3, <1>4, <1>6 DEF Standing, TypeOK

\* The contribution is credited: every account grows.
LEMMA CreditAccounted ==
    ASSUME TypeOK, RecordedOnce, Accounted, credit = "none", credit' = "completed",
           balances' = applyEntries(balances, inboundFeeLegs(IntendedAmount)),
           UNCHANGED <<amount, total, excessTx, expiryTx, reversals>>
    PROVE  Accounted'
<1>1. SentBack' = SentBack /\ excessOf' = excessOf /\ Standing' = Standing
  BY DEF SentBack, Sent, excessOf, thisPaymentExcess, Standing
<1>2. /\ IntendedAmount \in Nat /\ OtherFunds \in Nat
      /\ nombaInboundFeeFor(IntendedAmount) \in Nat /\ nombaInboundFeeFor(OtherFunds) \in Nat
  BY FeesAre
<1>3. balances \in [Accounts -> Int]
  BY DEF TypeOK
<1>m. Moves(balances, balances', IntendedAmount, IntendedAmount + 1000, 1000,
            nombaInboundFeeFor(IntendedAmount), 0)
  BY <1>2, <1>3, InboundEntries
<1>4. \A a \in Accounts : balances'[a] >= 0
  BY <1>2, <1>3, <1>m DEF Moves, Accounted, Accounts
<1> QED
  BY <1>1, <1>2, <1>3, <1>m, <1>4, Numbers, FeesAre DEF Moves, Accounted, Brought, Accounts

\* The contribution is taken back, which must fit.
LEMMA ReverseAccounted ==
    ASSUME TypeOK, RecordedOnce, Accounted, credit = "completed", credit' = "reversed",
           CanApply(balances, Flip(inboundFeeLegs(IntendedAmount))),
           balances' = applyEntries(balances, Flip(inboundFeeLegs(IntendedAmount))),
           UNCHANGED <<amount, total, excessTx, expiryTx, reversals>>
    PROVE  Accounted'
<1>1. SentBack' = SentBack /\ excessOf' = excessOf /\ Standing' = Standing
  BY DEF SentBack, Sent, excessOf, thisPaymentExcess, Standing
<1>2. /\ IntendedAmount \in Nat /\ OtherFunds \in Nat
      /\ nombaInboundFeeFor(IntendedAmount) \in Nat /\ nombaInboundFeeFor(OtherFunds) \in Nat
  BY FeesAre
<1>3. balances \in [Accounts -> Int]
  BY DEF TypeOK
<1>4. \A a \in Accounts : balances'[a] >= 0
  BY Fits
<1>m. Moves(balances, balances', -IntendedAmount, -IntendedAmount - 1000, -1000,
            -nombaInboundFeeFor(IntendedAmount), 0)
  BY <1>2, <1>3, InboundEntries
<1> QED
  BY <1>1, <1>2, <1>3, <1>m, <1>4, Numbers, FeesAre DEF Moves, Accounted, Brought, Accounts

\* A refund of x more of what came in stands.
LEMMA RefundAccounted ==
    ASSUME TypeOK, RecordedOnce, Accounted, NEW x \in Int, UNCHANGED credit,
           CanApply(balances, suspenseRefundLegs(x)),
           balances' = applyEntries(balances, suspenseRefundLegs(x)),
           Standing' = Standing + 1,
           Sum(amount, SentBack)' + Sum(excessOf, excessTx)'
             = Sum(amount, SentBack) + Sum(excessOf, excessTx) + x + 5000
    PROVE  Accounted'
<1>1. /\ OtherFunds \in Nat /\ IntendedAmount \in Nat
      /\ nombaInboundFeeFor(IntendedAmount) \in Nat /\ nombaInboundFeeFor(OtherFunds) \in Nat
  BY FeesAre
<1>2. balances \in [Accounts -> Int]
  BY DEF TypeOK
<1>3. \A a \in Accounts : balances'[a] >= 0
  BY Fits
<1>m. Moves(balances, balances', 0, -x - 2000, 3000, 2000, x + 5000)
  BY <1>2, RefundEntries
<1> QED
  BY <1>1, <1>2, <1>3, <1>m, Numbers, FeesAre DEF Moves, Accounted, Brought, Accounts

\* A refund is reversed: the money is in suspense, and its fees are in the books.
LEMMA UnrefundAccounted ==
    ASSUME TypeOK, RecordedOnce, Accounted, NEW p \in SentBack, amount[p] > OUTBOUND_FEE,
           balances' = applyEntries(balances, Flip(suspenseRefundLegs(refundAmount(p)))),
           SentBack' = SentBack \ {p}, UNCHANGED <<amount, total, excessTx, credit>>
    PROVE  Accounted'
<1>1. /\ OtherFunds \in Nat /\ IntendedAmount \in Nat
      /\ nombaInboundFeeFor(IntendedAmount) \in Nat /\ nombaInboundFeeFor(OtherFunds) \in Nat
  BY FeesAre
<1>2. balances \in [Accounts -> Int] /\ amount \in [Payments -> Amounts]
  BY DEF TypeOK
<1>3. SentBack \in SUBSET Payments /\ p \in Payments /\ SentBack \ {p} \in SUBSET Payments
  BY DEF SentBack
<1>4. refundAmount(p) = amount[p] - 5000 /\ refundAmount(p) > 0 /\ refundAmount(p) \in Int
  BY <1>2, <1>3, AmountsAre, FeesAre DEF refundAmount
<1>5. Sum(amount, SentBack) = amount[p] + Sum(amount, SentBack \ {p})
  <2>1. IsFiniteSet(SentBack) /\ \A q \in SentBack : amount[q] \in Int
    BY <1>2, <1>3, AmountsAre
  <2> QED
    BY <2>1, SumRemove
<1>6. Sum(amount, SentBack \ {p}) \in Int /\ Sum(amount, SentBack \ {p}) >= 0
  BY <1>2, <1>3, AmountsAre
<1>7. excessOf' = excessOf
  BY DEF excessOf, thisPaymentExcess
<1>8. Cardinality(SentBack) = Cardinality(SentBack \ {p}) + 1 /\ Cardinality(SentBack \ {p}) \in Nat
  <2>1. (SentBack \ {p}) \union {p} = SentBack
    OBVIOUS
  <2> QED
    BY <1>3, <2>1, CountOne
<1>9. Standing' = Standing - 1 /\ Standing' \in Nat
  BY <1>8, Numbers DEF Standing
<1>10. Moves(balances, balances', 0, refundAmount(p) + 2000, -3000, -2000,
             -refundAmount(p) - 5000)
  BY <1>2, <1>4, RefundEntries
<1>11. balances'["suspense"] = Sum(amount, SentBack)' + Sum(excessOf, excessTx)'
  <2>1. Sum(amount, SentBack)' = Sum(amount, SentBack \ {p})
    BY Zenon
  <2>2. Sum(excessOf, excessTx)' = Sum(excessOf, excessTx)
    BY <1>7, Zenon
  <2>3. balances'["suspense"] = balances["suspense"] - amount[p] /\ amount[p] \in Int
    BY <1>2, <1>3, <1>4, <1>10, AmountsAre DEF Moves, Accounts
  <2> QED
    BY <1>5, <1>6, <2>1, <2>2, <2>3, Numbers DEF Accounted
<1>12. /\ balances'["platform_revenue"] = Brought(1000, 1000) + 3000 * Standing'
       /\ balances'["nomba_fee_expense"] =
             Brought(nombaInboundFeeFor(OtherFunds), nombaInboundFeeFor(IntendedAmount))
               + 2000 * Standing'
  BY <1>1, <1>9, <1>10, Numbers, FeesAre DEF Moves, Accounted, Brought, Accounts
<1>13. \A a \in Accounts : balances'[a] >= 0
  <2>1. Sum(excessOf, excessTx)' >= 0 /\ Sum(excessOf, excessTx)' \in Int
    BY <1>7, Numbers
  <2>2. Sum(amount, SentBack)' >= 0 /\ Sum(amount, SentBack)' \in Int
    BY <1>6
  <2>3. balances'["suspense"] >= 0
    BY <2>1, <2>2, <1>11
  <2>4. balances'["platform_revenue"] >= 0 /\ balances'["nomba_fee_expense"] >= 0
    BY <1>1, <1>9, <1>12 DEF Moves, Brought
  <2>5. balances'["nomba_clearing"] >= 0
    BY <2>4, <1>10 DEF Moves, Accounted
  <2>6. balances'["pot"] >= 0 /\ balances'["platform_float"] >= 0
    BY <1>2, <1>4, <1>10 DEF Moves, Accounted, Accounts
  <2> QED
    BY <2>3, <2>4, <2>5, <2>6 DEF Accounts
<1>14. /\ balances'["nomba_clearing"] = balances'["nomba_fee_expense"]
       /\ balances'["platform_float"] + balances'["suspense"]
            = balances'["pot"] + balances'["platform_revenue"]
  BY <1>2, <1>4, <1>10 DEF Moves, Accounted, Accounts
<1> QED
  BY <1>10, <1>11, <1>12, <1>13, <1>14, FeesAre DEF Moves, Accounted, Brought

\* A payment's expiry refund is posted.
LEMMA PostRefundAccounted ==
    ASSUME TypeOK, TypeOK', RecordedOnce, RefundsInOrder, Accounted, NEW p \in Payments,
           postRefund(p)
    PROVE  Accounted'
<1>0. amount \in [Payments -> Amounts] /\ SentBack \in SUBSET Payments
  BY DEF TypeOK, SentBack
<1>1. CASE UNCHANGED <<expiryTx, balances>>
  <2>1. UNCHANGED <<balances, credit, amount, total, reversals, excessTx, expiryTx>>
    BY <1>1 DEF postRefund
  <2>2. SentBack' = SentBack /\ Sum(excessOf, excessTx)' = Sum(excessOf, excessTx)
    BY <2>1, ExcessKept DEF SentBack, Sent
  <2> QED
    BY <2>1, <2>2, NothingPosted
<1>2. CASE /\ expiryTx[p] = "none" /\ CanApply(balances, suspenseRefundLegs(refundAmount(p)))
           /\ expiryTx' = [expiryTx EXCEPT ![p] = "processing"]
           /\ balances' = applyEntries(balances, suspenseRefundLegs(refundAmount(p)))
  <2>1. UNCHANGED <<credit, amount, total, reversals, excessTx>>
    BY DEF postRefund
  <2>2. p \notin SentBack /\ SentBack' = SentBack \union {p}
    BY <1>2, <2>1 DEF SentBack, Sent, RefundsInOrder, TypeOK
  <2>3. excessOf' = excessOf
    BY <2>1 DEF excessOf, thisPaymentExcess
  <2>4. Sum(amount, SentBack \union {p}) = Sum(amount, SentBack) + amount[p]
    <3>1. IsFiniteSet(SentBack) /\ \A q \in SentBack \union {p} : amount[q] \in Int
      BY <1>0, AmountsAre
    <3> QED
      BY <3>1, <2>2, SumAdd
  <2>5. Sum(amount, SentBack)' = Sum(amount, SentBack) + amount[p]
    BY <2>1, <2>2, <2>4
  <2>6. Standing' = Standing + 1
    BY <1>0, <2>1, <2>2, CountOne, Numbers DEF Standing
  <2>7. refundAmount(p) = amount[p] - 5000 /\ refundAmount(p) \in Int /\ amount[p] \in Int
    BY <1>0, AmountsAre, FeesAre DEF refundAmount
  <2>8. Sum(amount, SentBack)' + Sum(excessOf, excessTx)'
          = Sum(amount, SentBack) + Sum(excessOf, excessTx) + refundAmount(p) + 5000
    <3>1. Sum(excessOf, excessTx)' = Sum(excessOf, excessTx)
      BY <2>1, <2>3
    <3> QED
      BY <3>1, <2>5, <2>7, Numbers
  <2> QED
    BY <1>2, <2>1, <2>6, <2>7, <2>8, RefundAccounted
<1> QED
  BY <1>1, <1>2 DEF postRefund

\* An overpayment's refund is posted.
LEMMA PostExcessAccounted ==
    ASSUME TypeOK, TypeOK', RecordedOnce, Accounted, NEW p \in Payments, postExcess(p)
    PROVE  Accounted'
<1>0. UNCHANGED <<credit, amount, total, reversals, expiryTx>>
  BY DEF postExcess
<1>1. SentBack' = SentBack /\ excessOf' = excessOf
  BY <1>0 DEF SentBack, Sent, excessOf, thisPaymentExcess
<1>2. p \notin excessTx
  BY DEF postExcess, RecordedOnce
<1>3. CASE UNCHANGED <<excessTx, balances>>
  BY <1>0, <1>1, <1>3, NothingPosted
<1>4. CASE /\ CanApply(balances, suspenseRefundLegs(thisPaymentExcess(p) - OUTBOUND_FEE))
           /\ balances' = applyEntries(balances,
                             suspenseRefundLegs(thisPaymentExcess(p) - OUTBOUND_FEE))
           /\ excessTx' = excessTx \union {p}
  <2>1. /\ excessOf[p] = thisPaymentExcess(p) /\ thisPaymentExcess(p) \in Int
        /\ \A q \in excessTx \union {p} : excessOf[q] \in Int
    BY ExcessTyped DEF TypeOK
  <2>2. Sum(excessOf, excessTx \union {p}) = Sum(excessOf, excessTx) + excessOf[p]
    <3>1. IsFiniteSet(excessTx)
      BY FS_Subset DEF TypeOK
    <3> QED
      BY <3>1, <1>2, <2>1, SumAdd
  <2>3. Sum(excessOf, excessTx)' = Sum(excessOf, excessTx) + thisPaymentExcess(p)
    BY <1>1, <1>4, <2>1, <2>2
  <2>4. Sum(amount, SentBack)' = Sum(amount, SentBack)
    BY <1>0, <1>1
  <2>5. Standing' = Standing + 1
    <3>1. Cardinality(excessTx') = Cardinality(excessTx) + 1
      BY <1>2, <1>4, CountOne DEF TypeOK
    <3> QED
      BY <1>1, <3>1, Numbers DEF Standing
  <2> DEFINE x == thisPaymentExcess(p) - OUTBOUND_FEE
  <2>6. x \in Int /\ thisPaymentExcess(p) = x + 5000
    BY <2>1, FeesAre
  <2>7. Sum(amount, SentBack)' + Sum(excessOf, excessTx)'
          = Sum(amount, SentBack) + Sum(excessOf, excessTx) + x + 5000
    <3> HIDE DEF x
    <3> QED
      BY <2>3, <2>4, <2>6, Numbers
  <2>8. CanApply(balances, suspenseRefundLegs(x)) /\ balances' = applyEntries(balances, suspenseRefundLegs(x))
    BY <1>4
  <2> HIDE DEF x
  <2> QED
    BY <1>0, <2>5, <2>6, <2>7, <2>8, RefundAccounted
<1> QED
  BY <1>2, <1>3, <1>4 DEF postExcess

\* A refund is reversed, once.
LEMMA ReverseExpiryAccounted ==
    ASSUME TypeOK, TypeOK', RecordedOnce, RefundsInOrder, Accounted, NEW p \in Payments,
           reverseExpiry(p), expiryTx[p] # "none",
           UNCHANGED <<amount, total, excessTx, credit>>
    PROVE  Accounted'
<1>1. CASE p \in reversals
  <2>1. UNCHANGED <<balances, reversals>> /\ SentBack' = SentBack
    BY <1>1 DEF reverseExpiry, SentBack, Sent, TypeOK
  <2> QED
    BY <2>1, ExcessKept, NothingPosted
<1>2. CASE p \notin reversals
  <2>1. p \in SentBack /\ SentBack' = SentBack \ {p}
    BY <1>2 DEF reverseExpiry, SentBack, Sent, TypeOK
  <2>2. amount[p] > OUTBOUND_FEE
    BY DEF RefundsInOrder
  <2> QED
    BY <1>2, <2>1, <2>2, UnrefundAccounted DEF reverseExpiry
<1> QED
  BY <1>1, <1>2

\* Every step.
LEMMA NextAccounted ==
    ASSUME TypeOK, TypeOK', RecordedOnce, RefundsInOrder, Accounted, [Next]_vars
    PROVE  Accounted'
<1>1. ASSUME UNCHANGED <<balances, credit, amount, excessTx, reversals>>,
             \A p \in Payments : expiryTx'[p] = "none" <=> expiryTx[p] = "none",
             \A p \in excessTx : total'[p] = total[p]
      PROVE  Accounted'
  <2>1. SentBack' = SentBack
    BY <1>1 DEF SentBack, Sent
  <2> QED
    BY <1>1, <2>1, ExcessKept, NothingPosted
<1>2. ASSUME NEW p \in Payments,
             confirmFunding(p) \/ confirmThrows(p) \/ pay(p) \/ startRefund(p) \/ refundFails(p)
      PROVE  Accounted'
  BY <1>1, <1>2 DEF confirmFunding, confirmThrows, pay, startRefund, refundFails, vars
<1>3. ASSUME NEW p \in Payments, confirmStep(p)
      PROVE  Accounted'
  <2>1. CASE insertPayment(p) \/ markUnderpaid(p) \/ markFunded(p) \/ refundOverpayment(p)
    BY <1>1, <2>1 DEF insertPayment, markUnderpaid, markFunded, refundOverpayment
  <2>2. CASE readTotal(p)
    <3>1. p \notin excessTx
      BY <2>2 DEF RecordedOnce, readTotal
    <3> QED
      BY <1>1, <2>2, <3>1 DEF readTotal, TypeOK
  <2>3. CASE postContribution(p)
    BY <1>1, <2>3, CreditAccounted DEF postContribution
  <2>4. CASE postExcess(p)
    BY <2>4, PostExcessAccounted
  <2> QED
    BY <1>3, <2>1, <2>2, <2>3, <2>4 DEF confirmStep
<1>4. CASE \/ expire \/ reverseFunding \/ markReversed \/ UNCHANGED vars
           \/ \E e \in Events : handlerFails(e)
  BY <1>1, <1>4 DEF expire, reverseFunding, markReversed, handlerFails, vars
<1>5. CASE reverseContribution
  BY <1>1, <1>5, ReverseAccounted DEF reverseContribution
<1>6. CASE sweepStep
  BY <1>1, <1>6 DEF sweepStep, selectExpired, claimExpired, selectPayments, finishSweep,
                    enqueueContributionRefund
<1>7. ASSUME NEW p \in Payments, callRefund(p) \/ completeRefund(p)
      PROVE  Accounted'
  <2>1. CASE callRefund(p)
    BY <1>1, <2>1 DEF callRefund
  <2>2. CASE completeRefund(p)
    <3>1. expiryTx[p] # "none"
      BY <2>2 DEF completeRefund, RefundsInOrder
    <3> QED
      BY <1>1, <2>2, <3>1 DEF completeRefund, TypeOK
  <2> QED
    BY <1>7, <2>1, <2>2
<1>8. ASSUME NEW p \in Payments, reverseRefund(p)
      PROVE  Accounted'
  <2>1. expiryTx[p] # "none"
    BY <1>8 DEF reverseRefund, RefundsInOrder
  <2> QED
    BY <1>8, <2>1, ReverseExpiryAccounted DEF reverseRefund
<1>9. ASSUME NEW p \in Payments, resolvePendingTransfer(p)
      PROVE  Accounted'
  <2>1. CASE reverseExpiry(p)
    BY <1>9, <2>1, ReverseExpiryAccounted DEF resolvePendingTransfer
  <2>2. CASE expiryTx' = [expiryTx EXCEPT ![p] = "completed"] /\ UNCHANGED <<reversals, balances>>
    BY <1>1, <1>9, <2>2 DEF resolvePendingTransfer, TypeOK
  <2> QED
    BY <1>9, <2>1, <2>2 DEF resolvePendingTransfer
<1> QED
  BY <1>2, <1>3, <1>4, <1>5, <1>6, <1>7, <1>8, <1>9, PostRefundAccounted
     DEF Next, reverseStep, workerStep
-----------------------------------------------------------------------------
(* What is paid in full is credited *)

\* Initially nothing is credited.
LEMMA InitCredited == Init => Credited
<1>1. Init => Sum(amount, rows) = 0
  BY SumEmpty DEF Init
<1> QED
  BY <1>1, FeesAre DEF Credited

\* Between the recording of a payment and the credit someone is on the way, or was stopped.
LEMMA NextCredited ==
    ASSUME TypeOK, HandlersHoldClaims, Credited, [Next]_vars
    PROVE  Credited'
<1>0. /\ pc \in [Events -> HandlerSteps] /\ Payments \subseteq Events
      /\ "reversal" \in Events /\ "reversal" \notin Payments
  BY DEF TypeOK, Events
<1>1. ASSUME UNCHANGED <<amount, rows>>, windows \subseteq windows',
             credit # "none" => credit' # "none",
             \A p \in Payments : pc[p] \in {"total", "post"} =>
                \/ pc'[p] \in {"total", "post"} \/ credit' # "none" \/ "uncounted" \in windows'
                \/ ~(Sum(amount, rows) >= ExpectedAmount)
      PROVE  Credited'
  BY <1>1 DEF Credited
<1>2. ASSUME NEW p \in Payments, confirmFunding(p)
      PROVE  Credited'
  <2>1. pc[p] = "idle"
    BY <1>0, <1>2 DEF confirmFunding, HandlersHoldClaims
  <2> QED
    BY <1>0, <1>1, <1>2, <2>1 DEF confirmFunding
<1>3. ASSUME NEW p \in Payments, confirmStep(p)
      PROVE  Credited'
  <2>1. CASE insertPayment(p)
    <3>1. CASE UNCHANGED rows
      BY <1>0, <1>1, <2>1, <3>1 DEF insertPayment
    <3>2. CASE pc' = [pc EXCEPT ![p] = "total"]
      <4>1. pc'[p] = "total"
        BY <1>0, <3>2
      <4> QED
        BY <4>1 DEF Credited
    <3> QED
      BY <2>1, <3>1, <3>2 DEF insertPayment
  <2>2. CASE readTotal(p)
    <3>1. Sum(amount, rows) >= ExpectedAmount => pc'[p] = "post"
      <4>1. SumOf(rows) = Sum(amount, rows) /\ Sum(amount, rows) \in Int /\ ExpectedAmount \in Int
        BY SumOfIs, AmountsAre, FeesAre DEF TypeOK
      <4> QED
        BY <1>0, <2>2, <4>1 DEF readTotal
    <3> QED
      BY <1>0, <1>1, <2>2, <3>1 DEF readTotal
  <2>3. CASE markUnderpaid(p) \/ markFunded(p)
    BY <1>0, <1>1, <2>3 DEF markUnderpaid, markFunded
  <2>4. CASE postContribution(p)
    BY <1>0, <1>1, <2>4 DEF postContribution
  <2>5. CASE postExcess(p)
    BY <1>0, <1>1, <2>5 DEF postExcess
  <2>6. CASE refundOverpayment(p)
    BY <1>0, <1>1, <2>6 DEF refundOverpayment
  <2> QED
    BY <1>3, <2>1, <2>2, <2>3, <2>4, <2>5, <2>6 DEF confirmStep
<1>4. CASE reverseFunding
  BY <1>0, <1>1, <1>4 DEF reverseFunding
<1>5. CASE reverseStep
  BY <1>0, <1>1, <1>5 DEF reverseStep, reverseContribution, markReversed
<1>6. ASSUME NEW e \in Events, handlerFails(e)
      PROVE  Credited'
  BY <1>0, <1>1, <1>6 DEF handlerFails
<1>7. CASE sweepStep
  BY <1>1, <1>7 DEF sweepStep, selectExpired, claimExpired, selectPayments, finishSweep,
                    enqueueContributionRefund
<1>8. CASE expire \/ UNCHANGED vars
  BY <1>1, <1>8 DEF expire, vars
<1>9. ASSUME NEW p \in Payments, pay(p) \/ confirmThrows(p) \/ refundFails(p)
      PROVE  Credited'
  BY <1>1, <1>9 DEF pay, confirmThrows, refundFails, vars
<1>10. ASSUME NEW p \in Payments, workerStep(p) \/ resolvePendingTransfer(p)
      PROVE  Credited'
  BY <1>1, <1>10 DEF workerStep, startRefund, postRefund, callRefund, completeRefund,
                     reverseRefund, resolvePendingTransfer
<1> QED
  BY <1>2, <1>3, <1>4, <1>5, <1>6, <1>7, <1>8, <1>9, <1>10 DEF Next
-----------------------------------------------------------------------------
(* What is sent back of an overpayment *)

\* Initially there is no excess.
LEMMA InitExcess == Init => ExcessCovered
<1> SUFFICES ASSUME Init PROVE ExcessCovered
  OBVIOUS
<1>1. Confirming = {} /\ Exceeding = {} /\ rows \ Uncounted = {}
  BY DEF Init, Confirming, Exceeding, Uncounted, Events
<1>2. Sum(excessOf, Exceeding) = 0 /\ Sum(amount, rows \ Uncounted) = 0
  BY <1>1, SumEmpty
<1> QED
  BY <1>1, <1>2, FeesAre DEF ExcessCovered, Over

\* What handlers and posted excesses will send back is a number, and none is negative.
LEMMA ExceedingTyped ==
    ASSUME TypeOK, RecordedOnce
    PROVE  /\ IsFiniteSet(Exceeding) /\ Exceeding \in SUBSET Payments
           /\ \A p \in Exceeding : excessOf[p] \in Int /\ excessOf[p] >= 0
           /\ Sum(excessOf, Exceeding) \in Int
<1>1. Exceeding \in SUBSET Payments
  BY DEF Exceeding, TypeOK
<1>2. IsFiniteSet(Exceeding)
  BY <1>1, FS_Subset
<1>3. \A p \in Exceeding : total[p] >= ExpectedAmount
  BY <1>1 DEF Exceeding, RecordedOnce
<1>4. \A p \in Exceeding : excessOf[p] \in Int /\ excessOf[p] >= 0
  BY <1>1, <1>3, ExcessTyped DEF TypeOK
<1> QED
  BY <1>1, <1>2, <1>4, SumType

\* Fewer to send back, and more that counts.
LEMMA ExcessShrinks ==
    ASSUME TypeOK, TypeOK', RecordedOnce, ExcessCovered, amount' = amount,
           windows \subseteq windows',
           "payments" \notin windows' => \A p, q \in Confirming' : p = q,
           Exceeding' \subseteq Exceeding, \A p \in Exceeding' : total'[p] = total[p],
           rows \ Uncounted \subseteq rows' \ Uncounted'
    PROVE  ExcessCovered'
<1> SUFFICES ASSUME "payments" \notin windows'
             PROVE  Sum(excessOf, Exceeding)' <= Over(Sum(amount, rows \ Uncounted))'
  BY DEF ExcessCovered
<1>1. Sum(excessOf', Exceeding') = Sum(excessOf, Exceeding')
  <2>1. IsFiniteSet(Exceeding') /\ Exceeding' \subseteq Payments
    BY FS_Subset, ExceedingTyped
  <2>2. \A p \in Exceeding' : excessOf'[p] = excessOf[p]
    BY <2>1 DEF excessOf, thisPaymentExcess
  <2> QED
    BY <2>1, <2>2, SumSame
<1>2. Sum(excessOf, Exceeding') <= Sum(excessOf, Exceeding) /\ Sum(excessOf, Exceeding') \in Int
  <2>1. IsFiniteSet(Exceeding') /\ \A p \in Exceeding' : excessOf[p] \in Int
    BY FS_Subset, ExceedingTyped
  <2> QED
    BY <2>1, ExceedingTyped, SumSubset, SumType
<1>3. /\ Sum(amount, rows \ Uncounted) <= Sum(amount, rows' \ Uncounted')
      /\ Sum(amount, rows \ Uncounted) \in Int /\ Sum(amount, rows' \ Uncounted') \in Int
  <2>1. /\ rows' \ Uncounted' \in SUBSET Payments /\ rows \ Uncounted \in SUBSET Payments
        /\ amount \in [Payments -> Amounts]
    BY DEF TypeOK
  <2>2. /\ IsFiniteSet(rows' \ Uncounted')
        /\ \A p \in rows' \ Uncounted' : amount[p] \in Int /\ amount[p] >= 0
    BY <2>1, AmountsAre
  <2>3. Sum(amount, rows \ Uncounted) <= Sum(amount, rows' \ Uncounted')
    BY <2>2, SumSubset
  <2> QED
    BY <2>1, <2>3, AmountsAre
<1>4. Sum(excessOf, Exceeding) <= Over(Sum(amount, rows \ Uncounted))
  BY DEF ExcessCovered
<1>5. Over(Sum(amount, rows \ Uncounted)) <= Over(Sum(amount, rows' \ Uncounted'))
      /\ Over(Sum(amount, rows \ Uncounted)) \in Int /\ Over(Sum(amount, rows' \ Uncounted')) \in Int
  BY <1>3, FeesAre DEF Over
<1>6. Sum(excessOf, Exceeding)' <= Over(Sum(amount, rows' \ Uncounted'))
  BY <1>1, <1>2, <1>4, <1>5, ExceedingTyped
<1> QED
  BY <1>6 DEF Over

\* The total is read: the handler is alone, so what it counted in addition is its own payment.
LEMMA ReadExcess ==
    ASSUME TypeOK, TypeOK', RecordedOnce, ExcessCovered, NEW p \in Payments, readTotal(p)
    PROVE  ExcessCovered'
<1>0. /\ pc \in [Events -> HandlerSteps] /\ p \in Events /\ Payments \subseteq Events
      /\ total \in [Payments -> Int] /\ amount \in [Payments -> Amounts] /\ rows \subseteq Payments
  BY DEF TypeOK, Events
<1>1. /\ pc[p] = "total" /\ UNCHANGED <<amount, rows, excessTx, windows>>
      /\ p \in rows /\ p \notin excessTx
      /\ SumOf(rows) = Sum(amount, rows) /\ Sum(amount, rows) \in Int /\ ExpectedAmount \in Nat
      /\ pc'[p] = IF Sum(amount, rows) < ExpectedAmount THEN "underpaid" ELSE "post"
      /\ total'[p] = Sum(amount, rows)
      /\ \A q \in Payments : q # p => pc'[q] = pc[q] /\ total'[q] = total[q]
  <2>1. SumOf(rows) = Sum(amount, rows) /\ Sum(amount, rows) \in Int /\ ExpectedAmount \in Nat
    BY <1>0, SumOfIs, AmountsAre, FeesAre
  <2>2. p \in rows /\ p \notin excessTx
    BY DEF RecordedOnce, readTotal
  <2> QED
    BY <1>0, <2>1, <2>2 DEF readTotal
<1>2. Confirming' = Confirming /\ p \in Confirming
  BY <1>0, <1>1 DEF Confirming
<1>3. p \notin Exceeding
  BY <1>1 DEF Exceeding
<1>4. CASE Sum(amount, rows) < ExpectedAmount
  <2>1. Exceeding' = Exceeding
    BY <1>1, <1>4 DEF Exceeding
  <2>2. rows \ Uncounted \subseteq rows' \ Uncounted'
    BY <1>1, <1>4 DEF Uncounted
  <2>3. \A q \in Exceeding' : total'[q] = total[q]
    BY <1>1, <1>3, <2>1, ExceedingTyped
  <2> QED
    BY <1>1, <1>2, <2>1, <2>2, <2>3, ExcessShrinks DEF ExcessCovered
<1>5. CASE ~(Sum(amount, rows) < ExpectedAmount)
  <2> SUFFICES ASSUME "payments" \notin windows
               PROVE  Sum(excessOf, Exceeding)' <= Over(Sum(amount, rows \ Uncounted))'
    BY <1>1, <1>2 DEF ExcessCovered
  <2>1. Exceeding' = Exceeding \union {p}
    BY <1>1, <1>5 DEF Exceeding
  <2>2. Uncounted = {p} /\ Uncounted' = {}
    <3>1. Uncounted = {p}
      BY <1>1, <1>2 DEF Uncounted, Confirming, ExcessCovered
    <3> QED
      BY <1>1, <1>5, <3>1 DEF Uncounted
  <2>3. \A q \in Exceeding : excessOf'[q] = excessOf[q]
    BY <1>1, <1>3, ExceedingTyped DEF excessOf, thisPaymentExcess
  <2>4. /\ excessOf'[p] \in Int
        /\ excessOf'[p] <= Sum(amount, rows) - ExpectedAmount
        /\ excessOf'[p] <= amount[p] /\ amount[p] \in Int
    BY <1>0, <1>1, <1>5, AmountsAre DEF excessOf, thisPaymentExcess
  <2>5. Sum(excessOf', Exceeding) = Sum(excessOf, Exceeding)
    BY <2>3, ExceedingTyped, SumSame
  <2>6. Sum(excessOf', Exceeding \union {p}) = Sum(excessOf', Exceeding) + excessOf'[p]
    <3>1. \A q \in Exceeding \union {p} : excessOf'[q] \in Int
      BY <2>3, <2>4, ExceedingTyped
    <3> QED
      BY <3>1, <1>3, ExceedingTyped, SumAdd
  <2>7. Sum(excessOf, Exceeding)' = Sum(excessOf, Exceeding) + excessOf'[p]
    BY <2>1, <2>5, <2>6
  <2>8. Sum(amount, rows) = amount[p] + Sum(amount, rows \ {p}) /\ Sum(amount, rows \ {p}) \in Int
    <3>1. IsFiniteSet(rows) /\ (\A q \in rows : amount[q] \in Int) /\ Sum(amount, rows \ {p}) \in Int
      BY <1>0, AmountsAre
    <3> QED
      BY <3>1, <1>1, SumRemove
  <2>9. Sum(excessOf, Exceeding) <= Over(Sum(amount, rows \ {p}))
    BY <2>2 DEF ExcessCovered
  <2>10. Sum(excessOf, Exceeding) + excessOf'[p] <= Over(Sum(amount, rows))
    BY <1>1, <1>5, <2>4, <2>8, <2>9, ExceedingTyped DEF Over
  <2>11. rows' \ Uncounted' = rows
    BY <1>1, <2>2
  <2>12. Over(Sum(amount, rows \ Uncounted))' = Over(Sum(amount, rows))
    <3>1. Sum(amount, rows \ Uncounted)' = Sum(amount, rows)
      BY <1>1, <2>11, Zenon
    <3> QED
      BY <3>1 DEF Over
  <2> QED
    BY <2>7, <2>10, <2>12
<1> QED
  BY <1>4, <1>5

\* Every step.
LEMMA NextExcess ==
    ASSUME TypeOK, TypeOK', HandlersHoldClaims, RecordedOnce, ExcessCovered, [Next]_vars
    PROVE  ExcessCovered'
<1>0. /\ pc \in [Events -> HandlerSteps] /\ Payments \subseteq Events
      /\ "reversal" \in Events /\ "reversal" \notin Payments
      /\ rows \subseteq Payments /\ excessTx \subseteq Payments
  BY DEF TypeOK, Events
<1>1. ASSUME UNCHANGED <<amount, total, rows>>, windows \subseteq windows',
             Confirming' \subseteq Confirming, Exceeding' \subseteq Exceeding,
             Uncounted' \subseteq Uncounted
      PROVE  ExcessCovered'
  BY <1>1, ExcessShrinks DEF ExcessCovered
<1>2. ASSUME NEW p \in Payments, confirmFunding(p)
      PROVE  ExcessCovered'
  <2>1. pc[p] = "idle"
    BY <1>0, <1>2 DEF confirmFunding, HandlersHoldClaims
  <2>2. /\ UNCHANGED <<amount, total, rows, excessTx>> /\ windows \subseteq windows'
        /\ \A q \in Payments : pc'[q] = pc[q] \/ (q = p /\ pc'[q] = "insert")
        /\ UNCHANGED pc \/ Confirming = {} \/ "payments" \in windows'
    <3>1. /\ UNCHANGED <<amount, total, rows, excessTx>>
          /\ \/ UNCHANGED <<pc, windows>>
             \/ /\ pc' = [pc EXCEPT ![p] = "insert"]
                /\ windows' = IF Confirming = {} THEN windows ELSE windows \union {"payments"}
      BY <1>2 DEF confirmFunding
    <3>2. \A q \in Payments : pc'[q] = pc[q] \/ (q = p /\ pc'[q] = "insert")
      BY <1>0, <3>1
    <3>3. windows \subseteq windows'
      BY <3>1
    <3>4. UNCHANGED pc \/ Confirming = {} \/ "payments" \in windows'
      BY <3>1
    <3> QED
      BY <3>1, <3>2, <3>3, <3>4
  <2>3. Exceeding' \subseteq Exceeding /\ Uncounted' = Uncounted
    BY <2>1, <2>2 DEF Exceeding, Uncounted
  <2>4. "payments" \notin windows' => \A q, r \in Confirming' : q = r
    BY <2>2 DEF Confirming, ExcessCovered
  <2> QED
    BY <2>2, <2>3, <2>4, ExcessShrinks
<1>3. ASSUME NEW p \in Payments, insertPayment(p)
      PROVE  ExcessCovered'
  <2>1. /\ UNCHANGED <<amount, total, excessTx, windows>> /\ pc[p] = "insert"
        /\ \A q \in Payments : q # p => pc'[q] = pc[q]
        /\ \/ pc'[p] = "idle" /\ rows' = rows
           \/ pc'[p] = "total" /\ rows' = rows \union {p} /\ p \notin rows
    BY <1>0, <1>3 DEF insertPayment
  <2>2. Confirming' \subseteq Confirming /\ Exceeding' = Exceeding
    BY <2>1 DEF Confirming, Exceeding
  <2>3. rows \ Uncounted \subseteq rows' \ Uncounted'
    BY <2>1 DEF Uncounted
  <2> QED
    BY <2>1, <2>2, <2>3, ExcessShrinks DEF ExcessCovered
<1>4. ASSUME NEW p \in Payments, postExcess(p)
      PROVE  ExcessCovered'
  <2>1. /\ UNCHANGED <<amount, total, rows, windows>> /\ pc[p] = "excess"
        /\ excessTx' \subseteq excessTx \union {p} /\ pc'[p] \in {"idle", "send"}
        /\ \A q \in Payments : q # p => pc'[q] = pc[q]
    BY <1>0, <1>4 DEF postExcess
  <2>2. Confirming' \subseteq Confirming /\ Exceeding' \subseteq Exceeding /\ Uncounted' = Uncounted
    BY <2>1 DEF Confirming, Exceeding, Uncounted
  <2> QED
    BY <1>1, <2>1, <2>2
<1>5. ASSUME NEW p \in Payments,
             markUnderpaid(p) \/ postContribution(p) \/ markFunded(p) \/ refundOverpayment(p)
      PROVE  ExcessCovered'
  <2>1. /\ UNCHANGED <<amount, total, rows, excessTx, windows>>
        /\ \/ pc[p] \in {"underpaid", "send"} /\ pc'[p] = "idle"
           \/ pc[p] = "post" /\ pc'[p] = "fund"
           \/ pc[p] = "fund" /\ pc'[p] = "excess"
        /\ \A q \in Payments : q # p => pc'[q] = pc[q]
    BY <1>0, <1>5 DEF markUnderpaid, postContribution, markFunded, refundOverpayment
  <2>2. Confirming' \subseteq Confirming /\ Exceeding' \subseteq Exceeding /\ Uncounted' = Uncounted
    BY <2>1 DEF Confirming, Exceeding, Uncounted
  <2> QED
    BY <1>1, <2>1, <2>2
<1>6. CASE reverseFunding \/ reverseStep
  <2>1. /\ UNCHANGED <<amount, total, rows, excessTx, windows>>
        /\ \A q \in Payments : pc'[q] = pc[q]
    BY <1>0, <1>6 DEF reverseFunding, reverseStep, reverseContribution, markReversed
  <2>2. Confirming' = Confirming /\ Exceeding' = Exceeding /\ Uncounted' = Uncounted
    BY <2>1 DEF Confirming, Exceeding, Uncounted
  <2> QED
    BY <1>1, <2>1, <2>2
<1>7. ASSUME NEW e \in Events, handlerFails(e)
      PROVE  ExcessCovered'
  <2>1. /\ UNCHANGED <<amount, total, rows, excessTx>> /\ windows \subseteq windows'
        /\ \A q \in Payments : pc'[q] = pc[q] \/ pc'[q] = "idle"
    BY <1>0, <1>7 DEF handlerFails
  <2>2. Confirming' \subseteq Confirming /\ Exceeding' \subseteq Exceeding /\ Uncounted' \subseteq Uncounted
    BY <2>1 DEF Confirming, Exceeding, Uncounted
  <2> QED
    BY <1>1, <2>1, <2>2
<1>8. CASE sweepStep \/ expire \/ UNCHANGED vars
  <2>1. UNCHANGED <<amount, total, rows, excessTx, pc>> /\ windows \subseteq windows'
    BY <1>8 DEF sweepStep, selectExpired, claimExpired, selectPayments, finishSweep,
                enqueueContributionRefund, expire, vars
  <2>2. Confirming' = Confirming /\ Exceeding' = Exceeding /\ Uncounted' = Uncounted
    BY <2>1 DEF Confirming, Exceeding, Uncounted
  <2> QED
    BY <1>1, <2>1, <2>2
<1>9. ASSUME NEW p \in Payments, \/ pay(p) \/ confirmThrows(p) \/ refundFails(p)
                                 \/ workerStep(p) \/ resolvePendingTransfer(p)
      PROVE  ExcessCovered'
  <2>1. UNCHANGED <<amount, total, rows, excessTx, pc, windows>>
    BY <1>9 DEF pay, confirmThrows, refundFails, workerStep, startRefund, postRefund, callRefund,
                completeRefund, reverseRefund, resolvePendingTransfer, vars
  <2>2. Confirming' = Confirming /\ Exceeding' = Exceeding /\ Uncounted' = Uncounted
    BY <2>1 DEF Confirming, Exceeding, Uncounted
  <2> QED
    BY <1>1, <2>1, <2>2
<1> QED
  BY <1>2, <1>3, <1>4, <1>5, <1>6, <1>7, <1>8, <1>9, ReadExcess DEF Next, confirmStep
-----------------------------------------------------------------------------
(* Credited or refunded *)

\* Initially nothing is decided.
LEMMA InitDecided == Init => Decided
<1> SUFFICES ASSUME Init PROVE Decided
  OBVIOUS
<1>1. Confirming = {}
  BY DEF Init, Confirming, Events
<1> QED
  BY <1>1 DEF Init, Decided, Events

\* Steps after which fewer handlers are between the read and the write of the status.
LEMMA StatusKept ==
    ASSUME Decided, windows' = {} => windows = {}, status' = status,
           Confirming' \subseteq Confirming,
           \A p \in Payments : pc[p] = "fund" => pc'[p] = "fund" \/ windows' # {},
           credit' = credit \/ credit # "none",
           pc'["reversal"] = pc["reversal"] \/ pc'["reversal"] = "idle",
           windows' = {} /\ (sweep' \in {"payments", "enqueue"} \/ \E p \in Payments : job'[p] # "none")
             => sweep \in {"payments", "enqueue"} \/ \E p \in Payments : job[p] # "none"
    PROVE  Decided'
<1> SUFFICES ASSUME windows' = {} PROVE Decided'
  BY DEF Decided
<1>1. \A p \in Confirming' : status' \in {"pending", "underpaid"}
  BY DEF Decided
<1>2. \A p, q \in Confirming' : p = q
  BY DEF Decided
<1>3. credit' # "none" => status' \in {"funded", "reversed"} \/ \E p \in Payments : pc'[p] = "fund"
  BY DEF Decided
<1>4. pc'["reversal"] # "idle" => status' = "funded"
  BY DEF Decided
<1>5. sweep' \in {"payments", "enqueue"} \/ (\E p \in Payments : job'[p] # "none")
        => status' = "failed"
  BY DEF Decided
<1> QED
  BY <1>1, <1>2, <1>3, <1>4, <1>5 DEF Decided

\* Every step.
LEMMA NextDecided ==
    ASSUME TypeOK, HandlersHoldClaims, RefundsInOrder, Decided, [Next]_vars
    PROVE  Decided'
<1>0. /\ pc \in [Events -> HandlerSteps] /\ Payments \subseteq Events
      /\ "reversal" \in Events /\ "reversal" \notin Payments
      /\ job \in [Payments -> {"none", "waiting", "active", "completed", "failed"}]
  BY DEF TypeOK, Events
<1>1. ASSUME NEW p \in Payments, confirmFunding(p)
      PROVE  Decided'
  <2>1. pc[p] = "idle"
    BY <1>0, <1>1 DEF confirmFunding, HandlersHoldClaims
  <2>2. CASE UNCHANGED <<pc, windows>>
    <3>1. UNCHANGED <<status, credit, sweep, job>> /\ Confirming' = Confirming
      BY <1>1, <2>2 DEF confirmFunding, Confirming
    <3> QED
      BY <2>2, <3>1, StatusKept
  <2>3. CASE /\ status \in Open /\ pc' = [pc EXCEPT ![p] = "insert"]
             /\ windows' = IF Confirming = {} THEN windows ELSE windows \union {"payments"}
    <3> SUFFICES ASSUME windows' = {} PROVE Decided'
      BY DEF Decided
    <3>1. Confirming = {} /\ windows = {}
      BY <2>3
    <3>2. /\ UNCHANGED <<status, credit, sweep, job>>
          /\ \A q \in Events : q # p => pc'[q] = pc[q]
          /\ pc'[p] = "insert"
      BY <1>0, <1>1, <2>3 DEF confirmFunding
    <3>3. Confirming' = {p}
      BY <1>0, <3>1, <3>2 DEF Confirming
    <3>4. credit = "none"
      BY <2>3, <3>1 DEF Decided, Confirming
    <3> QED
      BY <1>0, <2>3, <3>1, <3>2, <3>3, <3>4 DEF Decided
  <2> QED
    BY <1>1, <2>2, <2>3 DEF confirmFunding
<1>2. ASSUME NEW p \in Payments, insertPayment(p) \/ readTotal(p) \/ postExcess(p) \/ refundOverpayment(p)
      PROVE  Decided'
  <2>1. /\ UNCHANGED <<status, credit, sweep, job, windows>>
        /\ pc[p] \in {"insert", "total", "excess", "send"}
        /\ pc'[p] \in {"total", "underpaid", "post"} => pc[p] \in {"insert", "total"}
        /\ pc'[p] \in {"idle", "total", "underpaid", "post", "send"}
        /\ \A q \in Events : q # p => pc'[q] = pc[q]
    BY <1>0, <1>2 DEF insertPayment, readTotal, postExcess, refundOverpayment
  <2>2. Confirming' \subseteq Confirming /\ pc'["reversal"] = pc["reversal"]
    BY <1>0, <2>1 DEF Confirming
  <2>3. \A q \in Payments : pc[q] = "fund" => pc'[q] = "fund"
    BY <1>0, <2>1
  <2> QED
    BY <2>1, <2>2, <2>3, StatusKept
<1>3. ASSUME NEW p \in Payments, markUnderpaid(p)
      PROVE  Decided'
  <2>1. /\ UNCHANGED <<credit, sweep, job, windows>> /\ status' = "underpaid"
        /\ pc[p] = "underpaid" /\ pc'[p] = "idle"
        /\ \A q \in Events : q # p => pc'[q] = pc[q]
    BY <1>0, <1>3 DEF markUnderpaid
  <2> SUFFICES ASSUME windows = {} PROVE Decided'
    BY <2>1 DEF Decided
  <2>2. p \in Confirming /\ Confirming = {p}
    BY <2>1 DEF Confirming, Decided
  <2>3. status \in Open /\ \A q \in Payments : pc[q] # "fund"
    BY <2>1, <2>2 DEF Decided, Confirming
  <2>4. credit = "none" /\ pc["reversal"] = "idle"
    BY <2>3 DEF Decided
  <2>5. ~(sweep \in {"payments", "enqueue"} \/ \E q \in Payments : job[q] # "none")
    BY <2>3 DEF Decided
  <2>6. Confirming' = {}
    BY <1>0, <2>1, <2>2 DEF Confirming
  <2> QED
    BY <1>0, <2>1, <2>4, <2>5, <2>6 DEF Decided
<1>4. ASSUME NEW p \in Payments, postContribution(p)
      PROVE  Decided'
  <2>1. /\ UNCHANGED <<status, sweep, job, windows>>
        /\ pc[p] = "post" /\ pc'[p] = "fund"
        /\ \A q \in Events : q # p => pc'[q] = pc[q]
    BY <1>0, <1>4 DEF postContribution
  <2> SUFFICES ASSUME windows = {} PROVE Decided'
    BY <2>1 DEF Decided
  <2>2. Confirming' = Confirming /\ pc'["reversal"] = pc["reversal"]
    BY <1>0, <2>1 DEF Confirming
  <2> QED
    BY <2>1, <2>2 DEF Decided
<1>5. ASSUME NEW p \in Payments, markFunded(p)
      PROVE  Decided'
  <2>1. /\ UNCHANGED <<credit, sweep, job, windows>> /\ status' = "funded"
        /\ pc[p] = "fund" /\ pc'[p] = "excess"
        /\ \A q \in Events : q # p => pc'[q] = pc[q]
    BY <1>0, <1>5 DEF markFunded
  <2> SUFFICES ASSUME windows = {} PROVE Decided'
    BY <2>1 DEF Decided
  <2>2. p \in Confirming /\ Confirming = {p}
    BY <2>1 DEF Confirming, Decided
  <2>3. status \in Open
    BY <2>2 DEF Decided
  <2>4. pc["reversal"] = "idle"
    BY <2>3 DEF Decided
  <2>5. ~(sweep \in {"payments", "enqueue"} \/ \E q \in Payments : job[q] # "none")
    BY <2>3 DEF Decided
  <2>6. Confirming' = {}
    BY <1>0, <2>1, <2>2 DEF Confirming
  <2> QED
    BY <1>0, <2>1, <2>4, <2>5, <2>6 DEF Decided
<1>6. CASE reverseFunding
  <2>1. /\ UNCHANGED <<status, credit, sweep, job, windows>>
        /\ \A q \in Payments : pc'[q] = pc[q]
        /\ pc'["reversal"] = pc["reversal"] \/ status = "funded"
    BY <1>0, <1>6 DEF reverseFunding
  <2>2. Confirming' = Confirming
    BY <2>1 DEF Confirming
  <2> QED
    BY <2>1, <2>2 DEF Decided
<1>7. CASE reverseContribution
  <2>1. /\ UNCHANGED <<status, sweep, job, windows>>
        /\ \A q \in Payments : pc'[q] = pc[q]
        /\ credit # "none" /\ pc["reversal"] = "reverse"
    BY <1>0, <1>7 DEF reverseContribution
  <2>2. Confirming' = Confirming
    BY <2>1 DEF Confirming
  <2> QED
    BY <2>1, <2>2 DEF Decided
<1>8. CASE markReversed
  <2>1. /\ UNCHANGED <<credit, sweep, job, windows>> /\ status' = "reversed"
        /\ \A q \in Payments : pc'[q] = pc[q]
        /\ pc["reversal"] = "mark" /\ pc'["reversal"] = "idle"
    BY <1>0, <1>8 DEF markReversed
  <2> SUFFICES ASSUME windows = {} PROVE Decided'
    BY <2>1 DEF Decided
  <2>2. status = "funded"
    BY <2>1 DEF Decided
  <2>3. Confirming = {} /\ Confirming' = Confirming
    BY <2>1, <2>2 DEF Confirming, Decided
  <2>4. ~(sweep \in {"payments", "enqueue"} \/ \E q \in Payments : job[q] # "none")
    BY <2>2 DEF Decided
  <2> QED
    BY <2>1, <2>3, <2>4 DEF Decided
<1>9. ASSUME NEW e \in Events, handlerFails(e)
      PROVE  Decided'
  <2>1. /\ UNCHANGED <<status, credit, sweep, job>>
        /\ pc'[e] = "idle" /\ \A q \in Events : q # e => pc'[q] = pc[q]
        /\ windows \subseteq windows'
        /\ pc[e] = "fund" => "interrupted" \in windows'
    BY <1>0, <1>9 DEF handlerFails
  <2>2. /\ Confirming' \subseteq Confirming
        /\ pc'["reversal"] = pc["reversal"] \/ pc'["reversal"] = "idle"
        /\ \A q \in Payments : pc[q] = "fund" => pc'[q] = "fund" \/ windows' # {}
    BY <1>0, <2>1 DEF Confirming
  <2> QED
    BY <2>1, <2>2, StatusKept
<1>10. CASE selectExpired
  <2>1. UNCHANGED <<status, credit, job, windows, pc>> /\ sweep' = "claim" /\ Confirming' = Confirming
    BY <1>10 DEF selectExpired, Confirming
  <2> QED
    BY <2>1, StatusKept
<1>11. CASE claimExpired
  <2>1. UNCHANGED <<credit, job, pc>> /\ Confirming' = Confirming
    BY <1>11 DEF claimExpired, Confirming
  <2>2. CASE status \notin Open
    BY <1>11, <2>1, <2>2, StatusKept DEF claimExpired
  <2>3. CASE status \in Open
    <3>1. /\ status' = "failed"
          /\ windows' = IF Confirming = {} THEN windows ELSE windows \union {"sweep"}
      BY <1>11, <2>3 DEF claimExpired
    <3> SUFFICES ASSUME windows' = {} PROVE Decided'
      BY DEF Decided
    <3>2. Confirming = {} /\ windows = {}
      BY <3>1
    <3>3. \A p \in Payments : pc[p] # "fund"
      BY <3>2 DEF Confirming
    <3>4. credit = "none" /\ pc["reversal"] = "idle"
      BY <2>3, <3>2, <3>3 DEF Decided
    <3> QED
      BY <2>1, <3>1, <3>2, <3>4 DEF Decided
  <2> QED
    BY <2>2, <2>3
<1>12. CASE selectPayments
  <2>1. UNCHANGED <<status, credit, job, windows, pc>> /\ sweep = "payments" /\ Confirming' = Confirming
    BY <1>12 DEF selectPayments, Confirming
  <2> QED
    BY <2>1, StatusKept
<1>13. CASE finishSweep
  <2>1. UNCHANGED <<credit, job, pc>> /\ sweep' = "idle" /\ Confirming' = Confirming
        /\ (UNCHANGED <<status, windows>> \/ windows' # {})
    BY <1>13 DEF finishSweep, Confirming
  <2>2. CASE windows' # {}
    BY <2>2 DEF Decided
  <2> QED
    BY <2>1, <2>2, StatusKept
<1>14. ASSUME NEW p \in Payments, enqueueContributionRefund(p)
       PROVE  Decided'
  <2>1. UNCHANGED <<status, credit, sweep, windows, pc>> /\ sweep = "enqueue" /\ Confirming' = Confirming
    BY <1>14 DEF enqueueContributionRefund, Confirming
  <2> QED
    BY <2>1, StatusKept
<1>15. ASSUME NEW p \in Payments, workerStep(p) \/ refundFails(p) \/ resolvePendingTransfer(p)
       PROVE  Decided'
  <2>1. UNCHANGED <<status, credit, sweep, windows, pc>> /\ Confirming' = Confirming
    BY <1>15 DEF workerStep, startRefund, postRefund, callRefund, completeRefund, reverseRefund,
                 refundFails, resolvePendingTransfer, Confirming
  <2>2. \A q \in Payments : q # p => job'[q] = job[q]
    BY <1>0, <1>15 DEF workerStep, startRefund, postRefund, callRefund, completeRefund,
                       reverseRefund, refundFails, resolvePendingTransfer
  <2>3. job[p] # "none"
    BY <1>0, <1>15 DEF workerStep, startRefund, postRefund, callRefund, completeRefund,
                       reverseRefund, refundFails, resolvePendingTransfer, RefundsInOrder
  <2> QED
    BY <2>1, <2>2, <2>3, StatusKept
<1>16. ASSUME UNCHANGED <<status, credit, sweep, job, windows, pc>> PROVE Decided'
  BY <1>16 DEF Decided, Confirming
<1>17. CASE expire \/ UNCHANGED vars \/ \E p \in Payments : pay(p) \/ confirmThrows(p)
  BY <1>16, <1>17 DEF expire, pay, confirmThrows, vars
<1> QED
  BY <1>1, <1>2, <1>3, <1>4, <1>5, <1>6, <1>7, <1>8, <1>9, <1>10, <1>11, <1>12, <1>13, <1>14,
     <1>15, <1>17 DEF Next, confirmStep, reverseStep, sweepStep
-----------------------------------------------------------------------------
(* The theorems *)

\* The invariant holds at first.
LEMMA InitInv == Init => Inv
<1>1. Init => HandlersHoldClaims /\ RecordedOnce /\ RefundsInOrder
  BY FeesAre DEF Init, HandlersHoldClaims, RecordedOnce, RefundsInOrder, NothingSwept, Events
<1> QED
  BY <1>1, InitType, InitAccounted, InitCredited, InitExcess, InitDecided DEF Inv

\* The invariant holds in every reachable state.
THEOREM Invariance == Spec => []Inv
<1>1. ASSUME Inv, [Next]_vars
      PROVE  Inv'
  <2>1. TypeOK'
    BY <1>1, NextType DEF Inv
  <2>2. HandlersHoldClaims' /\ RecordedOnce' /\ RefundsInOrder'
    BY <1>1, NextHandlers, NextRecorded, NextRefunds DEF Inv
  <2>3. Accounted' /\ Credited'
    BY <1>1, <2>1, NextAccounted, NextCredited DEF Inv
  <2>4. ExcessCovered' /\ Decided'
    BY <1>1, <2>1, NextExcess, NextDecided DEF Inv
  <2> QED
    BY <2>1, <2>2, <2>3, <2>4 DEF Inv
<1> QED
  BY <1>1, InitInv, PTL DEF Spec

\* The sum of the excesses as the properties write it.
LEMMA ExcessSumIs ==
    ASSUME TypeOK, NEW S \in SUBSET Payments
    PROVE  MapThenSumSet(thisPaymentExcess, S) = Sum(excessOf, S)
<1> DEFINE Takes(g) == g = [s \in SUBSET S |->
                              IF s = {} THEN 0
                              ELSE thisPaymentExcess(First(s)) + g[s \ {First(s)}]]
<1>1. MapThenSumSet(thisPaymentExcess, S) = (CHOOSE g : Takes(g))[S]
  BY DEF MapThenSumSet, MapThenFoldSet, First
<1>2. \A s \in SUBSET S : s # {} => excessOf[First(s)] = thisPaymentExcess(First(s))
  BY FirstIn, ExcessTyped DEF TypeOK
<1>3. \A g : Takes(g) <=> Adds(g, excessOf, S)
  BY <1>2 DEF Adds
<1>4. IsFiniteSet(S)
  BY FS_Subset
<1>5. \E g : Takes(g)
  BY <1>3, <1>4, Exists
<1>6. Takes(CHOOSE g : Takes(g))
  BY <1>5
<1>7. Adds(CHOOSE g : Takes(g), excessOf, S)
  <2> HIDE DEF Takes
  <2> QED
    BY <1>3, <1>6
<1> HIDE DEF Takes
<1> QED
  BY <1>1, <1>4, <1>7, SumOfSubset, S \in SUBSET S

\* The books hold the contribution once and every refund once, whatever is delivered,
\* retried, swept again or fails (BooksReconcile): for any payments and amounts.
THEOREM BooksAlwaysReconcile == Spec => []BooksReconcile
<1>1. Inv => BooksReconcile
  <2> SUFFICES ASSUME Inv PROVE BooksReconcile
    OBVIOUS
  <2>1. MapThenSumSet(LAMBDA p : amount[p], {p \in Payments : Sent(p)}) = Sum(amount, SentBack)
    BY DEF Sum, SentBack
  <2>2. MapThenSumSet(thisPaymentExcess, excessTx) = Sum(excessOf, excessTx)
    BY ExcessSumIs DEF Inv, TypeOK
  <2> QED
    BY <2>1, <2>2 DEF Inv, Accounted, BooksReconcile
<1> QED
  BY <1>1, Invariance, PTL

\* Payments that add up are credited once their handlers are done, unless a handler was
\* stopped after it recorded its payment (FullyPaidIsCredited).
THEOREM FullyPaid == Spec => []FullyPaidIsCredited
<1>1. Inv => FullyPaidIsCredited
  BY SumOfIs DEF Inv, Credited, FullyPaidIsCredited
<1> QED
  BY <1>1, Invariance, PTL

\* No more of an overpayment is sent back than came in too much, unless two payments are
\* handled at the same time (ExcessRefundedOnce).
THEOREM ExcessOnce == Spec => []ExcessRefundedOnce
<1>1. Inv => ExcessRefundedOnce
  <2> SUFFICES ASSUME Inv, "payments" \notin windows
               PROVE  MapThenSumSet(thisPaymentExcess, excessTx) <= Over(SumOf(rows))
    BY DEF ExcessRefundedOnce, Over
  <2>0. TypeOK /\ RecordedOnce
    BY DEF Inv
  <2>1. MapThenSumSet(thisPaymentExcess, excessTx) = Sum(excessOf, excessTx)
    BY <2>0, ExcessSumIs DEF TypeOK
  <2>2. excessTx \subseteq Exceeding
    BY DEF Exceeding
  <2>3. Sum(excessOf, excessTx) <= Sum(excessOf, Exceeding)
    BY <2>0, <2>2, ExceedingTyped, SumSubset
  <2>4. Sum(excessOf, Exceeding) <= Over(Sum(amount, rows \ Uncounted))
    BY DEF Inv, ExcessCovered
  <2>5. amount \in [Payments -> Amounts] /\ rows \in SUBSET Payments /\ rows \ Uncounted \in SUBSET rows
    BY <2>0 DEF TypeOK
  <2>6. /\ IsFiniteSet(rows) /\ \A p \in rows : amount[p] \in Int /\ amount[p] >= 0
        /\ Sum(amount, rows) \in Int /\ Sum(amount, rows \ Uncounted) \in Int
    BY <2>5, AmountsAre
  <2>7. Sum(amount, rows \ Uncounted) <= Sum(amount, rows)
    BY <2>5, <2>6, SumSubset
  <2>8. Over(Sum(amount, rows \ Uncounted)) <= Over(Sum(amount, rows))
    BY <2>6, <2>7, FeesAre DEF Over
  <2>9. Over(Sum(amount, rows \ Uncounted)) \in Int /\ Over(Sum(amount, rows)) \in Int
    BY <2>6, FeesAre DEF Over
  <2>10. Sum(excessOf, excessTx) \in Int /\ Sum(excessOf, Exceeding) \in Int
    BY <2>0, Numbers, ExceedingTyped
  <2> QED
    BY <2>1, <2>3, <2>4, <2>8, <2>9, <2>10, SumOfIs
<1> QED
  BY <1>1, Invariance, PTL

\* A contribution is never both credited and refunded, except through the windows the code
\* leaves open (CreditedOrRefundedOutsideWindows).
THEOREM CreditedOrRefundedOnly == Spec => []CreditedOrRefundedOutsideWindows
<1>1. Inv => CreditedOrRefundedOutsideWindows
  <2> SUFFICES ASSUME Inv, windows = {}, credit = "completed", NEW p \in rows, PaidBack(p)
               PROVE  FALSE
    BY DEF CreditedOrRefundedOutsideWindows, CreditedOrRefunded
  <2>1. p \in Payments /\ job[p] # "none"
    BY DEF Inv, TypeOK, RefundsInOrder, PaidBack
  <2>2. status = "failed"
    BY <2>1 DEF Inv, Decided
  <2>3. \A q \in Payments : pc[q] # "fund"
    BY <2>2 DEF Inv, Decided, Confirming
  <2> QED
    BY <2>2, <2>3 DEF Inv, Decided
<1> QED
  BY <1>1, Invariance, PTL

=============================================================================
