------------------------- MODULE DisbursementProofs -------------------------
(***************************************************************************)
(* Proofs about Disbursement, for every set of references, every          *)
(* configuration, every amount and every combination and number of         *)
(* failures.                                                               *)
(***************************************************************************)
EXTENDS Disbursement, SumTheorems, TLAPS, FiniteSetTheorems

-----------------------------------------------------------------------------
(* Lemmas about postings and refund shares. *)

\* A posting keeps every balance an integer.
LEMMA PostingType ==
    ASSUME NEW bal \in [Accounts -> Int], NEW legs \in [Accounts -> Int]
    PROVE  applyEntries(bal, legs) \in [Accounts -> Int]
BY DEF applyEntries, signedDelta

\* The provider's inbound fee (nombaInboundFeeFor) is a number of kobo.
LEMMA InboundFeeType ==
    ASSUME NEW n \in Nat
    PROVE  nombaInboundFeeFor(n) \in Nat
BY DEF nombaInboundFeeFor, NOMBA_INBOUND_FEE_MIN, NOMBA_INBOUND_FEE_MAX

\* The legs of a contribution and of a disbursement, and their reversals, have
\* an integer entry on every account.
LEMMA LegsType ==
    ASSUME NEW n \in Nat
    PROVE  /\ inboundFeeLegs(n) \in [Accounts -> Int]
           /\ outboundFeeLegs(n) \in [Accounts -> Int]
           /\ Flip(inboundFeeLegs(n)) \in [Accounts -> Int]
           /\ Flip(outboundFeeLegs(n)) \in [Accounts -> Int]
<1>1. inboundFeeLegs(n) \in [Accounts -> Int]
  BY InboundFeeType DEF inboundFeeLegs, Accounts, Debit, Credit, PLATFORM_INBOUND_FEE
<1>2. outboundFeeLegs(n) \in [Accounts -> Int]
  BY DEF outboundFeeLegs, Accounts, Debit, Credit, OUTBOUND_FEE, NOMBA_OUTBOUND_FEE,
         PLATFORM_OUTBOUND_FEE
<1>3. ASSUME NEW legs \in [Accounts -> Int]
      PROVE  Flip(legs) \in [Accounts -> Int]
  BY DEF Flip
<1> QED
  BY <1>1, <1>2, <1>3

\* The equal shares of a balance do not add up to more than the balance.
LEMMA ShareBound ==
    ASSUME NEW n \in Nat \ {0}, NEW b \in Nat
    PROVE  /\ b \div n \in Nat
           /\ (n - 1) * (b \div n) \in Nat
           /\ n * (b \div n) <= b
           /\ (n - 1) * (b \div n) <= b - (b \div n)
<1>1. b \div n \in Int /\ n * (b \div n) <= b /\ b < n * (b \div n) + n
  OBVIOUS
<1>2. b \div n >= 0
  BY <1>1
<1> QED
  BY <1>1, <1>2

\* Every reference set the code draws legs from is finite.
LEMMA LegSets ==
    ASSUME NEW S \in SUBSET Refs
    PROVE  /\ IsFiniteSet(S)
           /\ Cardinality(S) \in Nat
           /\ S # {} => Cardinality(S) > 0
BY ConstantsAssumption, FS_Subset, FS_CardinalityType, FS_EmptySet

\* The shares of a split: truncated, so that they add up to no more than the pool,
\* with the largest leg known.
Shares(share, largest, legs, pool) ==
    /\ largest \in legs
    /\ share \in [legs -> Nat]
    /\ \A r \in legs : share[r] <= share[largest]
    /\ Sum(share, legs) <= pool

\* Truncated pro-rata shares of any weights whose sum is at most the divisor,
\* which also counts the contributions that got no leg, are such shares.
LEMMA ProRataShares ==
    ASSUME NEW legs \in SUBSET Refs, NEW pool \in Nat, NEW total \in Nat \ {0},
           NEW weight \in [legs -> Nat], NEW largest \in legs,
           Sum(weight, legs) <= total, \A r \in legs : weight[r] <= weight[largest]
    PROVE  Shares([r \in legs |-> (weight[r] * pool) \div total], largest, legs, pool)
<1> DEFINE share == [r \in legs |-> (weight[r] * pool) \div total]
<1>1. ASSUME NEW n \in Nat
      PROVE  n \div total \in Nat /\ total * (n \div total) <= n
  BY <1>1, ShareBound
<1>2. ASSUME NEW r \in legs
      PROVE  share[r] \in Nat /\ total * share[r] <= pool * weight[r]
  <2>1. weight[r] * pool \in Nat /\ weight[r] * pool = pool * weight[r]
    OBVIOUS
  <2> QED
    BY <1>1, <2>1
<1>3. ASSUME NEW r \in legs
      PROVE  share[r] <= share[largest]
  <2>1. weight[r] * pool <= weight[largest] * pool
    BY weight[r] \in Nat, weight[largest] \in Nat, weight[r] <= weight[largest]
  <2>2. ASSUME NEW m \in Nat, NEW n \in Nat, m <= n
        PROVE  m \div total <= n \div total
    BY <2>2
  <2>3. weight[r] * pool \in Nat /\ weight[largest] * pool \in Nat
    OBVIOUS
  <2> QED
    BY <2>1, <2>2, <2>3
<1>4. Sum(share, legs) <= pool
  <2>1. IsFiniteSet(legs)
    BY LegSets
  <2>2. total * Sum(share, legs) <= pool * Sum(weight, legs)
    <3> HIDE DEF share
    <3> QED
      BY <1>2, <2>1, SumScaled
  <2>3. Sum(share, legs) \in Int /\ Sum(weight, legs) \in Int
    <3> HIDE DEF share
    <3> QED
      BY <1>2, <2>1, SumType
  <2>4. ASSUME NEW s \in Int, NEW u \in Int, total * s <= pool * u, u <= total
        PROVE  s <= pool
    <3>1. pool * u <= pool * total
      BY <2>4
    <3>2. total * s <= total * pool
      BY <2>4, <3>1
    <3> QED
      BY <3>2
  <2> HIDE DEF share
  <2> QED
    BY <2>2, <2>3, <2>4
<1> QED
  BY <1>2, <1>3, <1>4 DEF Shares

\* The shares of equal contributions are the special case of equal weights.
LEMMA EqualShares ==
    ASSUME NEW S \in SUBSET Refs, NEW first \in S, NEW bal \in Nat
    PROVE  Shares([r \in S |-> bal \div Cardinality(S)], first, S, bal)
<1> DEFINE n == Cardinality(S)
           share == [r \in S |-> bal \div n]
<1>1. n \in Nat \ {0} /\ IsFiniteSet(S)
  BY LegSets
<1>2. bal \div n \in Nat /\ n * (bal \div n) <= bal
  BY <1>1, ShareBound
<1>3. Sum(share, S) = Cardinality(S) * (bal \div n)
  BY <1>1, <1>2, SumConstant
<1> QED
  BY <1>2, <1>3 DEF Shares

\* Splitting among legs the largest is one of gives it at least its share, the
\* others theirs, and adds up to the pool.
LEMMA SplitExact ==
    ASSUME NEW legs \in SUBSET Refs, NEW largest \in legs, NEW pool \in Nat, NEW share,
           Shares(share, largest, legs, pool),
           NEW firing \in SUBSET legs, largest \in firing
    PROVE  LET amount == distributeExactly(share, largest, firing, pool)
           IN  /\ amount \in [firing -> Nat]
               /\ amount[largest] >= share[largest]
               /\ \A r \in firing \ {largest} : amount[r] = share[r]
               /\ Sum(amount, firing) = pool
<1> DEFINE rest == firing \ {largest}
           amount == distributeExactly(share, largest, firing, pool)
<1>1. IsFiniteSet(legs) /\ IsFiniteSet(firing) /\ IsFiniteSet(rest)
  BY LegSets
<1>2. /\ \A r \in legs : share[r] \in Nat
      /\ Sum(share, legs) <= pool
  BY DEF Shares
<1>3. /\ Sum(share, rest) \in Nat
      /\ Sum(share, firing) \in Int
      /\ Sum(share, legs) \in Int
  <2>1. Sum(share, rest) \in Int /\ Sum(share, rest) >= 0
    BY <1>1, <1>2, SumType
  <2> QED
    BY <1>1, <1>2, <2>1, SumType
<1>4. Sum(share, firing) = share[largest] + Sum(share, rest)
  BY <1>1, <1>2, SumRemove
<1>5. Sum(share, firing) <= Sum(share, legs)
  BY <1>1, <1>2, SumSubset
<1>6. amount = [r \in firing |-> IF r = largest THEN pool - Sum(share, rest) ELSE share[r]]
  BY DEF distributeExactly, Sum
<1> HIDE DEF amount
<1>7. /\ amount[largest] = pool - Sum(share, rest)
      /\ \A r \in rest : amount[r] = share[r]
  BY <1>6
<1>8. amount[largest] \in Nat /\ amount[largest] >= share[largest]
  <2>1. share[largest] \in Nat
    BY <1>2
  <2> QED
    BY <1>2, <1>3, <1>4, <1>5, <1>7, <2>1
<1>9. amount \in [firing -> Nat]
  <2>1. \A r \in firing : amount[r] \in Nat
    BY <1>2, <1>7, <1>8
  <2> QED
    BY <1>6, <2>1
<1>10. Sum(amount, firing) = pool
  <2>1. Sum(amount, firing) = amount[largest] + Sum(amount, rest)
    BY <1>1, <1>9, SumRemove
  <2>2. Sum(amount, rest) = Sum(share, rest)
    BY <1>1, <1>7, SumSame
  <2> QED
    BY <1>3, <1>7, <2>1, <2>2
<1> QED
  BY <1>7, <1>8, <1>9, <1>10 DEF amount

\* A fan-out refund leaves no kobo behind, for any number of legs, any shares and
\* any balance: the amounts of the legs that fire and their fees add up to the
\* pool, or no leg fires.  A leg fires if and only if something is left for it
\* when its fee is taken off, and splitting the pool again drops no further leg,
\* so that the loop of narrowToFeeCoveredLegs ends after the second round.
THEOREM RefundIsExact ==
    ASSUME NEW legs \in SUBSET Refs, NEW largest \in legs, NEW pool \in Nat, NEW share,
           Shares(share, largest, legs, pool)
    PROVE  LET firing == nextFiring(share, largest, legs, pool)
               left   == narrowToFeeCoveredLegs(share, largest, legs, pool)
           IN  /\ left \in [legs -> Nat]
               /\ \A r \in legs : left[r] > 0 <=> r \in firing
               /\ nextFiring(share, largest, firing, pool) = firing
               /\ firing # {} =>
                    Sum([r \in firing |-> left[r] + OUTBOUND_FEE], firing) = pool
<1> DEFINE firing == nextFiring(share, largest, legs, pool)
           left == narrowToFeeCoveredLegs(share, largest, legs, pool)
           first == distributeExactly(share, largest, legs, pool)
           second == distributeExactly(share, largest, firing, pool)
<1>1. OUTBOUND_FEE \in Nat
  BY DEF OUTBOUND_FEE, NOMBA_OUTBOUND_FEE, PLATFORM_OUTBOUND_FEE
<1>2. /\ firing = {r \in legs : first[r] > OUTBOUND_FEE}
      /\ nextFiring(share, largest, firing, pool) = {r \in firing : second[r] > OUTBOUND_FEE}
      /\ left = [r \in legs |-> IF r \in firing THEN second[r] - OUTBOUND_FEE ELSE 0]
  BY DEF nextFiring, narrowToFeeCoveredLegs
<1>3. /\ first \in [legs -> Nat]
      /\ first[largest] >= share[largest]
      /\ \A r \in legs \ {largest} : first[r] = share[r]
  BY SplitExact
<1>4. \A r \in legs : share[r] \in Nat /\ share[r] <= share[largest]
  BY DEF Shares
<1>5. first[largest] = pool - Sum(share, legs \ {largest})
  BY DEF distributeExactly, Sum
<1> HIDE DEF firing, left, first
<1>6. firing # {} => largest \in firing
  <2>1. ASSUME NEW r \in firing, r # largest
        PROVE  first[largest] > OUTBOUND_FEE
    <3>1. first[r] > OUTBOUND_FEE /\ first[r] = share[r] /\ r \in legs
      BY <1>2, <1>3, <2>1
    <3> QED
      BY <1>1, <1>3, <1>4, <3>1
  <2> QED
    BY <1>2, <2>1
<1>7. CASE firing = {}
  <2>1. left = [r \in legs |-> 0]
    BY <1>2, <1>7
  <2> QED
    BY <1>2, <1>7, <2>1 DEF firing, left
<1>8. CASE largest \in firing
  <2>1. firing \in SUBSET legs
    BY <1>2
  <2>2. /\ second \in [firing -> Nat]
        /\ \A r \in firing \ {largest} : second[r] = share[r]
        /\ Sum(second, firing) = pool
    BY <1>8, <2>1, SplitExact
  <2>3. second[largest] >= first[largest]
    <3> DEFINE others == firing \ {largest}
               rest == legs \ {largest}
    <3>1. IsFiniteSet(rest) /\ IsFiniteSet(others) /\ others \in SUBSET rest
      BY <2>1, LegSets
    <3>2. Sum(share, others) <= Sum(share, rest)
      BY <1>4, <3>1, SumSubset
    <3>3. Sum(share, others) \in Int /\ Sum(share, rest) \in Int
      BY <1>4, <3>1, SumType
    <3>4. second[largest] = pool - Sum(share, others)
      BY <1>8 DEF distributeExactly, Sum
    <3> HIDE DEF second, others, rest
    <3>5. first[largest] = pool - Sum(share, rest)
      BY <1>5 DEF rest
    <3> QED
      BY <3>2, <3>3, <3>4, <3>5
  <2> HIDE DEF second
  <2>4. \A r \in firing : second[r] > OUTBOUND_FEE
    <3>1. ASSUME NEW r \in firing, r # largest
          PROVE  second[r] = first[r]
      BY <1>3, <2>1, <2>2, <3>1
    <3>2. \A r \in firing : first[r] > OUTBOUND_FEE /\ first[r] \in Nat /\ second[r] \in Nat
      BY <1>2, <1>3, <2>1, <2>2
    <3> QED
      BY <1>1, <1>8, <2>3, <3>1, <3>2
  <2>5. left \in [legs -> Nat] /\ \A r \in legs : left[r] > 0 <=> r \in firing
    <3>1. \A r \in firing : second[r] - OUTBOUND_FEE \in Nat \ {0}
      BY <1>1, <2>2, <2>4
    <3> QED
      BY <1>2, <3>1
  <2>6. Sum([r \in firing |-> left[r] + OUTBOUND_FEE], firing) = pool
    <3> DEFINE cost == [r \in firing |-> left[r] + OUTBOUND_FEE]
    <3>1. \A r \in firing : cost[r] = second[r]
      BY <1>1, <1>2, <2>1, <2>2
    <3>2. IsFiniteSet(firing)
      BY <2>1, LegSets
    <3> HIDE DEF cost
    <3>3. Sum(cost, firing) = Sum(second, firing)
      BY <3>1, <3>2, SumSame
    <3> QED
      BY <2>2, <3>3 DEF cost
  <2>7. nextFiring(share, largest, firing, pool) = firing
    BY <1>2, <2>4
  <2> QED
    BY <2>5, <2>6, <2>7 DEF firing, left
<1> QED
  BY <1>6, <1>7, <1>8

\* A fan-out refund never gives a leg a negative amount.
LEMMA RefundSharesType ==
    ASSUME NEW S \in SUBSET Refs, NEW first \in S, NEW bal \in Nat
    PROVE  refundShares(S, first, bal) \in [S -> Nat]
BY EqualShares, RefundIsExact DEF refundShares

-----------------------------------------------------------------------------
(* Type correctness *)

\* What reverseFunding has checked still stands when it posts.
ReversingFunded == reverser = "checked" => funded > 0

\* The initial state is well typed and its balances are zero.
LEMMA InitType == Init => TypeOK /\ ReversingFunded
BY ConstantsAssumption
   DEF Init, TypeOK, PotTypeOK, LedgerTypeOK, FundingTypeOK, RequestTypeOK,
       WorkerTypeOK, ProviderTypeOK, WebhookTypeOK, ReversingFunded, NoLeg, OnSuccess,
       ZeroBalances

\* What leaves a group of variables alone keeps its type.
LEMMA TypeFrame ==
    /\ PotTypeOK /\ UNCHANGED potVars => PotTypeOK'
    /\ LedgerTypeOK /\ UNCHANGED ledgerVars => LedgerTypeOK'
    /\ FundingTypeOK /\ UNCHANGED fundingVars => FundingTypeOK'
    /\ RequestTypeOK /\ UNCHANGED requestVars => RequestTypeOK'
    /\ WorkerTypeOK /\ UNCHANGED workerVars => WorkerTypeOK'
    /\ ProviderTypeOK /\ UNCHANGED providerVars => ProviderTypeOK'
    /\ WebhookTypeOK /\ UNCHANGED <<handler, applied>> => WebhookTypeOK'
    /\ ReversingFunded /\ UNCHANGED fundingVars => ReversingFunded'
BY DEF potVars, ledgerVars, fundingVars, requestVars, workerVars, providerVars,
       PotTypeOK, LedgerTypeOK, FundingTypeOK, RequestTypeOK, WorkerTypeOK,
       ProviderTypeOK, WebhookTypeOK, ReversingFunded

\* Posting or reversing a leg's disbursement keeps every balance an integer.
LEMMA DisbursementPostingType ==
    ASSUME LedgerTypeOK, RequestTypeOK, NEW r \in Refs
    PROVE  /\ applyEntries(balances, outboundFeeLegs(data[r].amount)) \in [Accounts -> Int]
           /\ applyEntries(balances, Flip(outboundFeeLegs(data[r].amount)))
                \in [Accounts -> Int]
<1>1. balances \in [Accounts -> Int] /\ data[r].amount \in Nat
  BY DEF LedgerTypeOK, RequestTypeOK
<1> QED
  BY <1>1, PostingType, LegsType

\* Every step keeps the types: a reversed contribution was funded, and a leg's
\* amount is a natural number because the pot's balance is.
LEMMA NextType ==
    ASSUME TypeOK, ReversingFunded, balances["pot"] >= 0, [Next]_vars
    PROVE  TypeOK' /\ ReversingFunded'
<1>0. /\ PotTypeOK /\ LedgerTypeOK /\ FundingTypeOK /\ RequestTypeOK
      /\ WorkerTypeOK /\ ProviderTypeOK /\ WebhookTypeOK /\ faults \in Nat
  BY DEF TypeOK
<1>1. CASE confirmFunding
  <2>1. LedgerTypeOK'
    BY <1>1, <1>0, ConstantsAssumption, PostingType, LegsType
       DEF confirmFunding, LedgerTypeOK, ledgerVars
  <2>2. FundingTypeOK'
    BY <1>1, <1>0
       DEF confirmFunding, FundingTypeOK, fundingVars
  <2>3. ReversingFunded'
    BY <1>1, <1>0 DEF confirmFunding, ReversingFunded, FundingTypeOK
  <2> QED
    BY <1>1, <1>0, <2>1, <2>2, <2>3, TypeFrame DEF confirmFunding, TypeOK
<1>2. CASE reverseFundingCheck
  <2>1. FundingTypeOK'
    BY <1>2, <1>0
       DEF reverseFundingCheck, FundingTypeOK, fundingVars
  <2>2. ReversingFunded'
    BY <1>2, <1>0 DEF reverseFundingCheck, ReversingFunded, FundingTypeOK
  <2> QED
    BY <1>2, <1>0, <2>1, <2>2, TypeFrame DEF reverseFundingCheck, TypeOK
<1>3. CASE reverseFundingPost
  <2>1. LedgerTypeOK'
    BY <1>3, <1>0, ConstantsAssumption, PostingType, LegsType
       DEF reverseFundingPost, LedgerTypeOK, ledgerVars
  <2>2. FundingTypeOK'
    BY <1>3, <1>0
       DEF reverseFundingPost, FundingTypeOK, fundingVars, ReversingFunded
  <2>3. ReversingFunded'
    BY <1>3, <1>0 DEF reverseFundingPost, ReversingFunded, FundingTypeOK
  <2> QED
    BY <1>3, <1>0, <2>1, <2>2, <2>3, TypeFrame DEF reverseFundingPost, TypeOK
<1>4. CASE closeCheck
  <2>1. PotTypeOK'
    BY <1>4, <1>0
       DEF closeCheck, PotTypeOK, potVars
  <2> QED
    BY <1>4, <1>0, <2>1, TypeFrame DEF closeCheck, TypeOK
<1>5. CASE closeUpdate
  <2>1. PotTypeOK'
    BY <1>5, <1>0
       DEF closeUpdate, PotTypeOK, potVars
  <2> QED
    BY <1>5, <1>0, <2>1, TypeFrame DEF closeUpdate, TypeOK
<1>6. ASSUME NEW S \in SUBSET Refs, postContributorsRefund(S)
      PROVE  TypeOK' /\ ReversingFunded'
  <2>1. RequestTypeOK'
    BY <1>6, <1>0
       DEF postContributorsRefund, RequestTypeOK, requestVars, OnSuccess
  <2> QED
    BY <1>6, <1>0, <2>1, TypeFrame DEF postContributorsRefund, TypeOK
<1>7. ASSUME NEW S \in SUBSET Refs, claimLock(S)
      PROVE  TypeOK' /\ ReversingFunded'
  <2>1. PotTypeOK'
    BY <1>7, <1>0, LegSets
       DEF claimLock, PotTypeOK, potVars, RequestTypeOK
  <2>2. RequestTypeOK'
    <3>1. balances["pot"] \in Nat
      BY <1>0 DEF LedgerTypeOK, Accounts
    <3>2. \A first \in S : refundShares(S, first, balances["pot"]) \in [S -> Nat]
      BY <3>1, RefundSharesType
    <3>3. CASE pendingOperation = "none"
      <4>1. PICK first \in S :
              /\ request' = [r \in Refs |-> IF r \in S THEN "claimed" ELSE request[r]]
              /\ data' = [r \in Refs |->
                     IF r \in S /\ data[r].isFanOutLeg
                     THEN [data[r] EXCEPT !.amount =
                             refundShares(S, first, balances["pot"])[r]]
                     ELSE data[r]]
        BY <1>7, <3>3 DEF claimLock
      <4>2. \A r \in S : refundShares(S, first, balances["pot"])[r] \in Nat
        BY <3>2
      <4> QED
        BY <1>0, <4>1, <4>2 DEF RequestTypeOK
    <3>4. CASE pendingOperation # "none"
      <4>1. NoLeg \in [kind : {"payout", "refund"}, amount : Nat,
                       isFanOutLeg : BOOLEAN, onSuccess : OnSuccess,
                       legs : SUBSET Refs]
        BY DEF NoLeg, OnSuccess
      <4>2. /\ request' = [r \in Refs |-> IF r \in S THEN "none" ELSE request[r]]
            /\ data' = [r \in Refs |-> IF r \in S THEN NoLeg ELSE data[r]]
        BY <1>7, <3>4 DEF claimLock
      <4> QED
        BY <1>0, <4>1, <4>2 DEF RequestTypeOK
    <3> QED
      BY <3>3, <3>4
  <2> QED
    BY <1>7, <1>0, <2>1, <2>2, TypeFrame DEF claimLock, TypeOK
<1>8. ASSUME NEW r \in Refs, postFixedAmountDisbursement(r)
      PROVE  TypeOK' /\ ReversingFunded'
  <2>1. RequestTypeOK'
    BY <1>8, <1>0, ConstantsAssumption
       DEF postFixedAmountDisbursement, RequestTypeOK, requestVars, LedgerTypeOK,
           Accounts, triggerPayout, triggerRefund, tryFire,
           fireDueRecurringPayouts, Offer, Full, OUTBOUND_FEE, NOMBA_OUTBOUND_FEE,
           PLATFORM_OUTBOUND_FEE, OnSuccess
  <2> QED
    BY <1>8, <1>0, <2>1, TypeFrame DEF postFixedAmountDisbursement, TypeOK
<1>9. ASSUME NEW r \in Refs, enqueue(r)
      PROVE  TypeOK' /\ ReversingFunded'
  <2>1. RequestTypeOK'
    BY <1>9, <1>0
       DEF enqueue, RequestTypeOK, requestVars
  <2>2. WorkerTypeOK'
    BY <1>9, <1>0
       DEF enqueue, WorkerTypeOK, workerVars
  <2>3. faults' \in Nat
    BY <1>9, <1>0 DEF enqueue, Fault
  <2> QED
    BY <1>9, <1>0, <2>1, <2>2, <2>3, TypeFrame DEF enqueue, TypeOK
<1>10. ASSUME NEW r \in Refs, dropLeg(r)
       PROVE  TypeOK' /\ ReversingFunded'
  <2>1. PotTypeOK'
    BY <1>10, <1>0
       DEF dropLeg, PotTypeOK, potVars, decrementLeg, DecrementedLegCount,
           clearPendingOperation
  <2>2. RequestTypeOK'
    BY <1>10, <1>0
       DEF dropLeg, RequestTypeOK, requestVars
  <2> QED
    BY <1>10, <1>0, <2>1, <2>2, TypeFrame DEF dropLeg, TypeOK
<1>11. ASSUME NEW r \in Refs, startJob(r)
       PROVE  TypeOK' /\ ReversingFunded'
  <2>1. WorkerTypeOK'
    BY <1>11, <1>0
       DEF startJob, WorkerTypeOK, workerVars
  <2>2. faults' \in Nat
    BY <1>11, <1>0 DEF startJob, Fault
  <2> QED
    BY <1>11, <1>0, <2>1, <2>2, TypeFrame DEF startJob, TypeOK
<1>12. ASSUME NEW r \in Refs, checkBalance(r)
       PROVE  TypeOK' /\ ReversingFunded'
  <2>1. WorkerTypeOK'
    BY <1>12, <1>0
       DEF checkBalance, WorkerTypeOK, workerVars, Goto
  <2> QED
    BY <1>12, <1>0, <2>1, TypeFrame DEF checkBalance, TypeOK
<1>13. ASSUME NEW r \in Refs, checkExisting(r)
       PROVE  TypeOK' /\ ReversingFunded'
  <2>1. WorkerTypeOK'
    BY <1>13, <1>0
       DEF checkExisting, WorkerTypeOK, workerVars, Goto, Finish, JobAfter
  <2>2. faults' \in Nat
    BY <1>13, <1>0 DEF checkExisting, Fault
  <2> QED
    BY <1>13, <1>0, <2>1, <2>2, TypeFrame DEF checkExisting, TypeOK
<1>14. ASSUME NEW r \in Refs, post(r)
       PROVE  TypeOK' /\ ReversingFunded'
  <2>1. LedgerTypeOK'
    BY <1>14, <1>0, DisbursementPostingType
       DEF post, LedgerTypeOK, ledgerVars, postTransaction
  <2>2. WorkerTypeOK'
    BY <1>14, <1>0
       DEF post, WorkerTypeOK, workerVars, Goto
  <2>3. faults' \in Nat
    BY <1>14, <1>0 DEF post, Fault
  <2> QED
    BY <1>14, <1>0, <2>1, <2>2, <2>3, TypeFrame DEF post, TypeOK
<1>15. ASSUME NEW r \in Refs, callSuccess(r)
       PROVE  TypeOK' /\ ReversingFunded'
  <2>1. WorkerTypeOK'
    BY <1>15, <1>0
       DEF callSuccess, WorkerTypeOK, workerVars, Goto
  <2>2. ProviderTypeOK'
    BY <1>15, <1>0
       DEF callSuccess, ProviderTypeOK, providerVars, Notify
  <2> QED
    BY <1>15, <1>0, <2>1, <2>2, TypeFrame DEF callSuccess, TypeOK
<1>16. ASSUME NEW r \in Refs, callPending(r)
       PROVE  TypeOK' /\ ReversingFunded'
  <2>1. WorkerTypeOK'
    BY <1>16, <1>0
       DEF callPending, WorkerTypeOK, workerVars, Finish, JobAfter
  <2>2. ProviderTypeOK'
    BY <1>16, <1>0
       DEF callPending, ProviderTypeOK, providerVars
  <2> QED
    BY <1>16, <1>0, <2>1, <2>2, TypeFrame DEF callPending, TypeOK
<1>17. ASSUME NEW r \in Refs, callRejected(r)
       PROVE  TypeOK' /\ ReversingFunded'
  <2>1. WorkerTypeOK'
    BY <1>17, <1>0
       DEF callRejected, WorkerTypeOK, workerVars, Goto
  <2>2. ProviderTypeOK'
    BY <1>17, <1>0
       DEF callRejected, ProviderTypeOK, providerVars, Notify
  <2> QED
    BY <1>17, <1>0, <2>1, <2>2, TypeFrame DEF callRejected, TypeOK
<1>18. ASSUME NEW r \in Refs, callTimeout(r)
       PROVE  TypeOK' /\ ReversingFunded'
  <2>1. WorkerTypeOK'
    BY <1>18, <1>0
       DEF callTimeout, WorkerTypeOK, workerVars, Finish, JobAfter
  <2>2. ProviderTypeOK'
    BY <1>18, <1>0
       DEF callTimeout, ProviderTypeOK, providerVars, Notify
  <2>3. faults' \in Nat
    BY <1>18, <1>0 DEF callTimeout, Fault
  <2> QED
    BY <1>18, <1>0, <2>1, <2>2, <2>3, TypeFrame DEF callTimeout, TypeOK
<1>19. ASSUME NEW r \in Refs, complete(r)
       PROVE  TypeOK' /\ ReversingFunded'
  <2>1. LedgerTypeOK'
    BY <1>19, <1>0
       DEF complete, LedgerTypeOK, ledgerVars, markCompleted
  <2>2. WorkerTypeOK'
    BY <1>19, <1>0
       DEF complete, WorkerTypeOK, workerVars, Goto
  <2> QED
    BY <1>19, <1>0, <2>1, <2>2, TypeFrame DEF complete, TypeOK
<1>20. ASSUME NEW r \in Refs, reverse(r)
       PROVE  TypeOK' /\ ReversingFunded'
  <2>1. LedgerTypeOK'
    BY <1>20, <1>0, DisbursementPostingType
       DEF reverse, LedgerTypeOK, ledgerVars, reverseTransaction
  <2>2. WorkerTypeOK'
    BY <1>20, <1>0
       DEF reverse, WorkerTypeOK, workerVars, Goto
  <2> QED
    BY <1>20, <1>0, <2>1, <2>2, TypeFrame DEF reverse, TypeOK
<1>21. ASSUME NEW r \in Refs, releaseLock(r)
       PROVE  TypeOK' /\ ReversingFunded'
  <2>1. PotTypeOK'
    BY <1>21, <1>0
       DEF releaseLock, PotTypeOK, potVars, decrementLeg, DecrementedLegCount,
           clearPendingOperation
  <2>2. WorkerTypeOK'
    BY <1>21, <1>0
       DEF releaseLock, WorkerTypeOK, workerVars, AfterRelease, Goto, Finish,
           JobAfter
  <2> QED
    BY <1>21, <1>0, <2>1, <2>2, TypeFrame DEF releaseLock, TypeOK
<1>22. ASSUME NEW r \in Refs, clearLock(r)
       PROVE  TypeOK' /\ ReversingFunded'
  <2>1. PotTypeOK'
    BY <1>22, <1>0
       DEF clearLock, PotTypeOK, potVars, clearPendingOperation
  <2>2. WorkerTypeOK'
    BY <1>22, <1>0
       DEF clearLock, WorkerTypeOK, workerVars, AfterRelease, Goto, Finish,
           JobAfter
  <2> QED
    BY <1>22, <1>0, <2>1, <2>2, TypeFrame DEF clearLock, TypeOK
<1>23. ASSUME NEW r \in Refs, apply(r)
       PROVE  TypeOK' /\ ReversingFunded'
  <2>1. PotTypeOK'
    BY <1>23, <1>0
       DEF apply, PotTypeOK, potVars, applyOnSuccess
  <2>2. WorkerTypeOK'
    BY <1>23, <1>0
       DEF apply, WorkerTypeOK, workerVars, Finish, JobAfter
  <2>3. WebhookTypeOK'
    BY <1>23, <1>0
       DEF apply, WebhookTypeOK, applyOnSuccess
  <2> QED
    BY <1>23, <1>0, <2>1, <2>2, <2>3, TypeFrame DEF apply, TypeOK
<1>24. ASSUME NEW r \in Refs, dbFailure(r)
       PROVE  TypeOK' /\ ReversingFunded'
  <2>1. WorkerTypeOK'
    BY <1>24, <1>0
       DEF dbFailure, WorkerTypeOK, workerVars, Goto, Finish, JobAfter
  <2>2. faults' \in Nat
    BY <1>24, <1>0 DEF dbFailure, Fault
  <2> QED
    BY <1>24, <1>0, <2>1, <2>2, TypeFrame DEF dbFailure, TypeOK
<1>25. ASSUME NEW r \in Refs, workerCrash(r)
       PROVE  TypeOK' /\ ReversingFunded'
  <2>1. WorkerTypeOK'
    BY <1>25, <1>0
       DEF workerCrash, WorkerTypeOK, workerVars
  <2>2. faults' \in Nat
    BY <1>25, <1>0 DEF workerCrash, Fault
  <2> QED
    BY <1>25, <1>0, <2>1, <2>2, TypeFrame DEF workerCrash, TypeOK
<1>26. ASSUME NEW r \in Refs, retryFailedJob(r)
       PROVE  TypeOK' /\ ReversingFunded'
  <2>1. WorkerTypeOK'
    BY <1>26, <1>0
       DEF retryFailedJob, WorkerTypeOK, workerVars
  <2>2. faults' \in Nat
    BY <1>26, <1>0 DEF retryFailedJob, Fault
  <2> QED
    BY <1>26, <1>0, <2>1, <2>2, TypeFrame DEF retryFailedJob, TypeOK
<1>27. ASSUME NEW r \in Refs, settle(r)
       PROVE  TypeOK' /\ ReversingFunded'
  <2>1. ProviderTypeOK'
    BY <1>27, <1>0
       DEF settle, ProviderTypeOK, providerVars, Notify
  <2> QED
    BY <1>27, <1>0, <2>1, TypeFrame DEF settle, TypeOK
<1>28. ASSUME NEW r \in Refs, resolveRead(r)
       PROVE  TypeOK' /\ ReversingFunded'
  <2>1. ProviderTypeOK'
    BY <1>28, <1>0
       DEF resolveRead, ProviderTypeOK, providerVars
  <2>2. WebhookTypeOK'
    BY <1>28, <1>0
       DEF resolveRead, WebhookTypeOK
  <2> QED
    BY <1>28, <1>0, <2>1, <2>2, TypeFrame DEF resolveRead, TypeOK
<1>29. ASSUME NEW r \in Refs, resolveLedger(r)
       PROVE  TypeOK' /\ ReversingFunded'
  <2>1. LedgerTypeOK'
    BY <1>29, <1>0, DisbursementPostingType
       DEF resolveLedger, LedgerTypeOK, ledgerVars, markCompleted,
           reverseTransaction
  <2>2. WebhookTypeOK'
    BY <1>29, <1>0
       DEF resolveLedger, WebhookTypeOK
  <2> QED
    BY <1>29, <1>0, <2>1, <2>2, TypeFrame DEF resolveLedger, TypeOK
<1>30. ASSUME NEW r \in Refs, resolveApply(r)
       PROVE  TypeOK' /\ ReversingFunded'
  <2>1. PotTypeOK'
    BY <1>30, <1>0
       DEF resolveApply, PotTypeOK, potVars, applyOnSuccess
  <2>2. WebhookTypeOK'
    BY <1>30, <1>0
       DEF resolveApply, WebhookTypeOK, applyOnSuccess
  <2> QED
    BY <1>30, <1>0, <2>1, <2>2, TypeFrame DEF resolveApply, TypeOK
<1>31. ASSUME NEW r \in Refs, resolveRelease(r)
       PROVE  TypeOK' /\ ReversingFunded'
  <2>1. PotTypeOK'
    BY <1>31, <1>0
       DEF resolveRelease, PotTypeOK, potVars, decrementLeg, DecrementedLegCount,
           clearPendingOperation
  <2>2. WebhookTypeOK'
    BY <1>31, <1>0
       DEF resolveRelease, WebhookTypeOK
  <2> QED
    BY <1>31, <1>0, <2>1, <2>2, TypeFrame DEF resolveRelease, TypeOK
<1>32. CASE UNCHANGED vars
  BY <1>32, <1>0, TypeFrame DEF vars, TypeOK
<1> QED
  BY <1>1, <1>2, <1>3, <1>4, <1>5, <1>6, <1>7, <1>8, <1>9, <1>10, <1>11, <1>12,
     <1>13, <1>14, <1>15, <1>16, <1>17, <1>18, <1>19, <1>20, <1>21, <1>22, <1>23,
     <1>24, <1>25, <1>26, <1>27, <1>28, <1>29, <1>30, <1>31, <1>32
     DEF Next, workerStep, webhookStep
-----------------------------------------------------------------------------
(* Settling only what was posted *)

\* Nothing is posted, running or sent at first.
LEMMA InitPosted == Init => SettlesOnlyPosted
BY DEF Init, SettlesOnlyPosted

\* Every step keeps it: the worker passes its posting on the way to the call,
\* and a webhook handler reads 'processing' before it settles.
LEMMA NextPosted ==
    ASSUME TypeOK, SettlesOnlyPosted, [Next]_vars
    PROVE  SettlesOnlyPosted'
<1>0. LedgerTypeOK /\ WorkerTypeOK /\ ProviderTypeOK /\ WebhookTypeOK
  BY DEF TypeOK
<1> USE DEF ledgerVars, workerVars, providerVars
<1>1. CASE /\ UNCHANGED <<tx, reversals, pc, end, nomba, hooks>>
           /\ UNCHANGED handler
  BY <1>1 DEF SettlesOnlyPosted
<1>2. ASSUME NEW r \in Refs, startJob(r) \/ checkBalance(r) \/ workerCrash(r)
      PROVE  SettlesOnlyPosted'
  BY <1>2, <1>0
     DEF SettlesOnlyPosted, WorkerTypeOK, startJob, checkBalance, workerCrash, Goto
<1>3. ASSUME NEW r \in Refs, checkExisting(r)
      PROVE  SettlesOnlyPosted'
  BY <1>3, <1>0 DEF SettlesOnlyPosted, WorkerTypeOK, checkExisting, Goto, Finish
<1>4. ASSUME NEW r \in Refs, post(r)
      PROVE  SettlesOnlyPosted'
  BY <1>4, <1>0
     DEF SettlesOnlyPosted, WorkerTypeOK, LedgerTypeOK, post, postTransaction, Goto
<1>5. ASSUME NEW r \in Refs, callSuccess(r) \/ callPending(r) \/ callRejected(r)
      PROVE  SettlesOnlyPosted'
  BY <1>5, <1>0
     DEF SettlesOnlyPosted, WorkerTypeOK, ProviderTypeOK, callSuccess, callPending,
         callRejected, Notify, Goto, Finish
<1>6. ASSUME NEW r \in Refs, callTimeout(r)
      PROVE  SettlesOnlyPosted'
  BY <1>6, <1>0
     DEF SettlesOnlyPosted, WorkerTypeOK, ProviderTypeOK, callTimeout, Notify, Finish
<1>7. ASSUME NEW r \in Refs, dbFailure(r)
      PROVE  SettlesOnlyPosted'
  BY <1>7, <1>0 DEF SettlesOnlyPosted, WorkerTypeOK, dbFailure, Goto, Finish
<1>8. ASSUME NEW r \in Refs, complete(r) \/ reverse(r)
      PROVE  SettlesOnlyPosted'
  BY <1>8, <1>0
     DEF SettlesOnlyPosted, WorkerTypeOK, LedgerTypeOK, complete, reverse,
         markCompleted, reverseTransaction, Goto
<1>9. ASSUME NEW r \in Refs, releaseLock(r) \/ clearLock(r) \/ apply(r)
      PROVE  SettlesOnlyPosted'
  BY <1>9, <1>0
     DEF SettlesOnlyPosted, WorkerTypeOK, releaseLock, clearLock, apply, AfterRelease,
         Goto, Finish
<1>10. ASSUME NEW r \in Refs, settle(r)
       PROVE  SettlesOnlyPosted'
  BY <1>10, <1>0 DEF SettlesOnlyPosted, ProviderTypeOK, settle, Notify
<1>11. ASSUME NEW r \in Refs, resolveRead(r)
       PROVE  SettlesOnlyPosted'
  BY <1>11, <1>0 DEF SettlesOnlyPosted, ProviderTypeOK, WebhookTypeOK, resolveRead
<1>12. ASSUME NEW r \in Refs, resolveLedger(r)
       PROVE  SettlesOnlyPosted'
  BY <1>12, <1>0
     DEF SettlesOnlyPosted, LedgerTypeOK, WebhookTypeOK, resolveLedger, markCompleted,
         reverseTransaction
<1>13. ASSUME NEW r \in Refs, resolveApply(r) \/ resolveRelease(r)
       PROVE  SettlesOnlyPosted'
  BY <1>13, <1>0 DEF SettlesOnlyPosted, WebhookTypeOK, resolveApply, resolveRelease
<1>14. CASE confirmFunding \/ reverseFundingCheck \/ reverseFundingPost
  BY <1>14, <1>1 DEF confirmFunding, reverseFundingCheck, reverseFundingPost
<1>15. CASE closeCheck \/ closeUpdate
  BY <1>15, <1>1 DEF closeCheck, closeUpdate
<1>16. ASSUME NEW S \in SUBSET Refs, postContributorsRefund(S) \/ claimLock(S)
       PROVE  SettlesOnlyPosted'
  BY <1>16, <1>1 DEF postContributorsRefund, claimLock
<1>17. ASSUME NEW r \in Refs,
              \/ postFixedAmountDisbursement(r) \/ enqueue(r) \/ dropLeg(r)
              \/ retryFailedJob(r)
       PROVE  SettlesOnlyPosted'
  BY <1>17, <1>1 DEF postFixedAmountDisbursement, enqueue, dropLeg, retryFailedJob
<1>18. CASE UNCHANGED vars
  BY <1>18, <1>1 DEF vars
<1> QED
  BY <1>2, <1>3, <1>4, <1>5, <1>6, <1>7, <1>8, <1>9, <1>10, <1>11, <1>12, <1>13,
     <1>14, <1>15, <1>16, <1>17, <1>18
     DEF Next, workerStep, webhookStep
-----------------------------------------------------------------------------
(* The books balance *)

\* What a disbursement does to the balances (outboundFeeLegs).
LEMMA OutboundEffect ==
    ASSUME NEW bal \in [Accounts -> Int], NEW n \in Nat
    PROVE  LET new == applyEntries(bal, outboundFeeLegs(n)) IN
           /\ new["pot"] = bal["pot"] - (n + OUTBOUND_FEE)
           /\ new["platform_float"] = bal["platform_float"] - (n + NOMBA_OUTBOUND_FEE)
           /\ new["platform_revenue"] = bal["platform_revenue"] + PLATFORM_OUTBOUND_FEE
           /\ new["nomba_fee_expense"] = bal["nomba_fee_expense"] + NOMBA_OUTBOUND_FEE
           /\ new["nomba_clearing"] = bal["nomba_clearing"] + NOMBA_OUTBOUND_FEE
           /\ new["suspense"] = bal["suspense"]
BY DEF applyEntries, signedDelta, outboundFeeLegs, normalBalance, Accounts, Debit, Credit,
       OUTBOUND_FEE, NOMBA_OUTBOUND_FEE, PLATFORM_OUTBOUND_FEE

\* What the reversal of a disbursement does to the balances.
LEMMA OutboundReversalEffect ==
    ASSUME NEW bal \in [Accounts -> Int], NEW n \in Nat
    PROVE  LET new == applyEntries(bal, Flip(outboundFeeLegs(n))) IN
           /\ new["pot"] = bal["pot"] + (n + OUTBOUND_FEE)
           /\ new["platform_float"] = bal["platform_float"] + (n + NOMBA_OUTBOUND_FEE)
           /\ new["platform_revenue"] = bal["platform_revenue"] - PLATFORM_OUTBOUND_FEE
           /\ new["nomba_fee_expense"] = bal["nomba_fee_expense"] - NOMBA_OUTBOUND_FEE
           /\ new["nomba_clearing"] = bal["nomba_clearing"] - NOMBA_OUTBOUND_FEE
           /\ new["suspense"] = bal["suspense"]
BY DEF applyEntries, signedDelta, Flip, outboundFeeLegs, normalBalance, Accounts, Debit,
       Credit, OUTBOUND_FEE, NOMBA_OUTBOUND_FEE, PLATFORM_OUTBOUND_FEE

\* What a contribution does to the balances (inboundFeeLegs).
LEMMA InboundEffect ==
    ASSUME NEW bal \in [Accounts -> Int], NEW n \in Nat
    PROVE  LET new == applyEntries(bal, inboundFeeLegs(n))
               fee == nombaInboundFeeFor(n) IN
           /\ new["pot"] = bal["pot"] + n
           /\ new["platform_float"] = bal["platform_float"] + n + PLATFORM_INBOUND_FEE
           /\ new["platform_revenue"] = bal["platform_revenue"] + PLATFORM_INBOUND_FEE
           /\ new["nomba_fee_expense"] = bal["nomba_fee_expense"] + fee
           /\ new["nomba_clearing"] = bal["nomba_clearing"] + fee
           /\ new["suspense"] = bal["suspense"]
BY InboundFeeType
   DEF applyEntries, signedDelta, inboundFeeLegs, normalBalance, Accounts, Debit, Credit,
       PLATFORM_INBOUND_FEE

\* What the reversal of a contribution does to the balances.
LEMMA InboundReversalEffect ==
    ASSUME NEW bal \in [Accounts -> Int], NEW n \in Nat
    PROVE  LET new == applyEntries(bal, Flip(inboundFeeLegs(n)))
               fee == nombaInboundFeeFor(n) IN
           /\ new["pot"] = bal["pot"] - n
           /\ new["platform_float"] = bal["platform_float"] - (n + PLATFORM_INBOUND_FEE)
           /\ new["platform_revenue"] = bal["platform_revenue"] - PLATFORM_INBOUND_FEE
           /\ new["nomba_fee_expense"] = bal["nomba_fee_expense"] - fee
           /\ new["nomba_clearing"] = bal["nomba_clearing"] - fee
           /\ new["suspense"] = bal["suspense"]
BY InboundFeeType
   DEF applyEntries, signedDelta, Flip, inboundFeeLegs, normalBalance, Accounts, Debit,
       Credit, PLATFORM_INBOUND_FEE

\* Every posting lib/fees.ts builds passes assertBalanced, whatever the amount.
THEOREM LegsBalanced ==
    ASSUME NEW n \in Nat
    PROVE  /\ Balanced(inboundFeeLegs(n))
           /\ Balanced(outboundFeeLegs(n))
           /\ Balanced(suspenseRefundLegs(n))
BY InboundFeeType
   DEF Balanced, inboundFeeLegs, outboundFeeLegs, suspenseRefundLegs, Debit, Credit,
       PLATFORM_INBOUND_FEE, OUTBOUND_FEE, NOMBA_OUTBOUND_FEE, PLATFORM_OUTBOUND_FEE

\* The fees are earned and the books balance as long as the ledger and the funded
\* contributions are left alone.
LEMMA BooksFrame ==
    ASSUME FeesReconcile, BooksBalance, UNCHANGED <<balances, tx, reversals, funded>>
    PROVE  FeesReconcile' /\ BooksBalance'
<1>1. StandingDisbursements' = StandingDisbursements
  BY DEF StandingDisbursements, Debited
<1> QED
  BY <1>1 DEF FeesReconcile, BooksBalance

\* Posting a leg adds one standing disbursement and its fees.
LEMMA PostBooks ==
    ASSUME TypeOK, FeesReconcile, BooksBalance, NEW r \in Refs,
           tx[r] = "none", r \notin reversals,
           CanApply(balances, outboundFeeLegs(data[r].amount)),
           postTransaction(r), UNCHANGED funded
    PROVE  FeesReconcile' /\ BooksBalance'
<1>1. /\ balances \in [Accounts -> Int] /\ data[r].amount \in Nat /\ funded \in Nat
      /\ tx \in [Refs -> {"none", "processing", "completed", "reversed"}]
  BY DEF TypeOK, LedgerTypeOK, RequestTypeOK, FundingTypeOK
<1>2. balances' = applyEntries(balances, outboundFeeLegs(data[r].amount))
  BY DEF postTransaction
<1>3. \A a \in Accounts : balances'[a] >= 0
  BY <1>2 DEF CanApply, applyEntries
<1>4. StandingDisbursements' = StandingDisbursements \cup {r}
  BY <1>1 DEF StandingDisbursements, Debited, postTransaction
<1>5. /\ Cardinality(StandingDisbursements) \in Nat
      /\ Cardinality(StandingDisbursements') = Cardinality(StandingDisbursements) + 1
  BY <1>4, LegSets, FS_AddElement DEF StandingDisbursements, Debited
<1>6. nombaInboundFeeFor(IntendedAmount) \in Nat
  BY ConstantsAssumption, InboundFeeType
<1>7. /\ balances'["pot"] = balances["pot"] - (data[r].amount + OUTBOUND_FEE)
      /\ balances'["platform_float"]
           = balances["platform_float"] - (data[r].amount + NOMBA_OUTBOUND_FEE)
      /\ balances'["platform_revenue"] = balances["platform_revenue"] + PLATFORM_OUTBOUND_FEE
      /\ balances'["nomba_fee_expense"] = balances["nomba_fee_expense"] + NOMBA_OUTBOUND_FEE
      /\ balances'["nomba_clearing"] = balances["nomba_clearing"] + NOMBA_OUTBOUND_FEE
      /\ balances'["suspense"] = balances["suspense"]
  BY <1>1, <1>2, OutboundEffect
<1>8. FeesReconcile'
  <2> DEFINE c == Cardinality(StandingDisbursements)
             f == nombaInboundFeeFor(IntendedAmount)
  <2>1. c \in Nat /\ Cardinality(StandingDisbursements') = c + 1
    BY <1>5
  <2>2. /\ balances["platform_revenue"] = PLATFORM_INBOUND_FEE * funded + PLATFORM_OUTBOUND_FEE * c
        /\ balances["nomba_clearing"] = f * funded + NOMBA_OUTBOUND_FEE * c
        /\ balances["suspense"] = 0
    BY DEF FeesReconcile
  <2>3. f * funded \in Nat
    BY <1>1, <1>6
  <2> HIDE DEF c, f
  <2>4. /\ balances'["platform_revenue"]
             = PLATFORM_INBOUND_FEE * funded + PLATFORM_OUTBOUND_FEE * (c + 1)
        /\ balances'["nomba_clearing"] = f * funded + NOMBA_OUTBOUND_FEE * (c + 1)
        /\ balances'["suspense"] = 0
    BY <1>1, <1>7, <2>1, <2>2, <2>3
       DEF PLATFORM_INBOUND_FEE, NOMBA_OUTBOUND_FEE, PLATFORM_OUTBOUND_FEE
  <2> QED
    BY <2>1, <2>4 DEF FeesReconcile, f
<1>9. BooksBalance'
  BY <1>1, <1>3, <1>7
     DEF BooksBalance, Accounts, OUTBOUND_FEE, NOMBA_OUTBOUND_FEE, PLATFORM_OUTBOUND_FEE
<1> QED
  BY <1>8, <1>9

\* Reversing a leg that stands removes one standing disbursement and its fees;
\* the fee accounts cover it because the platform has earned the fee of every
\* standing disbursement.  Reversing it again changes nothing.
LEMMA ReverseBooks ==
    ASSUME TypeOK, FeesReconcile, BooksBalance, NEW r \in Refs,
           tx[r] # "none", reverseTransaction(r), UNCHANGED funded
    PROVE  FeesReconcile' /\ BooksBalance'
<1>1. /\ balances \in [Accounts -> Int] /\ data[r].amount \in Nat /\ funded \in Nat
      /\ tx \in [Refs -> {"none", "processing", "completed", "reversed"}]
      /\ nombaInboundFeeFor(IntendedAmount) \in Nat
  BY ConstantsAssumption, InboundFeeType
     DEF TypeOK, LedgerTypeOK, RequestTypeOK, FundingTypeOK
<1>2. CASE r \in reversals
  <2>1. StandingDisbursements' = StandingDisbursements /\ balances' = balances
    BY <1>1, <1>2 DEF StandingDisbursements, Debited, reverseTransaction
  <2> QED
    BY <2>1 DEF FeesReconcile, BooksBalance
<1>3. CASE r \notin reversals
  <2>1. balances' = applyEntries(balances, Flip(outboundFeeLegs(data[r].amount)))
    BY <1>3 DEF reverseTransaction
  <2>2. /\ balances'["pot"] = balances["pot"] + (data[r].amount + OUTBOUND_FEE)
        /\ balances'["platform_float"]
             = balances["platform_float"] + (data[r].amount + NOMBA_OUTBOUND_FEE)
        /\ balances'["platform_revenue"] = balances["platform_revenue"] - PLATFORM_OUTBOUND_FEE
        /\ balances'["nomba_fee_expense"] = balances["nomba_fee_expense"] - NOMBA_OUTBOUND_FEE
        /\ balances'["nomba_clearing"] = balances["nomba_clearing"] - NOMBA_OUTBOUND_FEE
        /\ balances'["suspense"] = balances["suspense"]
    BY <1>1, <2>1, OutboundReversalEffect
  <2>3. /\ StandingDisbursements' = StandingDisbursements \ {r}
        /\ r \in StandingDisbursements
    BY <1>1, <1>3 DEF StandingDisbursements, Debited, reverseTransaction
  <2> DEFINE c == Cardinality(StandingDisbursements)
             f == nombaInboundFeeFor(IntendedAmount)
  <2>4. c \in Nat \ {0} /\ Cardinality(StandingDisbursements') = c - 1
    <3>1. StandingDisbursements \in SUBSET Refs
      BY DEF StandingDisbursements
    <3>2. IsFiniteSet(StandingDisbursements) /\ c \in Nat \ {0}
      BY <2>3, <3>1, LegSets
    <3> QED
      BY <2>3, <3>2, FS_RemoveElement
  <2>5. /\ balances["platform_revenue"] = PLATFORM_INBOUND_FEE * funded + PLATFORM_OUTBOUND_FEE * c
        /\ balances["nomba_clearing"] = f * funded + NOMBA_OUTBOUND_FEE * c
        /\ balances["suspense"] = 0
    BY DEF FeesReconcile
  <2>6. f * funded \in Nat
    BY <1>1
  <2> HIDE DEF c, f
  <2>7. /\ balances'["platform_revenue"]
             = PLATFORM_INBOUND_FEE * funded + PLATFORM_OUTBOUND_FEE * (c - 1)
        /\ balances'["nomba_clearing"] = f * funded + NOMBA_OUTBOUND_FEE * (c - 1)
        /\ balances'["suspense"] = 0
    BY <1>1, <2>2, <2>4, <2>5, <2>6
       DEF PLATFORM_INBOUND_FEE, NOMBA_OUTBOUND_FEE, PLATFORM_OUTBOUND_FEE
  <2>8. FeesReconcile'
    BY <2>4, <2>7 DEF FeesReconcile, f
  <2>9. balances'["platform_revenue"] >= 0 /\ balances'["nomba_clearing"] >= 0
    BY <1>1, <2>4, <2>6, <2>7
       DEF PLATFORM_INBOUND_FEE, NOMBA_OUTBOUND_FEE, PLATFORM_OUTBOUND_FEE
  <2>10. BooksBalance'
    BY <1>1, <2>2, <2>9
       DEF BooksBalance, Accounts, OUTBOUND_FEE, NOMBA_OUTBOUND_FEE, PLATFORM_OUTBOUND_FEE
  <2> QED
    BY <2>8, <2>10
<1> QED
  BY <1>2, <1>3

\* Completing a posted leg moves no money.
LEMMA CompleteBooks ==
    ASSUME TypeOK, FeesReconcile, BooksBalance, NEW r \in Refs,
           tx[r] # "none", markCompleted(r), UNCHANGED funded
    PROVE  FeesReconcile' /\ BooksBalance'
<1>1. StandingDisbursements' = StandingDisbursements /\ balances' = balances
  BY DEF TypeOK, LedgerTypeOK, StandingDisbursements, Debited, markCompleted
<1> QED
  BY <1>1 DEF FeesReconcile, BooksBalance

\* A contribution adds its fees, and its reversal takes them back; the reversal is
\* refused when an account does not cover it.
LEMMA FundingBooks ==
    ASSUME TypeOK, ReversingFunded, FeesReconcile, BooksBalance,
           confirmFunding \/ reverseFundingPost
    PROVE  FeesReconcile' /\ BooksBalance'
<1> DEFINE f == nombaInboundFeeFor(IntendedAmount)
           c == Cardinality(StandingDisbursements)
<1>1. /\ balances \in [Accounts -> Int] /\ funded \in Nat
      /\ IntendedAmount \in Nat /\ f \in Nat
  BY ConstantsAssumption, InboundFeeType DEF TypeOK, LedgerTypeOK, FundingTypeOK
<1>2. /\ StandingDisbursements' = StandingDisbursements
      /\ c \in Nat
  BY LegSets DEF StandingDisbursements, Debited, confirmFunding, reverseFundingPost
<1>3. /\ balances["platform_revenue"] = PLATFORM_INBOUND_FEE * funded + PLATFORM_OUTBOUND_FEE * c
      /\ balances["nomba_clearing"] = f * funded + NOMBA_OUTBOUND_FEE * c
      /\ balances["suspense"] = 0
  BY DEF FeesReconcile
<1>4. f * funded \in Nat /\ f * (funded + 1) = f * funded + f /\ f * (funded - 1) = f * funded - f
  <2> HIDE DEF f
  <2> QED BY <1>1
<1>5. CASE confirmFunding
  <2>1. /\ balances'["pot"] = balances["pot"] + IntendedAmount
        /\ balances'["platform_float"]
             = balances["platform_float"] + IntendedAmount + PLATFORM_INBOUND_FEE
        /\ balances'["platform_revenue"] = balances["platform_revenue"] + PLATFORM_INBOUND_FEE
        /\ balances'["nomba_fee_expense"] = balances["nomba_fee_expense"] + f
        /\ balances'["nomba_clearing"] = balances["nomba_clearing"] + f
        /\ balances'["suspense"] = balances["suspense"]
    BY <1>1, <1>5, InboundEffect DEF confirmFunding
  <2>2. funded' = funded + 1
    BY <1>5 DEF confirmFunding
  <2> HIDE DEF c, f
  <2>3. FeesReconcile'
    BY <1>1, <1>2, <1>3, <1>4, <2>1, <2>2
       DEF FeesReconcile, c, f, PLATFORM_INBOUND_FEE, PLATFORM_OUTBOUND_FEE, NOMBA_OUTBOUND_FEE
  <2>4. BooksBalance'
    <3>1. \A a \in Accounts : balances[a] \in Int /\ balances[a] >= 0
      BY <1>1 DEF BooksBalance
    <3>2. \A a \in Accounts : balances'[a] >= 0
      BY <1>1, <2>1, <3>1 DEF Accounts, PLATFORM_INBOUND_FEE
    <3> QED
      BY <1>1, <2>1, <3>1, <3>2 DEF BooksBalance, Accounts, PLATFORM_INBOUND_FEE
  <2> QED
    BY <2>3, <2>4
<1>6. CASE reverseFundingPost
  <2>1. CASE UNCHANGED <<balances, funded>>
    BY <1>2, <2>1 DEF FeesReconcile, BooksBalance
  <2>2. CASE /\ CanApply(balances, Flip(inboundFeeLegs(IntendedAmount)))
             /\ balances' = applyEntries(balances, Flip(inboundFeeLegs(IntendedAmount)))
             /\ funded' = funded - 1
    <3>1. /\ balances'["pot"] = balances["pot"] - IntendedAmount
          /\ balances'["platform_float"]
               = balances["platform_float"] - (IntendedAmount + PLATFORM_INBOUND_FEE)
          /\ balances'["platform_revenue"] = balances["platform_revenue"] - PLATFORM_INBOUND_FEE
          /\ balances'["nomba_fee_expense"] = balances["nomba_fee_expense"] - f
          /\ balances'["nomba_clearing"] = balances["nomba_clearing"] - f
          /\ balances'["suspense"] = balances["suspense"]
      BY <1>1, <2>2, InboundReversalEffect
    <3>2. \A a \in Accounts : balances'[a] >= 0
      BY <2>2 DEF CanApply, applyEntries
    <3> HIDE DEF c, f
    <3>3. FeesReconcile'
      BY <1>1, <1>2, <1>3, <1>4, <2>2, <3>1
         DEF FeesReconcile, c, f, PLATFORM_INBOUND_FEE, PLATFORM_OUTBOUND_FEE,
             NOMBA_OUTBOUND_FEE
    <3>4. BooksBalance'
      BY <1>1, <3>1, <3>2 DEF BooksBalance, Accounts, PLATFORM_INBOUND_FEE
    <3> QED
      BY <3>3, <3>4
  <2> QED
    BY <1>6, <2>1, <2>2 DEF reverseFundingPost
<1> QED
  BY <1>5, <1>6
-----------------------------------------------------------------------------
(* The theorems *)

\* The inductive invariant: the types need the pot's balance to stay positive,
\* the balance needs the fee accounts to cover a reversal, and those need a
\* reversal to be of a posted transaction.
Inv ==
    /\ TypeOK
    /\ ReversingFunded
    /\ SettlesOnlyPosted
    /\ FeesReconcile
    /\ BooksBalance

\* The books start empty.
LEMMA InitBooks == Init => FeesReconcile /\ BooksBalance
<1> SUFFICES ASSUME Init PROVE FeesReconcile /\ BooksBalance
  OBVIOUS
<1>1. /\ \A a \in Accounts : balances[a] = 0
      /\ funded = 0
  BY DEF Init, ZeroBalances
<1>2. StandingDisbursements = {}
  BY DEF Init, StandingDisbursements, Debited
<1>3. nombaInboundFeeFor(IntendedAmount) \in Nat
  BY ConstantsAssumption, InboundFeeType
<1>4. Cardinality(StandingDisbursements) = 0
  BY <1>2, FS_EmptySet
<1> QED
  BY <1>1, <1>3, <1>4
     DEF FeesReconcile, BooksBalance, Accounts, PLATFORM_INBOUND_FEE,
         PLATFORM_OUTBOUND_FEE, NOMBA_OUTBOUND_FEE

\* Every step keeps the books: only six actions touch them.
LEMMA NextBooks ==
    ASSUME Inv, [Next]_vars
    PROVE  FeesReconcile' /\ BooksBalance'
<1> USE DEF Inv
<1>1. CASE UNCHANGED <<balances, tx, reversals, funded>>
  BY <1>1, BooksFrame
<1>2. CASE confirmFunding \/ reverseFundingPost
  BY <1>2, FundingBooks
<1>3. ASSUME NEW r \in Refs, post(r)
      PROVE  FeesReconcile' /\ BooksBalance'
  <2>1. UNCHANGED funded
    BY <1>3 DEF post, fundingVars
  <2>2. CASE UNCHANGED ledgerVars
    BY <2>1, <2>2, <1>1 DEF ledgerVars
  <2>3. CASE /\ tx[r] = "none"
             /\ CanApply(balances, outboundFeeLegs(data[r].amount))
             /\ postTransaction(r)
    BY <2>1, <2>3, PostBooks DEF SettlesOnlyPosted
  <2> QED
    BY <1>3, <2>2, <2>3 DEF post
<1>4. ASSUME NEW r \in Refs, complete(r)
      PROVE  FeesReconcile' /\ BooksBalance'
  <2>1. tx[r] # "none" /\ markCompleted(r) /\ UNCHANGED funded
    BY <1>4 DEF complete, SettlesOnlyPosted, fundingVars
  <2> QED
    BY <2>1, CompleteBooks
<1>5. ASSUME NEW r \in Refs, reverse(r)
      PROVE  FeesReconcile' /\ BooksBalance'
  <2>1. tx[r] # "none" /\ reverseTransaction(r) /\ UNCHANGED funded
    BY <1>5 DEF reverse, SettlesOnlyPosted, fundingVars
  <2> QED
    BY <2>1, ReverseBooks
<1>6. ASSUME NEW r \in Refs, resolveLedger(r)
      PROVE  FeesReconcile' /\ BooksBalance'
  <2>1. /\ tx[r] # "none"
        /\ markCompleted(r) \/ reverseTransaction(r)
        /\ UNCHANGED funded
    BY <1>6 DEF resolveLedger, SettlesOnlyPosted, fundingVars
  <2> QED
    BY <2>1, CompleteBooks, ReverseBooks
<1>7. CASE reverseFundingCheck \/ closeCheck \/ closeUpdate
  BY <1>7, <1>1 DEF reverseFundingCheck, closeCheck, closeUpdate, ledgerVars, fundingVars
<1>8. ASSUME NEW S \in SUBSET Refs, postContributorsRefund(S) \/ claimLock(S)
      PROVE  FeesReconcile' /\ BooksBalance'
  BY <1>8, <1>1 DEF postContributorsRefund, claimLock, ledgerVars, fundingVars
<1>9. ASSUME NEW r \in Refs,
             \/ postFixedAmountDisbursement(r) \/ enqueue(r) \/ dropLeg(r)
             \/ startJob(r) \/ checkBalance(r) \/ checkExisting(r)
      PROVE  FeesReconcile' /\ BooksBalance'
  BY <1>9, <1>1
     DEF postFixedAmountDisbursement, enqueue, dropLeg, startJob, checkBalance,
         checkExisting, ledgerVars, fundingVars
<1>10. ASSUME NEW r \in Refs,
              \/ callSuccess(r) \/ callPending(r) \/ callRejected(r) \/ callTimeout(r)
              \/ dbFailure(r) \/ workerCrash(r) \/ retryFailedJob(r) \/ settle(r)
       PROVE  FeesReconcile' /\ BooksBalance'
  BY <1>10, <1>1
     DEF callSuccess, callPending, callRejected, callTimeout, dbFailure, workerCrash,
         retryFailedJob, settle, ledgerVars, fundingVars
<1>11. ASSUME NEW r \in Refs,
              \/ releaseLock(r) \/ clearLock(r) \/ apply(r)
              \/ resolveRead(r) \/ resolveApply(r) \/ resolveRelease(r)
       PROVE  FeesReconcile' /\ BooksBalance'
  BY <1>11, <1>1
     DEF releaseLock, clearLock, apply, resolveRead, resolveApply, resolveRelease,
         ledgerVars, fundingVars
<1>12. CASE UNCHANGED vars
  BY <1>12, <1>1 DEF vars, ledgerVars, fundingVars
<1> QED
  BY <1>2, <1>3, <1>4, <1>5, <1>6, <1>7, <1>8, <1>9, <1>10, <1>11, <1>12
     DEF Next, workerStep, webhookStep

\* The invariant holds throughout every behaviour, whatever fails.
THEOREM Invariance == Spec => []Inv
<1>1. Init => Inv
  BY InitType, InitPosted, InitBooks DEF Inv
<1>2. Inv /\ [Next]_vars => Inv'
  <2> SUFFICES ASSUME Inv, [Next]_vars PROVE Inv'
    OBVIOUS
  <2>1. balances["pot"] >= 0
    BY DEF Inv, BooksBalance, Accounts
  <2>2. TypeOK' /\ ReversingFunded'
    BY <2>1, NextType DEF Inv
  <2>3. SettlesOnlyPosted'
    BY NextPosted DEF Inv
  <2>4. FeesReconcile' /\ BooksBalance'
    BY NextBooks
  <2> QED
    BY <2>2, <2>3, <2>4 DEF Inv
<1> QED
  BY <1>1, <1>2, PTL DEF Spec

\* Every variable keeps its type: no failure, retry or refund split gives a leg a
\* negative amount or takes a lock count or a funding count below zero.
THEOREM TypeCorrect == Spec => []TypeOK
<1>1. Inv => TypeOK
  BY DEF Inv
<1> QED
  BY <1>1, Invariance, PTL

\* No transfer reaches the provider before its transaction is in the ledger, even
\* if the worker crashes, retries or is overtaken (processLedgerDisbursement).
THEOREM PostedFirst == Spec => []PostedBeforeSent
<1>1. Inv => PostedBeforeSent
  BY DEF Inv, SettlesOnlyPosted, PostedBeforeSent
<1> QED
  BY <1>1, Invariance, PTL

\* The books balance and no account goes negative, for any number of legs,
\* contributions and failures in any order (postTransaction, reverseTransaction).
THEOREM BooksAlwaysBalance == Spec => []BooksBalance
<1>1. Inv => BooksBalance
  BY DEF Inv
<1> QED
  BY <1>1, Invariance, PTL
-----------------------------------------------------------------------------
(* The pot's balance *)

\* A worker runs for a leg only once the leg's job was enqueued: until then the
\* leg has neither a job nor a transaction.
EnqueuedFirst ==
    \A r \in Refs : request[r] \in {"none", "checked", "claimed"} =>
        job[r] = "none" /\ pc[r] = "idle" /\ tx[r] = "none"

\* What a leg takes from the pot when it is posted.
legCost == [r \in Refs |-> data[r].amount + OUTBOUND_FEE]

\* PotReconciles, with its sum written over a function.
PotHolds ==
    balances["pot"] = funded * IntendedAmount - Sum(legCost, StandingDisbursements)

\* No leg has a job at first.
LEMMA InitEnqueued == Init => EnqueuedFirst
BY DEF Init, EnqueuedFirst

\* Every step keeps it: only enqueue gives a leg its job, and only the leg's worker
\* posts.
LEMMA NextEnqueued ==
    ASSUME Inv, EnqueuedFirst, [Next]_vars
    PROVE  EnqueuedFirst'
<1>0. TypeOK /\ SettlesOnlyPosted
  BY DEF Inv
<1> USE <1>0 DEF EnqueuedFirst, TypeOK, RequestTypeOK, WorkerTypeOK, LedgerTypeOK
<1>1. CASE UNCHANGED <<request, job, pc, tx>>
  BY <1>1
<1>2. CASE confirmFunding \/ reverseFundingCheck \/ reverseFundingPost
           \/ closeCheck \/ closeUpdate
  BY <1>2, <1>1
     DEF confirmFunding, reverseFundingCheck, reverseFundingPost, closeCheck, closeUpdate,
         ledgerVars, requestVars, workerVars
<1>3. ASSUME NEW S \in SUBSET Refs, postContributorsRefund(S) \/ claimLock(S)
      PROVE  EnqueuedFirst'
  BY <1>3 DEF postContributorsRefund, claimLock, ledgerVars, workerVars
<1>4. ASSUME NEW r \in Refs, postFixedAmountDisbursement(r) \/ enqueue(r) \/ dropLeg(r)
      PROVE  EnqueuedFirst'
  BY <1>4 DEF postFixedAmountDisbursement, enqueue, dropLeg, ledgerVars, workerVars
<1>5. ASSUME NEW r \in Refs, startJob(r) \/ checkBalance(r) \/ checkExisting(r) \/ post(r)
      PROVE  EnqueuedFirst'
  BY <1>5 DEF startJob, checkBalance, checkExisting, post, postTransaction, Goto, Finish,
              ledgerVars, requestVars
<1>6. ASSUME NEW r \in Refs,
             callSuccess(r) \/ callPending(r) \/ callRejected(r) \/ callTimeout(r)
      PROVE  EnqueuedFirst'
  BY <1>6 DEF callSuccess, callPending, callRejected, callTimeout, Goto, Finish,
              ledgerVars, requestVars
<1>7. ASSUME NEW r \in Refs, complete(r) \/ reverse(r)
      PROVE  EnqueuedFirst'
  BY <1>7 DEF complete, reverse, markCompleted, reverseTransaction, Goto, requestVars
<1>8. ASSUME NEW r \in Refs, releaseLock(r) \/ clearLock(r) \/ apply(r)
      PROVE  EnqueuedFirst'
  BY <1>8 DEF releaseLock, clearLock, apply, AfterRelease, Goto, Finish,
              ledgerVars, requestVars
<1>9. ASSUME NEW r \in Refs, dbFailure(r) \/ workerCrash(r) \/ retryFailedJob(r)
      PROVE  EnqueuedFirst'
  <2>1. UNCHANGED <<request, tx>>
    BY <1>9 DEF dbFailure, workerCrash, retryFailedJob, ledgerVars, requestVars
  <2>2. job[r] # "none" \/ pc[r] # "idle"
    BY <1>9 DEF dbFailure, workerCrash, retryFailedJob
  <2>3. \A s \in Refs \ {r} : job'[s] = job[s] /\ pc'[s] = pc[s]
    BY <1>9 DEF dbFailure, workerCrash, retryFailedJob, Goto, Finish
  <2> QED
    BY <2>1, <2>2, <2>3
<1>10. ASSUME NEW r \in Refs, settle(r) \/ resolveRead(r) \/ resolveApply(r) \/ resolveRelease(r)
       PROVE  EnqueuedFirst'
  BY <1>10, <1>1
     DEF settle, resolveRead, resolveApply, resolveRelease, ledgerVars, requestVars, workerVars
<1>11. ASSUME NEW r \in Refs, resolveLedger(r)
       PROVE  EnqueuedFirst'
  <2>1. tx[r] # "none" /\ UNCHANGED <<request, job, pc>>
    BY <1>11 DEF resolveLedger, SettlesOnlyPosted, requestVars, workerVars
  <2>2. \A s \in Refs \ {r} : tx'[s] = tx[s]
    BY <1>11 DEF resolveLedger, markCompleted, reverseTransaction
  <2> QED
    BY <2>1, <2>2
<1>12. CASE UNCHANGED vars
  BY <1>12, <1>1 DEF vars, ledgerVars, requestVars, workerVars
<1> QED
  BY <1>2, <1>3, <1>4, <1>5, <1>6, <1>7, <1>8, <1>9, <1>10, <1>11, <1>12
     DEF Next, workerStep, webhookStep

\* A leg's amount is settled by the time it is posted: the rescaling of a fan-out
\* refund comes before its jobs.
LEMMA PostedAmountFixed ==
    ASSUME Inv, EnqueuedFirst, [Next]_vars, NEW r \in Refs, tx[r] # "none"
    PROVE  data'[r] = data[r]
<1>0. request[r] \notin {"none", "checked", "claimed"} /\ TypeOK
  BY DEF EnqueuedFirst, Inv
<1> USE <1>0 DEF TypeOK, RequestTypeOK
<1>1. CASE UNCHANGED data
  BY <1>1
<1>2. CASE confirmFunding \/ reverseFundingCheck \/ reverseFundingPost
           \/ closeCheck \/ closeUpdate
  BY <1>2, <1>1
     DEF confirmFunding, reverseFundingCheck, reverseFundingPost, closeCheck, closeUpdate,
         requestVars
<1>3. ASSUME NEW S \in SUBSET Refs, postContributorsRefund(S) \/ claimLock(S)
      PROVE  data'[r] = data[r]
  <2>1. r \notin S
    BY <1>3 DEF postContributorsRefund, claimLock
  <2> QED
    BY <1>3, <2>1 DEF postContributorsRefund, claimLock
<1>4. ASSUME NEW s \in Refs, postFixedAmountDisbursement(s)
      PROVE  data'[r] = data[r]
  BY <1>4 DEF postFixedAmountDisbursement
<1>5. ASSUME NEW s \in Refs, enqueue(s) \/ dropLeg(s) \/ settle(s)
      PROVE  data'[r] = data[r]
  BY <1>5, <1>1 DEF enqueue, dropLeg, settle, requestVars
<1>6. ASSUME NEW s \in Refs, workerStep(s)
      PROVE  data'[r] = data[r]
  BY <1>6, <1>1
     DEF workerStep, startJob, checkBalance, checkExisting, post, callSuccess, callPending,
         callRejected, callTimeout, complete, reverse, releaseLock, clearLock, apply,
         requestVars
<1>7. ASSUME NEW s \in Refs, dbFailure(s) \/ workerCrash(s) \/ retryFailedJob(s)
      PROVE  data'[r] = data[r]
  BY <1>7, <1>1 DEF dbFailure, workerCrash, retryFailedJob, requestVars
<1>8. ASSUME NEW s \in Refs, webhookStep(s)
      PROVE  data'[r] = data[r]
  BY <1>8, <1>1
     DEF webhookStep, resolveRead, resolveLedger, resolveApply, resolveRelease, requestVars
<1>9. CASE UNCHANGED vars
  BY <1>9, <1>1 DEF vars, requestVars
<1> QED
  BY <1>2, <1>3, <1>4, <1>5, <1>6, <1>7, <1>8, <1>9 DEF Next

\* The sum of the standing legs is an integer, and the costs of a state are too.
LEMMA CostTyped ==
    ASSUME TypeOK
    PROVE  /\ IsFiniteSet(StandingDisbursements)
           /\ StandingDisbursements \in SUBSET Refs
           /\ \A r \in Refs : legCost[r] = data[r].amount + OUTBOUND_FEE /\ legCost[r] \in Int
           /\ Sum(legCost, StandingDisbursements) \in Int
<1>1. StandingDisbursements \in SUBSET Refs
  BY DEF StandingDisbursements
<1>2. IsFiniteSet(StandingDisbursements)
  BY <1>1, LegSets
<1>3. \A r \in Refs : legCost[r] = data[r].amount + OUTBOUND_FEE /\ legCost[r] \in Int
  BY DEF TypeOK, RequestTypeOK, legCost, OUTBOUND_FEE, NOMBA_OUTBOUND_FEE,
         PLATFORM_OUTBOUND_FEE
<1>4. \A r \in StandingDisbursements : legCost[r] \in Int
  BY <1>1, <1>3
<1> QED
  BY <1>1, <1>2, <1>3, <1>4, SumType

\* The legs that stood before the step cost what they did.
LEMMA CostKept ==
    ASSUME Inv, Inv', EnqueuedFirst, [Next]_vars,
           NEW S \in SUBSET StandingDisbursements
    PROVE  Sum(legCost', S) = Sum(legCost, S)
<1>1. IsFiniteSet(S) /\ S \subseteq Refs
  BY CostTyped, FS_Subset DEF Inv
<1>2. \A r \in S : legCost'[r] = legCost[r]
  <2> TAKE r \in S
  <2>1. r \in Refs /\ tx[r] # "none"
    BY DEF StandingDisbursements, Debited
  <2>2. data'[r] = data[r]
    BY <2>1, PostedAmountFixed
  <2> QED
    BY <2>1, <2>2 DEF legCost
<1> QED
  BY <1>1, <1>2, SumSame

\* Contributions and the balance of a state are integers.
LEMMA PotTyped ==
    ASSUME TypeOK
    PROVE  balances["pot"] \in Int /\ funded \in Nat /\ funded * IntendedAmount \in Int
<1>1. balances["pot"] \in Int /\ funded \in Nat
  BY DEF TypeOK, LedgerTypeOK, FundingTypeOK, Accounts
<1> QED
  BY <1>1, ConstantsAssumption

\* The pot holds what it should as long as the ledger and the funded contributions
\* are left alone.
LEMMA PotFrame ==
    ASSUME Inv, Inv', EnqueuedFirst, PotHolds, [Next]_vars,
           UNCHANGED <<balances, funded>>, StandingDisbursements' = StandingDisbursements
    PROVE  PotHolds'
<1>1. Sum(legCost', StandingDisbursements) = Sum(legCost, StandingDisbursements)
  BY CostKept
<1>2. Sum(legCost', StandingDisbursements') = Sum(legCost', StandingDisbursements)
  BY Zenon
<1> QED
  BY <1>1, <1>2 DEF PotHolds

\* A contribution adds its amount, and its reversal takes it back.
LEMMA PotFunding ==
    ASSUME Inv, Inv', EnqueuedFirst, PotHolds, [Next]_vars,
           confirmFunding \/ reverseFundingPost
    PROVE  PotHolds'
<1>1. StandingDisbursements' = StandingDisbursements
  BY DEF StandingDisbursements, Debited, confirmFunding, reverseFundingPost
<1>2. Sum(legCost', StandingDisbursements) = Sum(legCost, StandingDisbursements)
  BY CostKept
<1>3. Sum(legCost', StandingDisbursements') = Sum(legCost', StandingDisbursements)
  BY <1>1, Zenon
<1>4. /\ balances \in [Accounts -> Int] /\ IntendedAmount \in Nat /\ funded \in Nat
      /\ balances["pot"] \in Int /\ funded * IntendedAmount \in Int
  BY ConstantsAssumption, PotTyped DEF Inv, TypeOK, LedgerTypeOK
<1>5. Sum(legCost, StandingDisbursements) \in Int
  BY CostTyped DEF Inv
<1>6. \/ UNCHANGED <<balances, funded>>
      \/ balances'["pot"] = balances["pot"] + IntendedAmount /\ funded' = funded + 1
      \/ balances'["pot"] = balances["pot"] - IntendedAmount /\ funded' = funded - 1
  BY <1>4, InboundEffect, InboundReversalEffect DEF confirmFunding, reverseFundingPost
<1>7. /\ (funded + 1) * IntendedAmount = funded * IntendedAmount + IntendedAmount
      /\ (funded - 1) * IntendedAmount = funded * IntendedAmount - IntendedAmount
  BY <1>4
<1>8. balances["pot"] = funded * IntendedAmount - Sum(legCost, StandingDisbursements)
  BY DEF PotHolds
<1>9. balances'["pot"] = funded' * IntendedAmount - Sum(legCost, StandingDisbursements)
  BY <1>4, <1>5, <1>6, <1>7, <1>8
<1> QED
  BY <1>2, <1>3, <1>9 DEF PotHolds

\* Posting a leg takes its cost from the pot.
LEMMA PotPost ==
    ASSUME Inv, Inv', EnqueuedFirst, PotHolds, [Next]_vars, NEW r \in Refs,
           tx[r] = "none", postTransaction(r), UNCHANGED <<funded, data>>
    PROVE  PotHolds'
<1> DEFINE S == StandingDisbursements
<1>1. tx \in [Refs -> {"none", "processing", "completed", "reversed"}]
      /\ balances \in [Accounts -> Int] /\ data[r].amount \in Nat
      /\ r \notin reversals
  BY DEF Inv, TypeOK, LedgerTypeOK, RequestTypeOK, SettlesOnlyPosted
<1>2. S' = S \union {r} /\ r \notin S
  BY <1>1 DEF StandingDisbursements, Debited, postTransaction
<1>3. balances'["pot"] = balances["pot"] - (data[r].amount + OUTBOUND_FEE)
  BY <1>1, OutboundEffect DEF postTransaction
<1>4. /\ IsFiniteSet(S) /\ S \subseteq Refs /\ Sum(legCost, S) \in Int
      /\ \A s \in Refs : legCost[s] = data[s].amount + OUTBOUND_FEE /\ legCost[s] \in Int
  BY CostTyped DEF Inv
<1>5. Sum(legCost, S \union {r}) = Sum(legCost, S) + legCost[r]
  <2>1. \A y \in S \union {r} : legCost[y] \in Int
    BY <1>4
  <2> QED
    BY <1>2, <1>4, <2>1, SumAdd
<1>6. legCost' = legCost
  BY DEF legCost
<1>7. Sum(legCost', S') = Sum(legCost, S \union {r})
  BY <1>2, <1>6, Zenon
<1>8. balances["pot"] \in Int /\ funded * IntendedAmount \in Int
  BY PotTyped DEF Inv
<1>9. balances["pot"] = funded * IntendedAmount - Sum(legCost, S)
  BY DEF PotHolds
<1>10. legCost[r] = data[r].amount + OUTBOUND_FEE /\ legCost[r] \in Int
  BY <1>4
<1>11. balances'["pot"] = funded * IntendedAmount - Sum(legCost', S')
  BY <1>3, <1>4, <1>5, <1>7, <1>8, <1>9, <1>10
<1> QED
  BY <1>11 DEF PotHolds

\* Reversing a leg that stands gives its cost back, and reversing it again nothing.
LEMMA PotReverse ==
    ASSUME Inv, Inv', EnqueuedFirst, PotHolds, [Next]_vars, NEW r \in Refs,
           tx[r] # "none", reverseTransaction(r), UNCHANGED <<funded, data>>
    PROVE  PotHolds'
<1> DEFINE S == StandingDisbursements
<1>1. tx \in [Refs -> {"none", "processing", "completed", "reversed"}]
      /\ balances \in [Accounts -> Int] /\ data[r].amount \in Nat
  BY DEF Inv, TypeOK, LedgerTypeOK, RequestTypeOK
<1>2. CASE r \in reversals
  <2>1. S' = S /\ balances' = balances
    BY <1>1, <1>2 DEF StandingDisbursements, Debited, reverseTransaction
  <2> QED
    BY <2>1, PotFrame
<1>3. CASE r \notin reversals
  <2>1. S' = S \ {r} /\ r \in S
    BY <1>1, <1>3 DEF StandingDisbursements, Debited, reverseTransaction
  <2>2. balances'["pot"] = balances["pot"] + (data[r].amount + OUTBOUND_FEE)
    BY <1>1, <1>3, OutboundReversalEffect DEF reverseTransaction
  <2>3. /\ IsFiniteSet(S) /\ S \subseteq Refs /\ Sum(legCost, S) \in Int
        /\ \A s \in Refs : legCost[s] = data[s].amount + OUTBOUND_FEE /\ legCost[s] \in Int
    BY CostTyped DEF Inv
  <2>4. Sum(legCost, S) = legCost[r] + Sum(legCost, S \ {r})
    <3>1. \A y \in S : legCost[y] \in Int
      BY <2>3
    <3> QED
      BY <2>1, <2>3, <3>1, SumRemove
  <2>5. legCost' = legCost
    BY DEF legCost
  <2>6. Sum(legCost', S') = Sum(legCost, S \ {r})
    BY <2>1, <2>5, Zenon
  <2>7. Sum(legCost', S') \in Int
    <3>1. IsFiniteSet(S \ {r}) /\ \A y \in S \ {r} : legCost[y] \in Int
      BY <2>3, FS_Subset
    <3> QED
      BY <2>6, <3>1, SumType
  <2>8. balances["pot"] \in Int /\ funded * IntendedAmount \in Int
    BY PotTyped DEF Inv
  <2>9. balances["pot"] = funded * IntendedAmount - Sum(legCost, S)
    BY DEF PotHolds
  <2>10. legCost[r] = data[r].amount + OUTBOUND_FEE /\ legCost[r] \in Int
    BY <2>3
  <2>11. balances'["pot"] = funded * IntendedAmount - Sum(legCost', S')
    BY <2>2, <2>3, <2>4, <2>6, <2>7, <2>8, <2>9, <2>10
  <2> QED
    BY <2>11 DEF PotHolds
<1> QED
  BY <1>2, <1>3

\* Every step keeps the pot's balance in line with its legs.
LEMMA NextPot ==
    ASSUME Inv, Inv', EnqueuedFirst, PotHolds, [Next]_vars
    PROVE  PotHolds'
<1>1. ASSUME UNCHANGED <<balances, tx, reversals, funded>> PROVE PotHolds'
  <2>1. StandingDisbursements' = StandingDisbursements
    BY <1>1 DEF StandingDisbursements, Debited
  <2> QED
    BY <1>1, <2>1, PotFrame
<1>2. CASE confirmFunding \/ reverseFundingPost
  BY <1>2, PotFunding
<1>3. ASSUME NEW r \in Refs, post(r)
      PROVE  PotHolds'
  <2>1. UNCHANGED <<funded, data>>
    BY <1>3 DEF post, fundingVars, requestVars
  <2>2. CASE UNCHANGED ledgerVars
    BY <2>1, <2>2, <1>1 DEF ledgerVars
  <2>3. CASE tx[r] = "none" /\ postTransaction(r)
    BY <2>1, <2>3, PotPost
  <2> QED
    BY <1>3, <2>2, <2>3 DEF post
<1>4. ASSUME NEW r \in Refs, tx[r] # "none", markCompleted(r), UNCHANGED funded
      PROVE  PotHolds'
  <2>1. StandingDisbursements' = StandingDisbursements /\ balances' = balances
    BY <1>4 DEF Inv, TypeOK, LedgerTypeOK, StandingDisbursements, Debited, markCompleted
  <2> QED
    BY <1>4, <2>1, PotFrame
<1>5. ASSUME NEW r \in Refs, complete(r) \/ reverse(r) \/ resolveLedger(r)
      PROVE  PotHolds'
  <2>1. /\ tx[r] # "none"
        /\ markCompleted(r) \/ reverseTransaction(r)
        /\ UNCHANGED <<funded, data>>
    BY <1>5 DEF complete, reverse, resolveLedger, Inv, SettlesOnlyPosted, fundingVars,
                requestVars
  <2> QED
    BY <2>1, <1>4, PotReverse
<1>6. CASE reverseFundingCheck \/ closeCheck \/ closeUpdate
  BY <1>6, <1>1 DEF reverseFundingCheck, closeCheck, closeUpdate, ledgerVars, fundingVars
<1>7. ASSUME NEW S \in SUBSET Refs, postContributorsRefund(S) \/ claimLock(S)
      PROVE  PotHolds'
  BY <1>7, <1>1 DEF postContributorsRefund, claimLock, ledgerVars, fundingVars
<1>8. ASSUME NEW r \in Refs,
             \/ postFixedAmountDisbursement(r) \/ enqueue(r) \/ dropLeg(r)
             \/ startJob(r) \/ checkBalance(r) \/ checkExisting(r)
      PROVE  PotHolds'
  BY <1>8, <1>1
     DEF postFixedAmountDisbursement, enqueue, dropLeg, startJob, checkBalance,
         checkExisting, ledgerVars, fundingVars
<1>9. ASSUME NEW r \in Refs,
             \/ callSuccess(r) \/ callPending(r) \/ callRejected(r) \/ callTimeout(r)
             \/ dbFailure(r) \/ workerCrash(r) \/ retryFailedJob(r) \/ settle(r)
      PROVE  PotHolds'
  BY <1>9, <1>1
     DEF callSuccess, callPending, callRejected, callTimeout, dbFailure, workerCrash,
         retryFailedJob, settle, ledgerVars, fundingVars
<1>10. ASSUME NEW r \in Refs,
              \/ releaseLock(r) \/ clearLock(r) \/ apply(r)
              \/ resolveRead(r) \/ resolveApply(r) \/ resolveRelease(r)
       PROVE  PotHolds'
  BY <1>10, <1>1
     DEF releaseLock, clearLock, apply, resolveRead, resolveApply, resolveRelease,
         ledgerVars, fundingVars
<1>11. CASE UNCHANGED vars
  BY <1>11, <1>1 DEF vars, ledgerVars, fundingVars
<1> QED
  BY <1>2, <1>3, <1>5, <1>6, <1>7, <1>8, <1>9, <1>10, <1>11
     DEF Next, workerStep, webhookStep

\* The sum as PotReconciles writes it.
LEMMA CostSumIs ==
    ASSUME TypeOK
    PROVE  MapThenSumSet(LAMBDA r : data[r].amount + OUTBOUND_FEE, {r \in Refs : Debited(r)})
             = Sum(legCost, StandingDisbursements)
<1> DEFINE S == {r \in Refs : Debited(r)}
           Takes(g) == g = [s \in SUBSET S |->
                              IF s = {} THEN 0
                              ELSE data[First(s)].amount + OUTBOUND_FEE
                                     + g[s \ {First(s)}]]
<1>1. MapThenSumSet(LAMBDA r : data[r].amount + OUTBOUND_FEE, S) = (CHOOSE g : Takes(g))[S]
  BY DEF MapThenSumSet, MapThenFoldSet, First
<1>2. \A s \in SUBSET S : s # {} => legCost[First(s)] = data[First(s)].amount + OUTBOUND_FEE
  BY FirstIn, CostTyped
<1>3. \A g : Takes(g) <=> Adds(g, legCost, S)
  BY <1>2 DEF Adds
<1>4. IsFiniteSet(S) /\ S = StandingDisbursements
  BY CostTyped DEF StandingDisbursements
<1>5. \E g : Takes(g)
  BY <1>3, <1>4, Exists
<1>6. Takes(CHOOSE g : Takes(g))
  BY <1>5
<1>7. Adds(CHOOSE g : Takes(g), legCost, S)
  <2> HIDE DEF Takes
  <2> QED
    BY <1>3, <1>6
<1>8. Sum(legCost, S) = Sum(legCost, StandingDisbursements)
  BY <1>4, Zenon
<1> HIDE DEF Takes, S
<1>9. (CHOOSE g : Takes(g))[S] = Sum(legCost, S)
  <2> DEFINE h == CHOOSE g : Takes(g)
  <2>1. Adds(h, legCost, S) /\ S \in SUBSET S /\ IsFiniteSet(S)
    BY <1>4, <1>7
  <2> HIDE DEF h
  <2>2. h[S] = Sum(legCost, S)
    BY <2>1, SumOfSubset
  <2> QED
    BY <2>2 DEF h
<1> QED
  BY <1>1, <1>8, <1>9, Zenon DEF S

\* The pot holds what was contributed minus what its standing disbursements and
\* their fees took, for any number of legs and contributions and whatever fails: no
\* retry, crash, duplicate webhook or repeated reversal debits or credits it twice
\* (postTransaction, reverseTransaction).
THEOREM PotAlwaysReconciles == Spec => []PotReconciles
<1>1. Init => EnqueuedFirst /\ PotHolds
  <2> SUFFICES ASSUME Init PROVE EnqueuedFirst /\ PotHolds
    OBVIOUS
  <2>1. balances["pot"] = 0 /\ funded = 0
    BY DEF Init, ZeroBalances, Accounts
  <2>2. StandingDisbursements = {}
    BY DEF Init, StandingDisbursements, Debited
  <2>3. Sum(legCost, {}) = 0
    BY SumEmpty
  <2>4. Sum(legCost, StandingDisbursements) = 0
    BY <2>2, <2>3, Zenon
  <2> QED
    BY <2>1, <2>4, InitEnqueued, ConstantsAssumption DEF PotHolds
<1>2. Inv /\ Inv' /\ EnqueuedFirst /\ PotHolds /\ [Next]_vars => EnqueuedFirst' /\ PotHolds'
  BY NextEnqueued, NextPot
<1>3. Inv /\ PotHolds => PotReconciles
  BY CostSumIs, Zenon DEF Inv, PotHolds, PotReconciles
<1> QED
  BY <1>1, <1>2, <1>3, Invariance, PTL DEF Spec
-----------------------------------------------------------------------------
(* Reversed only after a refusal *)

\* No worker loses track of a posted transaction: every call is answered, no worker
\* dies while it runs a job, no statement after the posting fails and no operator
\* retries a job.  Webhooks may overtake the worker, and the throttle, the bank
\* lookup and the queue may fail.
NoLostOutcome == Faults \cap {"timeout", "crash", "db", "operator"} = {}

\* No job runs at first.
LEMMA InitCalledOnce == Init => CalledOnce
BY DEF Init, CalledOnce

\* Every step keeps it.
LEMMA NextCalledOnce ==
    ASSUME NoLostOutcome, Inv, CalledOnce, [Next]_vars
    PROVE  CalledOnce'
<1>0. /\ LedgerTypeOK /\ RequestTypeOK /\ WorkerTypeOK /\ ProviderTypeOK
      /\ WebhookTypeOK /\ SettlesOnlyPosted
  BY DEF Inv, TypeOK
<1>1. CASE UNCHANGED <<tx, reversals, request, job, pc, end, nomba, hooks, handler>>
  BY <1>1 DEF CalledOnce
<1> USE DEF ledgerVars, requestVars, workerVars, providerVars
<1>2. ASSUME NEW S \in SUBSET Refs, postContributorsRefund(S) \/ claimLock(S)
      PROVE  CalledOnce'
  BY <1>2, <1>0 DEF CalledOnce, RequestTypeOK, postContributorsRefund, claimLock
<1>3. ASSUME NEW r \in Refs, postFixedAmountDisbursement(r) \/ dropLeg(r)
      PROVE  CalledOnce'
  BY <1>3, <1>0 DEF CalledOnce, RequestTypeOK, postFixedAmountDisbursement, dropLeg
<1>4. ASSUME NEW r \in Refs, enqueue(r)
      PROVE  CalledOnce'
  BY <1>4, <1>0 DEF CalledOnce, RequestTypeOK, WorkerTypeOK, enqueue
<1>5. ASSUME NEW r \in Refs, startJob(r)
      PROVE  CalledOnce'
  BY <1>5, <1>0 DEF CalledOnce, WorkerTypeOK, startJob
<1>6. ASSUME NEW r \in Refs, checkBalance(r) \/ checkExisting(r)
      PROVE  CalledOnce'
  BY <1>6, <1>0
     DEF CalledOnce, WorkerTypeOK, checkBalance, checkExisting, Goto, Finish, JobAfter
<1>7. ASSUME NEW r \in Refs, post(r)
      PROVE  CalledOnce'
  BY <1>7, <1>0
     DEF CalledOnce, SettlesOnlyPosted, LedgerTypeOK, WorkerTypeOK, post,
         postTransaction, Goto
<1>8. ASSUME NEW r \in Refs, callSuccess(r)
      PROVE  CalledOnce'
  BY <1>8, <1>0 DEF CalledOnce, WorkerTypeOK, ProviderTypeOK, callSuccess, Notify, Goto
<1>9. ASSUME NEW r \in Refs, callPending(r)
      PROVE  CalledOnce'
  BY <1>9, <1>0
     DEF CalledOnce, WorkerTypeOK, ProviderTypeOK, callPending, Finish, JobAfter
<1>10. ASSUME NEW r \in Refs, callRejected(r)
       PROVE  CalledOnce'
  BY <1>10, <1>0 DEF CalledOnce, WorkerTypeOK, ProviderTypeOK, callRejected, Notify, Goto
<1>11. ASSUME NEW r \in Refs,
              callTimeout(r) \/ dbFailure(r) \/ workerCrash(r) \/ retryFailedJob(r)
       PROVE  FALSE
  BY <1>11
     DEF NoLostOutcome, callTimeout, dbFailure, workerCrash, retryFailedJob, Fault
<1>12. ASSUME NEW r \in Refs, complete(r) \/ reverse(r)
       PROVE  CalledOnce'
  BY <1>12, <1>0
     DEF CalledOnce, SettlesOnlyPosted, LedgerTypeOK, WorkerTypeOK, complete, reverse,
         markCompleted, reverseTransaction, Goto
<1>13. ASSUME NEW r \in Refs, releaseLock(r) \/ clearLock(r) \/ apply(r)
       PROVE  CalledOnce'
  BY <1>13, <1>0
     DEF CalledOnce, WorkerTypeOK, releaseLock, clearLock, apply, AfterRelease, Goto,
         Finish, JobAfter
<1>14. ASSUME NEW r \in Refs, settle(r)
       PROVE  CalledOnce'
  BY <1>14, <1>0 DEF CalledOnce, ProviderTypeOK, settle, Notify
<1>15. ASSUME NEW r \in Refs, resolveRead(r)
       PROVE  CalledOnce'
  BY <1>15, <1>0 DEF CalledOnce, ProviderTypeOK, WebhookTypeOK, resolveRead
<1>16. ASSUME NEW r \in Refs, resolveLedger(r)
       PROVE  CalledOnce'
  BY <1>16, <1>0
     DEF CalledOnce, SettlesOnlyPosted, LedgerTypeOK, WebhookTypeOK, resolveLedger,
         markCompleted, reverseTransaction
<1>17. ASSUME NEW r \in Refs, resolveApply(r) \/ resolveRelease(r)
       PROVE  CalledOnce'
  BY <1>17, <1>0 DEF CalledOnce, WebhookTypeOK, resolveApply, resolveRelease
<1>18. CASE \/ confirmFunding \/ reverseFundingCheck \/ reverseFundingPost
            \/ closeCheck \/ closeUpdate \/ UNCHANGED vars
  BY <1>18, <1>1
     DEF confirmFunding, reverseFundingCheck, reverseFundingPost, closeCheck,
         closeUpdate, vars
<1> QED
  BY <1>2, <1>3, <1>4, <1>5, <1>6, <1>7, <1>8, <1>9, <1>10, <1>11, <1>12, <1>13,
     <1>14, <1>15, <1>16, <1>17, <1>18
     DEF Next, workerStep, webhookStep

\* As long as no worker loses track of a posted transaction, a transaction is
\* reversed only if its transfer neither executed nor can execute, however
\* webhooks, workers and retries interleave (processLedgerDisbursement's catch
\* block and resolvePendingTransfer).
THEOREM ReversedOnlyIfRefused ==
    ASSUME NoLostOutcome
    PROVE  Spec => []ReversedNeverExecuted
<1>1. Init => CalledOnce
  BY InitCalledOnce
<1>2. Inv /\ CalledOnce /\ [Next]_vars => CalledOnce'
  BY NextCalledOnce
<1>3. Inv /\ CalledOnce => ReversedNeverExecuted
  BY DEF Inv, TypeOK, LedgerTypeOK, CalledOnce, ReversedNeverExecuted
<1> QED
  BY <1>1, <1>2, <1>3, Invariance, PTL DEF Spec
-----------------------------------------------------------------------------
(* The lock: what it counts, and who releases it. *)

\* Failures after which a job still runs from its start, for a reference without a row.
RestartsClean == Faults \subseteq {"lookup", "enqueue", "reserve"}

\* Failures that can only leave the lock held too long.
KeepsLock == Faults \subseteq {"lookup", "enqueue"}

\* Where the worker is, and what it has done by then.
WorkerPhase(r) ==
    /\ job[r] = "active" <=> pc[r] # "idle"
    /\ job[r] = "none" <=> request[r] # "enqueued"
    /\ job[r] \in {"none", "waiting"} => tx[r] = "none"
    /\ job[r] = "failed" => tx[r] \in {"none", "reversed"}
    /\ job[r] = "completed" => tx[r] # "none"
    /\ pc[r] \in {"balance", "existing", "post"} => tx[r] = "none"
    /\ pc[r] \in {"call", "complete", "reverse"} => tx[r] = "processing"
    /\ pc[r] = "call" => nomba[r] = "none"
    /\ pc[r] = "complete" => nomba[r] = "executed"
    /\ pc[r] = "reverse" => end[r] \in {"definitive", "unrecoverable"}
    /\ pc[r] = "apply" => tx[r] = "completed" /\ data[r].onSuccess # "none"
    /\ pc[r] \in {"release", "clear"} =>
          /\ end[r] = "return" => tx[r] = "completed"
          /\ end[r] = "throw" => tx[r] = "none"
          /\ end[r] \in {"unrecoverable", "definitive"} => tx[r] \in {"none", "reversed"}

\* Where resolvePendingTransfer is: it works on a job that left its transfer pending.
HandlerPhase(r) ==
    /\ handler[r] # "idle" => job[r] = "completed"
    /\ handler[r] \in {"complete", "reverse"} => tx[r] = "processing"
    /\ handler[r] = "complete" => nomba[r] = "executed"
    /\ handler[r] = "apply" => tx[r] = "completed"
    /\ handler[r] \in {"decrement", "clear"} => tx[r] \in {"completed", "reversed"}
    /\ "success" \in hooks[r] => nomba[r] = "executed"
    /\ tx[r] = "completed" => nomba[r] = "executed"

\* onSuccess is applied at the end of a transfer that completed.
AppliedAtEnd(r) ==
    applied[r] # 0 =>
        /\ applied[r] = 1
        /\ tx[r] = "completed"
        /\ job[r] = "completed"
        /\ handler[r] \in {"idle", "decrement", "clear"}

Phases == \A r \in Refs : WorkerPhase(r) /\ HandlerPhase(r) /\ AppliedAtEnd(r)

\* The references of an operation know each other.
LegsTogether ==
    \A r \in Refs :
        /\ request[r] # "none" =>
              /\ r \in data[r].legs
              /\ \A s \in data[r].legs : data[s].legs = data[r].legs
        /\ request[r] = "none" => data[r].legs = {}
        /\ request[r] # "none" /\ ~data[r].isFanOutLeg => data[r].legs = {r}

\* Legs whose share is given back and who found that it was the last one: the second
\* statement of decrementPendingOperationLeg is to come.
Clearing(r) == pc[r] = "clear" \/ handler[r] = "clear" \/ request[r] = "clear"

Holders == {r \in Refs : Holding(r)}

\* The lock covers who holds a share of it and who is about to clear it; that is one
\* leg, and then nobody holds a share.  Who releases the lock does not run again.
LockCovers ==
    /\ legCount >= Cardinality(Holders)
    /\ Faults = {} => legCount = Cardinality(Holders)
    /\ \A r \in Refs : Holding(r) \/ Clearing(r) => pendingOperation # "none"
    /\ \A r \in Refs : Clearing(r) => legCount = 0
    /\ \A r, s \in Refs : Clearing(r) /\ Clearing(s) => r = s
    /\ \A r \in Refs : pc[r] \in {"release", "clear"} => end[r] # "throw"
    /\ OneOperationInFlight

\* No job runs at first.
LEMMA InitPhases == Init => Phases
BY DEF Init, Phases, WorkerPhase, HandlerPhase, AppliedAtEnd

\* Every step keeps worker, handler and transaction in phase.
LEMMA NextPhases ==
    ASSUME RestartsClean, Inv, Phases, [Next]_vars
    PROVE  Phases'
<1>0. /\ LedgerTypeOK /\ RequestTypeOK /\ WorkerTypeOK /\ ProviderTypeOK
      /\ WebhookTypeOK /\ SettlesOnlyPosted
  BY DEF Inv, TypeOK
<1> USE DEF ledgerVars, requestVars, workerVars, providerVars
<1>1. CASE UNCHANGED <<tx, request, data, job, pc, end, nomba, hooks, handler, applied>>
  BY <1>1 DEF Phases, WorkerPhase, HandlerPhase, AppliedAtEnd
<1> USE DEF Phases, WorkerPhase, HandlerPhase, AppliedAtEnd
<1>2. ASSUME NEW S \in SUBSET Refs, postContributorsRefund(S) \/ claimLock(S)
      PROVE  Phases'
  BY <1>2, <1>0 DEF RequestTypeOK, postContributorsRefund, claimLock
<1>3. ASSUME NEW r \in Refs, postFixedAmountDisbursement(r) \/ dropLeg(r)
      PROVE  Phases'
  BY <1>3, <1>0 DEF RequestTypeOK, postFixedAmountDisbursement, dropLeg
<1>4. ASSUME NEW r \in Refs, enqueue(r)
      PROVE  Phases'
  BY <1>4, <1>0 DEF RequestTypeOK, WorkerTypeOK, enqueue
<1>5. ASSUME NEW r \in Refs, startJob(r)
      PROVE  Phases'
  BY <1>5, <1>0 DEF WorkerTypeOK, startJob
<1>6. ASSUME NEW r \in Refs, checkBalance(r) \/ checkExisting(r)
      PROVE  Phases'
  BY <1>6, <1>0 DEF WorkerTypeOK, checkBalance, checkExisting, Goto, Finish, JobAfter
<1>7. ASSUME NEW r \in Refs, post(r)
      PROVE  Phases'
  BY <1>7, <1>0
     DEF RestartsClean, SettlesOnlyPosted, LedgerTypeOK, WorkerTypeOK, post, Fault,
         postTransaction, Goto
<1>8. ASSUME NEW r \in Refs, callSuccess(r)
      PROVE  Phases'
  BY <1>8, <1>0 DEF WorkerTypeOK, ProviderTypeOK, callSuccess, Notify, Goto
<1>9. ASSUME NEW r \in Refs, callPending(r)
      PROVE  Phases'
  BY <1>9, <1>0 DEF WorkerTypeOK, ProviderTypeOK, callPending, Finish, JobAfter
<1>10. ASSUME NEW r \in Refs, callRejected(r)
       PROVE  Phases'
  BY <1>10, <1>0 DEF WorkerTypeOK, ProviderTypeOK, callRejected, Notify, Goto
<1>11. ASSUME NEW r \in Refs,
              callTimeout(r) \/ dbFailure(r) \/ workerCrash(r) \/ retryFailedJob(r)
       PROVE  FALSE
  BY <1>11
     DEF RestartsClean, callTimeout, dbFailure, workerCrash, retryFailedJob, Fault
<1>12. ASSUME NEW r \in Refs, complete(r) \/ reverse(r)
       PROVE  Phases'
  BY <1>12, <1>0
     DEF LedgerTypeOK, WorkerTypeOK, complete, reverse, markCompleted,
         reverseTransaction, Goto
<1>13. ASSUME NEW r \in Refs, releaseLock(r) \/ clearLock(r)
       PROVE  Phases'
  BY <1>13, <1>0
     DEF WorkerTypeOK, releaseLock, clearLock, AfterRelease, Goto, Finish, JobAfter
<1>14. ASSUME NEW r \in Refs, apply(r)
       PROVE  Phases'
  BY <1>14, <1>0
     DEF WorkerTypeOK, WebhookTypeOK, apply, applyOnSuccess, Finish, JobAfter
<1>15. ASSUME NEW r \in Refs, settle(r)
       PROVE  Phases'
  BY <1>15, <1>0 DEF ProviderTypeOK, settle, Notify
<1>16. ASSUME NEW r \in Refs, resolveRead(r)
       PROVE  Phases'
  BY <1>16, <1>0 DEF RestartsClean, WorkerTypeOK, ProviderTypeOK, WebhookTypeOK, resolveRead
<1>17. ASSUME NEW r \in Refs, resolveLedger(r)
       PROVE  Phases'
  BY <1>17, <1>0
     DEF LedgerTypeOK, WebhookTypeOK, resolveLedger, markCompleted, reverseTransaction
<1>18. ASSUME NEW r \in Refs, resolveApply(r) \/ resolveRelease(r)
       PROVE  Phases'
  BY <1>18, <1>0 DEF WebhookTypeOK, resolveApply, applyOnSuccess, resolveRelease
<1>19. CASE \/ confirmFunding \/ reverseFundingCheck \/ reverseFundingPost
            \/ closeCheck \/ closeUpdate \/ UNCHANGED vars
  BY <1>19, <1>1
     DEF confirmFunding, reverseFundingCheck, reverseFundingPost, closeCheck,
         closeUpdate, vars
<1> QED
  BY <1>2, <1>3, <1>4, <1>5, <1>6, <1>7, <1>8, <1>9, <1>10, <1>11, <1>12, <1>13,
     <1>14, <1>15, <1>16, <1>17, <1>18, <1>19
     DEF Next, workerStep, webhookStep

\* A leg is in one of its operation's references from its check on.
LEMMA InitLegs == Init => LegsTogether
BY DEF Init, LegsTogether, NoLeg

\* Only the caller's steps touch a leg's operation.
LEMMA NextLegs ==
    ASSUME Inv, LegsTogether, [Next]_vars
    PROVE  LegsTogether'
<1>0. RequestTypeOK
  BY DEF Inv, TypeOK
<1> USE DEF requestVars
<1>1. CASE UNCHANGED <<request, data>>
  BY <1>1 DEF LegsTogether
<1>2. ASSUME NEW S \in SUBSET Refs, postContributorsRefund(S)
      PROVE  LegsTogether'
  BY <1>2, <1>0 DEF RequestTypeOK, postContributorsRefund, LegsTogether
<1>3. ASSUME NEW S \in SUBSET Refs, claimLock(S)
      PROVE  LegsTogether'
  BY <1>3, <1>0 DEF RequestTypeOK, claimLock, LegsTogether, NoLeg
<1>4. ASSUME NEW r \in Refs, postFixedAmountDisbursement(r)
      PROVE  LegsTogether'
  BY <1>4, <1>0 DEF RequestTypeOK, postFixedAmountDisbursement, LegsTogether
<1>5. ASSUME NEW r \in Refs, enqueue(r) \/ dropLeg(r)
      PROVE  LegsTogether'
  BY <1>5, <1>0 DEF RequestTypeOK, enqueue, dropLeg, LegsTogether
<1>6. ASSUME NEW r \in Refs,
             \/ workerStep(r) \/ dbFailure(r) \/ workerCrash(r) \/ retryFailedJob(r)
             \/ settle(r) \/ webhookStep(r)
      PROVE  UNCHANGED <<request, data>>
  BY <1>6
     DEF workerStep, startJob, checkBalance, checkExisting, post, callSuccess,
         callPending, callRejected, callTimeout, complete, reverse, releaseLock,
         clearLock, apply, dbFailure, workerCrash, retryFailedJob, settle, webhookStep,
         resolveRead, resolveLedger, resolveApply, resolveRelease
<1>7. CASE \/ confirmFunding \/ reverseFundingCheck \/ reverseFundingPost
           \/ closeCheck \/ closeUpdate \/ UNCHANGED vars
  BY <1>7, <1>1
     DEF confirmFunding, reverseFundingCheck, reverseFundingPost, closeCheck,
         closeUpdate, vars
<1> QED
  BY <1>1, <1>2, <1>3, <1>4, <1>5, <1>6, <1>7 DEF Next

\* Who holds a share of the lock has a job or is about to have one, and is in its
\* operation.
LEMMA HolderHasLegs ==
    ASSUME Inv, Phases, LegsTogether, NEW r \in Refs, Holding(r)
    PROVE  request[r] # "none" /\ r \in data[r].legs
<1>1. request[r] # "none"
  <2>1. RequestTypeOK /\ WorkerTypeOK /\ WebhookTypeOK
    BY DEF Inv, TypeOK
  <2>2. WorkerPhase(r) /\ HandlerPhase(r)
    BY DEF Phases
  <2> QED
    BY <2>1, <2>2
       DEF RequestTypeOK, WorkerTypeOK, WebhookTypeOK, WorkerPhase, HandlerPhase, Holding
<1> QED
  BY <1>1 DEF LegsTogether

\* What the lock covers is finite.
LEMMA HoldersFinite == IsFiniteSet(Holders) /\ Cardinality(Holders) \in Nat
BY LegSets DEF Holders

\* A step that leaves the lock alone and gives nobody a share of it.
LEMMA LockKept ==
    ASSUME Inv, LockCovers, UNCHANGED <<pendingOperation, legCount>>,
           \A r \in Refs : Holding(r)' => Holding(r) /\ data'[r].legs = data[r].legs,
           Faults = {} => \A r \in Refs : Holding(r) => Holding(r)',
           \A r \in Refs : Clearing(r)' => Clearing(r),
           \A r \in Refs : pc'[r] \in {"release", "clear"} => end'[r] # "throw"
    PROVE  LockCovers'
<1>1. Holders' \subseteq Holders
  BY DEF Holders
<1>2. Faults = {} => Holders' = Holders
  BY DEF Holders
<1>3. Cardinality(Holders') <= Cardinality(Holders) /\ Cardinality(Holders') \in Nat
  BY <1>1, HoldersFinite, FS_Subset, FS_CardinalityType
<1>4. legCount \in Nat
  BY DEF Inv, TypeOK, PotTypeOK
<1>5. legCount' >= Cardinality(Holders')
  BY <1>3, <1>4, HoldersFinite DEF LockCovers
<1>6. OneOperationInFlight'
  BY DEF LockCovers, OneOperationInFlight
<1> QED
  BY <1>2, <1>5, <1>6 DEF LockCovers

\* decrementPendingOperationLeg gives one share back; who gave the last one back goes
\* on to clear the lock.
LEMMA ShareReturned ==
    ASSUME Inv, LockCovers, NEW r \in Refs, Holding(r), ~Holding(r)',
           decrementLeg, UNCHANGED data,
           \A s \in Refs \ {r} : /\ Holding(s)' <=> Holding(s)
                                 /\ Clearing(s)' <=> Clearing(s),
           Clearing(r)' => DecrementedLegCount = 0,
           \A s \in Refs : pc'[s] \in {"release", "clear"} => end'[s] # "throw"
    PROVE  LockCovers'
<1>1. Holders' = Holders \ {r} /\ r \in Holders
  BY DEF Holders
<1>2. Cardinality(Holders') = Cardinality(Holders) - 1
  BY <1>1, HoldersFinite, FS_RemoveElement
<1>3. Cardinality(Holders') \in Nat
  BY <1>1, HoldersFinite, FS_RemoveElement, FS_CardinalityType
<1>4. legCount \in Nat
  BY DEF Inv, TypeOK, PotTypeOK
<1>5. legCount >= 1 /\ legCount' = legCount - 1
  BY <1>2, <1>3, <1>4, HoldersFinite DEF LockCovers, decrementLeg, DecrementedLegCount
<1>6. \A s \in Refs : ~Clearing(s)
  BY <1>4, <1>5 DEF LockCovers
<1>7. OneOperationInFlight'
  BY DEF LockCovers, OneOperationInFlight
<1>8. \A s \in Refs : Holding(s)' \/ Clearing(s)' => pendingOperation' # "none"
  BY <1>6 DEF LockCovers, decrementLeg
<1>9. \A s \in Refs : Clearing(s)' => s = r /\ legCount' = 0
  BY <1>6 DEF decrementLeg
<1>10. /\ legCount' >= Cardinality(Holders')
       /\ Faults = {} => legCount' = Cardinality(Holders')
  BY <1>2, <1>3, <1>4, <1>5, HoldersFinite DEF LockCovers
<1> QED
  BY <1>7, <1>8, <1>9, <1>10 DEF LockCovers

\* clearPendingOperation, once nobody holds a share.
LEMMA LockCleared ==
    ASSUME clearPendingOperation,
           \A s \in Refs : ~Holding(s)' /\ ~Clearing(s)',
           \A s \in Refs : pc'[s] \in {"release", "clear"} => end'[s] # "throw"
    PROVE  LockCovers'
<1>1. Holders' = {}
  BY DEF Holders
<1>2. Cardinality(Holders') = 0
  BY <1>1, FS_EmptySet
<1> QED
  BY <1>2 DEF LockCovers, OneOperationInFlight, clearPendingOperation

\* Who clears the lock is alone with it.
LEMMA ClearerAlone ==
    ASSUME Inv, LockCovers, NEW r \in Refs, Clearing(r)
    PROVE  \A s \in Refs : ~Holding(s) /\ (Clearing(s) => s = r)
<1>1. Cardinality(Holders) = 0
  BY HoldersFinite DEF LockCovers, Inv, TypeOK, PotTypeOK
<1>2. Holders = {}
  BY <1>1, HoldersFinite, FS_EmptySet
<1> QED
  BY <1>2 DEF Holders, LockCovers

\* The lock is free at first.
LEMMA InitLock == Init => LockCovers
<1> SUFFICES ASSUME Init PROVE LockCovers
  OBVIOUS
<1>1. \A r \in Refs : ~Holding(r) /\ ~Clearing(r)
  BY DEF Init, Holding, Clearing
<1>2. Holders = {}
  BY <1>1 DEF Holders
<1>3. Cardinality(Holders) = 0
  BY <1>2, FS_EmptySet
<1> QED
  BY <1>1, <1>3 DEF Init, LockCovers, OneOperationInFlight

\* Every step keeps the lock: a caller takes it when nobody has a share, a share is
\* given back once, and who clears it is alone with it.
LEMMA NextLock ==
    ASSUME KeepsLock, Inv, Phases, LegsTogether, LockCovers, [Next]_vars
    PROVE  LockCovers'
<1>0. /\ PotTypeOK /\ LedgerTypeOK /\ RequestTypeOK /\ WorkerTypeOK /\ ProviderTypeOK
      /\ WebhookTypeOK /\ SettlesOnlyPosted
  BY DEF Inv, TypeOK
<1>p. \A r \in Refs : WorkerPhase(r) /\ HandlerPhase(r)
  BY DEF Phases
<1>e. \A r \in Refs : pc[r] \in {"release", "clear"} => end[r] # "throw"
  BY DEF LockCovers
<1> USE DEF ledgerVars, requestVars, workerVars, providerVars, potVars
<1>1. CASE UNCHANGED <<pendingOperation, legCount, tx, request, data, job, pc, end, handler>>
  BY <1>1, <1>e, LockKept DEF Holding, Clearing
<1>2. ASSUME NEW S \in SUBSET Refs, postContributorsRefund(S)
      PROVE  LockCovers'
  <2>1. \A r \in S : request[r] = "none" /\ request'[r] = "checked"
    BY <1>2, <1>0 DEF RequestTypeOK, postContributorsRefund
  <2>2. \A r \in Refs \ S : request'[r] = request[r] /\ data'[r] = data[r]
    BY <1>2, <1>0 DEF RequestTypeOK, postContributorsRefund
  <2>3. UNCHANGED <<pendingOperation, legCount, tx, job, pc, end, handler>>
    BY <1>2 DEF postContributorsRefund
  <2>4. \A r \in Refs : Holding(r)' <=> Holding(r)
    BY <2>1, <2>2, <2>3 DEF Holding
  <2>5. \A r \in Refs : Clearing(r)' => Clearing(r)
    BY <2>1, <2>2, <2>3 DEF Clearing
  <2>6. \A r \in Refs : Holding(r)' => data'[r].legs = data[r].legs
    BY <2>1, <2>2, <2>4, HolderHasLegs
  <2> QED
    BY <2>3, <2>4, <2>5, <2>6, <1>e, LockKept
<1>3. ASSUME NEW S \in SUBSET Refs, claimLock(S)
      PROVE  LockCovers'
  <2>1. \A r \in S : request[r] = "checked" /\ data[r].legs = S
    BY <1>3 DEF claimLock
  <2>2. UNCHANGED <<tx, job, pc, end, handler>>
    BY <1>3 DEF claimLock
  <2>3. \A r \in S : ~Holding(r)
    BY <2>1, <1>0, <1>p
       DEF RequestTypeOK, WorkerTypeOK, WebhookTypeOK, Holding, WorkerPhase, HandlerPhase
  <2>4. CASE pendingOperation = "none"
    <3>1. \A r \in Refs : ~Holding(r) /\ ~Clearing(r)
      BY <2>4 DEF LockCovers
    <3>2. PICK first \in S :
            /\ pendingOperation' = data[first].kind
            /\ legCount' = Cardinality(S)
            /\ request' = [r \in Refs |-> IF r \in S THEN "claimed" ELSE request[r]]
            /\ data' = [r \in Refs |->
                   IF r \in S /\ data[r].isFanOutLeg
                   THEN [data[r] EXCEPT !.amount =
                           refundShares(S, first, balances["pot"])[r]]
                   ELSE data[r]]
      BY <1>3, <2>4 DEF claimLock
    <3>3. pendingOperation' # "none"
      BY <3>2, <1>0 DEF RequestTypeOK
    <3>4. \A r \in Refs : data'[r].legs = data[r].legs
      BY <3>2, <1>0 DEF RequestTypeOK
    <3>5. \A r \in Refs : (Holding(r)' <=> r \in S) /\ ~Clearing(r)'
      BY <3>1, <3>2, <2>2 DEF Holding, Clearing
    <3>6. Holders' = S
      BY <3>5 DEF Holders
    <3>7. legCount' = Cardinality(Holders') /\ Cardinality(Holders') \in Nat
      BY <3>2, <3>6, LegSets
    <3>8. OneOperationInFlight'
      BY <2>1, <3>4, <3>5 DEF OneOperationInFlight
    <3> QED
      BY <3>3, <3>5, <3>7, <3>8, <2>2, <1>e DEF LockCovers
  <2>5. CASE pendingOperation # "none"
    <3>1. /\ request' = [r \in Refs |-> IF r \in S THEN "none" ELSE request[r]]
          /\ data' = [r \in Refs |-> IF r \in S THEN NoLeg ELSE data[r]]
          /\ UNCHANGED <<pendingOperation, legCount>>
      BY <1>3, <2>5 DEF claimLock
    <3>2. \A r \in Refs : Holding(r)' <=> Holding(r)
      BY <3>1, <2>1, <2>2 DEF Holding
    <3>3. \A r \in Refs : Clearing(r)' => Clearing(r)
      BY <3>1, <2>2 DEF Clearing
    <3> QED
      BY <3>1, <3>2, <3>3, <2>2, <2>3, <1>e, LockKept
  <2> QED
    BY <2>4, <2>5
<1>4. ASSUME NEW r \in Refs, postFixedAmountDisbursement(r)
      PROVE  LockCovers'
  <2>1. request[r] = "none" /\ request' = [request EXCEPT ![r] = "checked"]
    BY <1>4 DEF postFixedAmountDisbursement
  <2>2. \A s \in Refs : s # r => data'[s] = data[s]
    BY <1>4, <1>0 DEF RequestTypeOK, postFixedAmountDisbursement
  <2>3. UNCHANGED <<pendingOperation, legCount, tx, job, pc, end, handler>>
    BY <1>4 DEF postFixedAmountDisbursement
  <2>4. \A s \in Refs : Holding(s)' <=> Holding(s)
    BY <2>1, <2>3, <1>0 DEF RequestTypeOK, Holding
  <2>5. \A s \in Refs : Clearing(s)' => Clearing(s)
    BY <2>1, <2>3, <1>0 DEF RequestTypeOK, Clearing
  <2>6. \A s \in Refs : Holding(s)' => data'[s].legs = data[s].legs
    BY <2>1, <2>2, <2>4, HolderHasLegs
  <2> QED
    BY <2>3, <2>4, <2>5, <2>6, <1>e, LockKept
<1>5. ASSUME NEW r \in Refs, enqueue(r)
      PROVE  LockCovers'
  <2>1. /\ UNCHANGED <<pendingOperation, legCount, tx, data, pc, end, handler>>
        /\ request[r] = "claimed"
    BY <1>5 DEF enqueue
  <2>2. \A s \in Refs : Clearing(s)' => Clearing(s)
    BY <1>5, <1>0 DEF RequestTypeOK, enqueue, Clearing
  <2>3. \A s \in Refs : Holding(s)' => Holding(s)
    BY <1>5, <1>0 DEF RequestTypeOK, WorkerTypeOK, enqueue, Holding
  <2>4. ASSUME Faults = {}, NEW s \in Refs, Holding(s)
        PROVE  Holding(s)'
    <3>1. request' = [request EXCEPT ![r] = "enqueued"] /\ job' = [job EXCEPT ![r] = "waiting"]
      BY <1>5, <2>4 DEF enqueue, Fault
    <3> QED
      BY <3>1, <2>1, <2>4, <1>0 DEF RequestTypeOK, WorkerTypeOK, Holding
  <2> QED
    BY <2>1, <2>2, <2>3, <2>4, <1>e, LockKept
<1>6. ASSUME NEW r \in Refs, dropLeg(r)
      PROVE  LockCovers'
  <2>0. UNCHANGED <<data, tx, job, pc, end, handler>>
    BY <1>6 DEF dropLeg
  <2>1. CASE request[r] = "claimed"
    <3>1. /\ decrementLeg
          /\ request' = [request EXCEPT ![r] =
                 IF DecrementedLegCount = 0 THEN "clear" ELSE "dropped"]
      BY <1>6, <2>1 DEF dropLeg
    <3>2. Holding(r) /\ job[r] = "none" /\ handler[r] = "idle" /\ pc[r] = "idle"
          /\ tx[r] = "none"
      BY <2>1, <1>0, <1>p
         DEF Holding, WorkerPhase, HandlerPhase, WorkerTypeOK, WebhookTypeOK
    <3>3. ~Holding(r)' /\ (Clearing(r)' => DecrementedLegCount = 0)
      BY <3>1, <3>2, <2>0, <1>0 DEF Holding, Clearing, RequestTypeOK
    <3>4. \A s \in Refs \ {r} : (Holding(s)' <=> Holding(s)) /\ (Clearing(s)' <=> Clearing(s))
      BY <3>1, <2>0, <1>0 DEF Holding, Clearing, RequestTypeOK
    <3> QED
      BY <3>1, <3>2, <3>3, <3>4, <2>0, <1>e, ShareReturned
  <2>2. CASE request[r] = "clear"
    <3>1. clearPendingOperation /\ request' = [request EXCEPT ![r] = "dropped"]
      BY <1>6, <2>2 DEF dropLeg
    <3>2. Clearing(r) /\ handler[r] = "idle" /\ pc[r] = "idle"
      BY <2>2, <1>0, <1>p
         DEF Clearing, WorkerPhase, HandlerPhase, WorkerTypeOK, WebhookTypeOK
    <3>3. \A s \in Refs : ~Holding(s) /\ (Clearing(s) => s = r)
      BY <3>2, ClearerAlone
    <3>4. \A s \in Refs : ~Holding(s)' /\ ~Clearing(s)'
      BY <3>1, <3>2, <3>3, <2>0, <1>0 DEF Holding, Clearing, RequestTypeOK
    <3> QED
      BY <3>1, <3>4, <2>0, <1>e, LockCleared
  <2> QED
    BY <1>6, <2>1, <2>2 DEF dropLeg
<1>7. ASSUME NEW r \in Refs, UNCHANGED <<pendingOperation, legCount, request, data>>,
             \A s \in Refs \ {r} : /\ tx'[s] = tx[s] /\ job'[s] = job[s]
                                   /\ pc'[s] = pc[s] /\ end'[s] = end[s]
                                   /\ handler'[s] = handler[s],
             Holding(r)' => Holding(r), Faults = {} /\ Holding(r) => Holding(r)',
             Clearing(r)' => Clearing(r),
             pc'[r] \in {"release", "clear"} => end'[r] # "throw"
      PROVE  LockCovers'
  <2>1. \A s \in Refs \ {r} : (Holding(s)' <=> Holding(s)) /\ (Clearing(s)' <=> Clearing(s))
    BY <1>7 DEF Holding, Clearing
  <2>2. \A s \in Refs : pc'[s] \in {"release", "clear"} => end'[s] # "throw"
    BY <1>7, <1>e
  <2> QED
    BY <1>7, <2>1, <2>2, LockKept
<1>8. ASSUME NEW r \in Refs, startJob(r) \/ checkBalance(r)
      PROVE  LockCovers'
  BY <1>8, <1>7, <1>0, <1>p
     DEF WorkerTypeOK, startJob, checkBalance, Goto, Holding, Clearing, KeepsLock, Fault,
         WorkerPhase
<1>9. ASSUME NEW r \in Refs, checkExisting(r)
      PROVE  LockCovers'
  BY <1>9, <1>7, <1>0, <1>p
     DEF WorkerTypeOK, checkExisting, Goto, Finish, JobAfter, Fault, Holding, Clearing,
         WorkerPhase
<1>10. ASSUME NEW r \in Refs, post(r)
       PROVE  LockCovers'
  BY <1>10, <1>7, <1>0, <1>p
     DEF WorkerTypeOK, LedgerTypeOK, post, postTransaction, Goto, Fault, KeepsLock,
         Holding, Clearing, WorkerPhase
<1>11. ASSUME NEW r \in Refs, callSuccess(r) \/ callPending(r) \/ callRejected(r)
       PROVE  LockCovers'
  BY <1>11, <1>7, <1>0, <1>p
     DEF WorkerTypeOK, callSuccess, callPending, callRejected, Goto, Finish, JobAfter,
         Holding, Clearing, WorkerPhase
<1>12. ASSUME NEW r \in Refs,
              callTimeout(r) \/ dbFailure(r) \/ workerCrash(r) \/ retryFailedJob(r)
       PROVE  FALSE
  BY <1>12
     DEF KeepsLock, callTimeout, dbFailure, workerCrash, retryFailedJob, Fault
<1>13. ASSUME NEW r \in Refs, complete(r) \/ reverse(r)
       PROVE  LockCovers'
  BY <1>13, <1>7, <1>0, <1>p
     DEF WorkerTypeOK, LedgerTypeOK, complete, reverse, markCompleted,
         reverseTransaction, Goto, Holding, Clearing, WorkerPhase
<1>14. ASSUME NEW r \in Refs, AfterRelease(r), pc[r] \in {"release", "clear"},
              UNCHANGED <<ledgerVars, requestVars, providerVars, handler>>
       PROVE  /\ ~Holding(r)' /\ ~Clearing(r)'
              /\ \A s \in Refs \ {r} : /\ Holding(s)' <=> Holding(s)
                                       /\ Clearing(s)' <=> Clearing(s)
              /\ \A s \in Refs : pc'[s] \in {"release", "clear"} => end'[s] # "throw"
  <2>1. /\ job[r] = "active" /\ request[r] = "enqueued" /\ handler[r] = "idle"
        /\ tx[r] # "processing" /\ end[r] # "throw"
    BY <1>14, <1>0, <1>p, <1>e
       DEF WorkerTypeOK, RequestTypeOK, WebhookTypeOK, WorkerPhase, HandlerPhase
  <2>2. /\ pc'[r] \in {"idle", "apply"} /\ job'[r] \in {"active", "completed", "failed"}
        /\ job'[r] = "active" => pc'[r] = "apply"
    BY <1>14, <2>1, <1>0 DEF WorkerTypeOK, AfterRelease, Goto, Finish, JobAfter
  <2>3. \A s \in Refs \ {r} : job'[s] = job[s] /\ pc'[s] = pc[s] /\ end'[s] = end[s]
    BY <1>14, <1>0 DEF WorkerTypeOK, AfterRelease, Goto, Finish
  <2> QED
    BY <1>14, <2>1, <2>2, <2>3, <1>e DEF Holding, Clearing
<1>15. ASSUME NEW r \in Refs, releaseLock(r)
       PROVE  LockCovers'
  <2>0. UNCHANGED <<ledgerVars, requestVars, providerVars, handler>> /\ pc[r] = "release"
    BY <1>15 DEF releaseLock
  <2>1. /\ job[r] = "active" /\ request[r] = "enqueued" /\ handler[r] = "idle"
        /\ tx[r] # "processing" /\ end[r] # "throw" /\ Holding(r)
    BY <2>0, <1>0, <1>p, <1>e
       DEF WorkerTypeOK, RequestTypeOK, WebhookTypeOK, WorkerPhase, HandlerPhase, Holding
  <2>2. CASE data[r].isFanOutLeg /\ DecrementedLegCount = 0
    <3>1. decrementLeg /\ Goto(r, "clear", end[r])
      BY <1>15, <2>2 DEF releaseLock
    <3>2. /\ pc'[r] = "clear" /\ job' = job /\ end' = end
          /\ \A s \in Refs \ {r} : pc'[s] = pc[s]
      BY <3>1, <1>0 DEF WorkerTypeOK, Goto
    <3>3. ~Holding(r)'
      BY <2>0, <2>1, <3>2 DEF Holding
    <3>4. \A s \in Refs \ {r} : (Holding(s)' <=> Holding(s)) /\ (Clearing(s)' <=> Clearing(s))
      BY <2>0, <3>2 DEF Holding, Clearing
    <3>5. \A s \in Refs : pc'[s] \in {"release", "clear"} => end'[s] # "throw"
      BY <2>0, <2>1, <3>2, <1>e
    <3> QED
      BY <3>1, <3>3, <3>4, <3>5, <2>0, <2>1, <2>2, ShareReturned
  <2>3. CASE data[r].isFanOutLeg /\ DecrementedLegCount # 0
    <3>1. decrementLeg /\ AfterRelease(r)
      BY <1>15, <2>3 DEF releaseLock
    <3> QED
      BY <3>1, <1>14, <2>0, <2>1, ShareReturned
  <2>4. CASE ~data[r].isFanOutLeg
    <3>1. clearPendingOperation /\ AfterRelease(r)
      BY <1>15, <2>4 DEF releaseLock
    <3>2. data[r].legs = {r}
      BY <2>1, <2>4 DEF LegsTogether
    <3>3. \A s \in Refs : Holding(s) => s = r
      BY <3>2, <2>1, HolderHasLegs DEF LockCovers, OneOperationInFlight
    <3>4. \A s \in Refs : ~Clearing(s)
      BY <2>1, ClearerAlone
    <3>5. \A s \in Refs : ~Holding(s)' /\ ~Clearing(s)'
      BY <3>1, <3>3, <3>4, <1>14, <2>0
    <3> QED
      BY <3>1, <3>5, <1>14, <2>0, LockCleared
  <2> QED
    BY <2>2, <2>3, <2>4
<1>16. ASSUME NEW r \in Refs, clearLock(r)
       PROVE  LockCovers'
  <2>1. /\ UNCHANGED <<ledgerVars, requestVars, providerVars, handler>> /\ pc[r] = "clear"
        /\ clearPendingOperation /\ AfterRelease(r)
    BY <1>16 DEF clearLock
  <2>2. \A s \in Refs : ~Holding(s) /\ (Clearing(s) => s = r)
    BY <2>1, ClearerAlone DEF Clearing
  <2>3. \A s \in Refs : ~Holding(s)' /\ ~Clearing(s)'
    BY <2>1, <2>2, <1>14
  <2> QED
    BY <2>1, <2>3, <1>14, LockCleared
<1>17. ASSUME NEW r \in Refs, apply(r)
       PROVE  LockCovers'
  BY <1>17, <1>7, <1>0, <1>p
     DEF WorkerTypeOK, WebhookTypeOK, apply, applyOnSuccess, Finish, JobAfter, Holding,
         Clearing, WorkerPhase, HandlerPhase
<1>18. ASSUME NEW r \in Refs, resolveRead(r) \/ resolveLedger(r) \/ resolveApply(r)
       PROVE  LockCovers'
  BY <1>18, <1>7, <1>0, <1>p, <1>e
     DEF LedgerTypeOK, WebhookTypeOK, resolveRead, resolveLedger, resolveApply,
         markCompleted, reverseTransaction, applyOnSuccess, Holding, Clearing,
         WorkerPhase, HandlerPhase
<1>19. ASSUME NEW r \in Refs, resolveRelease(r)
       PROVE  LockCovers'
  <2>0. UNCHANGED <<data, request, tx, job, pc, end>>
    BY <1>19 DEF resolveRelease
  <2>1. CASE handler[r] = "decrement"
    <3>1. /\ decrementLeg
          /\ handler' = [handler EXCEPT ![r] =
                 IF DecrementedLegCount = 0 THEN "clear" ELSE "idle"]
      BY <1>19, <2>1 DEF resolveRelease
    <3>2. /\ Holding(r) /\ job[r] = "completed" /\ pc[r] = "idle"
          /\ tx[r] # "processing" /\ request[r] = "enqueued"
      BY <2>1, <1>0, <1>p
         DEF Holding, WorkerPhase, HandlerPhase, WorkerTypeOK, WebhookTypeOK, RequestTypeOK
    <3>3. ~Holding(r)' /\ (Clearing(r)' => DecrementedLegCount = 0)
      BY <3>1, <3>2, <2>0, <1>0 DEF Holding, Clearing, WebhookTypeOK
    <3>4. \A s \in Refs \ {r} : (Holding(s)' <=> Holding(s)) /\ (Clearing(s)' <=> Clearing(s))
      BY <3>1, <2>0, <1>0 DEF Holding, Clearing, WebhookTypeOK
    <3> QED
      BY <3>1, <3>2, <3>3, <3>4, <2>0, <1>e, ShareReturned
  <2>2. CASE handler[r] = "clear"
    <3>1. clearPendingOperation /\ handler' = [handler EXCEPT ![r] = "idle"]
      BY <1>19, <2>2 DEF resolveRelease
    <3>2. Clearing(r) /\ pc[r] = "idle" /\ request[r] = "enqueued"
      BY <2>2, <1>0, <1>p
         DEF Clearing, WorkerPhase, HandlerPhase, WorkerTypeOK, WebhookTypeOK, RequestTypeOK
    <3>3. \A s \in Refs : ~Holding(s) /\ (Clearing(s) => s = r)
      BY <3>2, ClearerAlone
    <3>4. \A s \in Refs : ~Holding(s)' /\ ~Clearing(s)'
      BY <3>1, <3>2, <3>3, <2>0, <1>0 DEF Holding, Clearing, WebhookTypeOK
    <3> QED
      BY <3>1, <3>4, <2>0, <1>e, LockCleared
  <2> QED
    BY <1>19, <2>1, <2>2 DEF resolveRelease
<1>20. CASE \/ confirmFunding \/ reverseFundingCheck \/ reverseFundingPost
            \/ closeCheck \/ closeUpdate \/ (\E r \in Refs : settle(r)) \/ UNCHANGED vars
  BY <1>20, <1>1
     DEF confirmFunding, reverseFundingCheck, reverseFundingPost, closeCheck,
         closeUpdate, settle, vars
<1> QED
  BY <1>2, <1>3, <1>4, <1>5, <1>6, <1>8, <1>9, <1>10, <1>11, <1>12, <1>13, <1>15,
     <1>16, <1>17, <1>18, <1>19, <1>20
     DEF Next, workerStep, webhookStep

\* Who may lose what: the assumptions on the failures are ordered.
LEMMA FaultOrder ==
    /\ KeepsLock => RestartsClean
    /\ Faults = {} => KeepsLock
BY DEF KeepsLock, RestartsClean

\* As long as no job runs again after its transfer may have executed, a config
\* advances once per transfer, and only for one that executed, whoever settles it
\* (applyOnSuccess, called by the worker and by resolvePendingTransfer).
THEOREM AppliedOnce ==
    ASSUME RestartsClean
    PROVE  Spec => []AppliedOncePerTransfer
<1>1. Inv /\ Phases /\ [Next]_vars => Phases'
  BY NextPhases
<1>2. Phases => AppliedOncePerTransfer
  BY DEF Phases, AppliedAtEnd, HandlerPhase, AppliedOncePerTransfer
<1> QED
  BY <1>1, <1>2, InitPhases, Invariance, PTL DEF Spec

\* The phases of every leg and the lock, together, for failures that keep the lock.
LEMMA LockInvariance ==
    ASSUME KeepsLock
    PROVE  Spec => [](Phases /\ LockCovers)
<1>1. Init => Phases /\ LegsTogether /\ LockCovers
  BY InitPhases, InitLegs, InitLock
<1>2. Inv /\ (Phases /\ LegsTogether /\ LockCovers) /\ [Next]_vars
        => (Phases /\ LegsTogether /\ LockCovers)'
  BY NextPhases, NextLegs, NextLock, FaultOrder
<1> QED
  BY <1>1, <1>2, Invariance, PTL DEF Spec

\* Without failures the lock counts exactly the unresolved legs and is held while
\* there is one, for any number of legs and any interleaving of callers, workers and
\* webhooks (decrementPendingOperationLeg and its callers).
THEOREM LockAccurate ==
    ASSUME Faults = {}
    PROVE  Spec => []LockCountsUnresolvedLegs
<1>1. LockCovers => LockCountsUnresolvedLegs
  BY DEF LockCovers, LockCountsUnresolvedLegs, Holders
<1>2. KeepsLock
  BY FaultOrder
<1> QED
  BY <1>1, <1>2, LockInvariance, PTL

\* Two operations are never in flight on the same pot, even if a job cannot be
\* enqueued or a bank lookup fails (the conditional UPDATE of pendingOperation).
THEOREM OneAtATime ==
    ASSUME KeepsLock
    PROVE  Spec => []OneOperationInFlight
<1>1. LockCovers => OneOperationInFlight
  BY DEF LockCovers
<1> QED
  BY <1>1, LockInvariance, PTL

\* With the same failures, neither close() nor applyOnSuccess closes a pot that has an
\* unresolved disbursement (the WHERE clauses of both updates).
THEOREM ClosedSettled ==
    ASSUME KeepsLock
    PROVE  Spec => ClosesOnlyWhenSettled
<1> DEFINE Settled == status = "open" /\ status' = "closed" =>
                          \A r \in Refs : tx[r] # "processing"
<1>1. LockCovers /\ [Next]_vars => [Settled]_vars
  <2> SUFFICES ASSUME LockCovers, Next, status = "open", status' = "closed"
               PROVE  \A r \in Refs : tx[r] # "processing"
    OBVIOUS
  <2>1. pendingOperation = "none"
    <3> USE DEF potVars
    <3>1. CASE \/ confirmFunding \/ reverseFundingCheck \/ reverseFundingPost
               \/ closeCheck \/ closeUpdate
      BY <3>1
         DEF confirmFunding, reverseFundingCheck, reverseFundingPost, closeCheck, closeUpdate
    <3>2. ASSUME NEW S \in SUBSET Refs, postContributorsRefund(S) \/ claimLock(S)
          PROVE  FALSE
      BY <3>2 DEF postContributorsRefund, claimLock
    <3>3. ASSUME NEW r \in Refs,
                 \/ postFixedAmountDisbursement(r) \/ enqueue(r) \/ dropLeg(r)
                 \/ dbFailure(r) \/ workerCrash(r) \/ retryFailedJob(r) \/ settle(r)
          PROVE  FALSE
      BY <3>3
         DEF postFixedAmountDisbursement, enqueue, dropLeg, decrementLeg,
             clearPendingOperation, dbFailure, workerCrash, retryFailedJob, settle
    <3>4. ASSUME NEW r \in Refs, workerStep(r) \/ webhookStep(r)
          PROVE  pendingOperation = "none"
      BY <3>4
         DEF workerStep, startJob, checkBalance, checkExisting, post, callSuccess,
             callPending, callRejected, callTimeout, complete, reverse, releaseLock,
             clearLock, apply, webhookStep, resolveRead, resolveLedger, resolveApply,
             resolveRelease, applyOnSuccess, decrementLeg, clearPendingOperation
    <3> QED
      BY <3>1, <3>2, <3>3, <3>4 DEF Next
  <2> QED
    BY <2>1 DEF LockCovers, Holding
<1>2. Spec => []LockCovers
  BY LockInvariance, PTL
<1> QED
  BY <1>1, <1>2, PTL DEF Spec, ClosesOnlyWhenSettled
-----------------------------------------------------------------------------
(* What a pot promises *)

\* A transaction reads 'reversed' exactly if its reversal is posted.
ReversedMarked == \A r \in Refs : tx[r] = "reversed" <=> r \in reversals

\* What is known of the legs, the lock and the provider when no failure but a failing
\* lookup or queue is admitted.
Promised ==
    Inv /\ EnqueuedFirst /\ Phases /\ LegsTogether /\ LockCovers /\ CalledOnce /\ ReversedMarked

\* Nothing is reversed at first.
LEMMA InitReversed == Init => ReversedMarked
BY DEF Init, ReversedMarked

\* Only a transaction that is processing is completed or reversed.
LEMMA NextReversed ==
    ASSUME RestartsClean, Inv, Phases, ReversedMarked, [Next]_vars
    PROVE  ReversedMarked'
<1>0. LedgerTypeOK /\ SettlesOnlyPosted
  BY DEF Inv, TypeOK
<1> USE <1>0 DEF ReversedMarked, LedgerTypeOK
<1>1. CASE UNCHANGED <<tx, reversals>>
  BY <1>1
<1>2. ASSUME NEW r \in Refs, post(r)
      PROVE  ReversedMarked'
  BY <1>2 DEF post, postTransaction, SettlesOnlyPosted, ledgerVars
<1>3. ASSUME NEW r \in Refs, complete(r) \/ reverse(r)
      PROVE  ReversedMarked'
  BY <1>3 DEF complete, reverse, markCompleted, reverseTransaction, Phases, WorkerPhase
<1>4. ASSUME NEW r \in Refs, resolveLedger(r)
      PROVE  ReversedMarked'
  BY <1>4 DEF resolveLedger, markCompleted, reverseTransaction, Phases, HandlerPhase
<1>5. ASSUME NEW r \in Refs,
             \/ startJob(r) \/ checkBalance(r) \/ checkExisting(r) \/ callSuccess(r)
             \/ callPending(r) \/ callRejected(r) \/ callTimeout(r) \/ releaseLock(r)
             \/ clearLock(r) \/ apply(r) \/ dbFailure(r) \/ workerCrash(r)
             \/ retryFailedJob(r) \/ settle(r) \/ resolveRead(r) \/ resolveApply(r)
             \/ resolveRelease(r) \/ postFixedAmountDisbursement(r) \/ enqueue(r)
             \/ dropLeg(r)
      PROVE  UNCHANGED <<tx, reversals>>
  BY <1>5
     DEF startJob, checkBalance, checkExisting, callSuccess, callPending, callRejected,
         callTimeout, releaseLock, clearLock, apply, dbFailure, workerCrash,
         retryFailedJob, settle, resolveRead, resolveApply, resolveRelease,
         postFixedAmountDisbursement, enqueue, dropLeg, ledgerVars
<1>6. ASSUME NEW S \in SUBSET Refs, postContributorsRefund(S) \/ claimLock(S)
      PROVE  UNCHANGED <<tx, reversals>>
  BY <1>6 DEF postContributorsRefund, claimLock, ledgerVars
<1>7. CASE \/ confirmFunding \/ reverseFundingCheck \/ reverseFundingPost
           \/ closeCheck \/ closeUpdate \/ UNCHANGED vars
  BY <1>7
     DEF confirmFunding, reverseFundingCheck, reverseFundingPost, closeCheck,
         closeUpdate, vars, ledgerVars
<1> QED
  BY <1>1, <1>2, <1>3, <1>4, <1>5, <1>6, <1>7 DEF Next, workerStep, webhookStep

\* A leg that is not touched keeps its outcome, its cost and its share of the lock.
Untouched(r) ==
    /\ Outcome(r)' = Outcome(r)
    /\ Cost(r)' = Cost(r)
    /\ Holding(r)' <=> Holding(r)

\* What a leg's outcome, cost and share are made of.
LEMMA Untouching ==
    ASSUME NEW r \in Refs,
           request'[r] = request[r], data'[r] = data[r], job'[r] = job[r], pc'[r] = pc[r],
           tx'[r] = tx[r], handler'[r] = handler[r], nomba'[r] = nomba[r]
    PROVE  Untouched(r)
BY DEF Untouched, Outcome, Cost, Holding

\* The step leaves the pot and every leg as they are.
LEMMA NothingMoves ==
    ASSUME balances'["pot"] = balances["pot"], \A r \in Refs : Untouched(r)
    PROVE  [W!Next]_(W!vars)
BY DEF Untouched, W!vars

\* What the step does to one leg is what the pot promises of it, the others being left
\* alone.
LEMMA OneLegMoves ==
    ASSUME NEW r \in Refs, \A s \in Refs \ {r} : Untouched(s), Cost(r)' = Cost(r),
           \/ /\ Outcome(r) = "due" /\ Outcome(r)' = "sent" /\ (Holding(r)' <=> Holding(r))
              /\ balances["pot"] >= Cost(r)
              /\ balances'["pot"] = balances["pot"] - Cost(r)
           \/ /\ Outcome(r) = "sent" /\ Outcome(r)' = "paid" /\ (Holding(r)' <=> Holding(r))
              /\ balances'["pot"] = balances["pot"]
           \/ /\ Outcome(r) = "sent" /\ Outcome(r)' = "returned" /\ (Holding(r)' <=> Holding(r))
              /\ balances'["pot"] = balances["pot"] + Cost(r)
           \/ /\ Outcome(r) \in {"paid", "returned"} /\ Outcome(r)' = Outcome(r)
              /\ Holding(r) /\ ~Holding(r)' /\ balances'["pot"] = balances["pot"]
    PROVE  W!Next
<1> DEFINE leg == [s \in Refs |-> Outcome(s)]
           cost == [s \in Refs |-> Cost(s)]
           operation == {s \in Refs : Holding(s)}
<1>1. leg' = [leg EXCEPT ![r] = Outcome(r)'] /\ cost' = cost
  BY DEF Untouched
<1>2. (Holding(r)' <=> Holding(r)) => operation' = operation
  BY DEF Untouched
<1>3. Holding(r) /\ ~Holding(r)' => r \in operation /\ operation' = operation \ {r}
  BY DEF Untouched
<1>4. leg[r] = Outcome(r) /\ cost[r] = Cost(r)
  OBVIOUS
<1>5. CASE Outcome(r) = "due" /\ Outcome(r)' = "sent"
  <2>1. W!Withdraw(r)
    BY <1>1, <1>2, <1>4, <1>5 DEF W!Withdraw
  <2> QED
    BY <2>1 DEF W!Next
<1>6. CASE Outcome(r) = "sent" /\ Outcome(r)' = "paid"
  <2>1. W!Pay(r)
    BY <1>1, <1>2, <1>4, <1>6 DEF W!Pay
  <2> QED
    BY <2>1 DEF W!Next
<1>7. CASE Outcome(r) = "sent" /\ Outcome(r)' = "returned"
  <2>1. W!GiveBack(r)
    BY <1>1, <1>2, <1>4, <1>7 DEF W!GiveBack
  <2> QED
    BY <2>1 DEF W!Next
<1>8. CASE Outcome(r) \in {"paid", "returned"} /\ Outcome(r)' = Outcome(r)
  <2>1. Holding(r) /\ ~Holding(r)' /\ balances'["pot"] = balances["pot"]
    BY <1>8
  <2>2. leg' = leg
    BY <1>1, <1>4, <1>8
  <2>3. W!Release(r)
    BY <1>1, <1>3, <1>4, <1>8, <2>1, <2>2 DEF W!Release
  <2> QED
    BY <2>3 DEF W!Next
<1> QED
  BY <1>5, <1>6, <1>7, <1>8

\* Legs that give their share of the lock back and were never posted.
LEMMA LegsDeclined ==
    ASSUME NEW S \in SUBSET Refs, \A s \in Refs \ S : Untouched(s),
           \A s \in S : /\ Outcome(s) = "due" /\ Outcome(s)' = "declined"
                        /\ Cost(s)' = Cost(s) /\ Holding(s) /\ ~Holding(s)',
           balances'["pot"] = balances["pot"]
    PROVE  W!Next
<1> DEFINE leg == [s \in Refs |-> Outcome(s)]
           cost == [s \in Refs |-> Cost(s)]
           operation == {s \in Refs : Holding(s)}
<1>1. leg' = [s \in Refs |-> IF s \in S THEN "declined" ELSE leg[s]]
  BY DEF Untouched
<1>2. cost' = cost /\ operation' = operation \ S /\ S \subseteq operation
  BY DEF Untouched
<1>3. \A s \in S : leg[s] = "due"
  OBVIOUS
<1>4. W!Decline(S)
  BY <1>1, <1>2, <1>3 DEF W!Decline
<1> QED
  BY <1>4 DEF W!Next

\* The claim of the lock starts an operation: nobody else has a share of it then.
LEMMA OperationStarts ==
    ASSUME NEW S \in SUBSET Refs, S # {}, \A s \in Refs \ S : Untouched(s),
           \A s \in Refs : ~Holding(s),
           \A s \in S : /\ Outcome(s) = "new" /\ Outcome(s)' = "due"
                        /\ Cost(s)' \in Nat /\ Holding(s)',
           \A s \in Refs : Cost(s) \in Nat,
           balances'["pot"] = balances["pot"]
    PROVE  W!Next
<1> DEFINE leg == [s \in Refs |-> Outcome(s)]
           cost == [s \in Refs |-> Cost(s)]
           operation == {s \in Refs : Holding(s)}
<1>1. leg' = [s \in Refs |-> IF s \in S THEN "due" ELSE leg[s]]
  BY DEF Untouched
<1>2. operation = {} /\ operation' = S
  BY DEF Untouched
<1>3. cost' \in [Refs -> Nat] /\ \A s \in Refs \ S : cost'[s] = cost[s]
  BY DEF Untouched
<1>4. \A s \in S : leg[s] = "new"
  OBVIOUS
<1>5. W!Start(S)
  BY <1>1, <1>2, <1>3, <1>4 DEF W!Start
<1> QED
  BY <1>5 DEF W!Next

\* Contributions that arrive or are taken back.
LEMMA PotMoves ==
    ASSUME \A r \in Refs : Untouched(r),
           \/ balances'["pot"] = balances["pot"] + IntendedAmount
           \/ /\ balances["pot"] >= IntendedAmount
              /\ balances'["pot"] = balances["pot"] - IntendedAmount
    PROVE  W!Next
<1>1. /\ UNCHANGED [s \in Refs |-> Outcome(s)]
      /\ UNCHANGED [s \in Refs |-> Cost(s)]
      /\ UNCHANGED {s \in Refs : Holding(s)}
  BY DEF Untouched
<1>2. W!Contribute \/ W!TakeBack
  BY <1>1 DEF W!Contribute, W!TakeBack
<1> QED
  BY <1>2 DEF W!Next

\* Money that comes in, or goes back to who paid it in, is no leg's; a pot is closed
\* without any of it moving.
LEMMA FundingPromised ==
    ASSUME Promised, \/ confirmFunding \/ reverseFundingCheck \/ reverseFundingPost
                     \/ closeCheck \/ closeUpdate \/ UNCHANGED vars
    PROVE  [W!Next]_(W!vars)
<1>0. balances \in [Accounts -> Int] /\ IntendedAmount \in Nat
  BY ConstantsAssumption DEF Promised, Inv, TypeOK, LedgerTypeOK
<1> USE DEF ledgerVars, requestVars, workerVars, providerVars
<1>1. \A r \in Refs : Untouched(r)
  BY Untouching
     DEF confirmFunding, reverseFundingCheck, reverseFundingPost, closeCheck, closeUpdate, vars
<1>2. CASE confirmFunding
  <2>1. balances'["pot"] = balances["pot"] + IntendedAmount
    BY <1>0, <1>2, InboundEffect DEF confirmFunding
  <2> QED
    BY <1>1, <2>1, PotMoves
<1>3. CASE reverseFundingPost /\ balances' # balances
  <2>1. /\ CanApply(balances, Flip(inboundFeeLegs(IntendedAmount)))
        /\ balances' = applyEntries(balances, Flip(inboundFeeLegs(IntendedAmount)))
    BY <1>3 DEF reverseFundingPost
  <2>2. balances'["pot"] = balances["pot"] - IntendedAmount
    BY <1>0, <2>1, InboundReversalEffect
  <2>3. balances["pot"] >= IntendedAmount
    BY <1>0, <2>1
       DEF CanApply, Flip, inboundFeeLegs, signedDelta, normalBalance, Accounts, Credit
  <2> QED
    BY <1>1, <2>2, <2>3, PotMoves
<1>4. CASE UNCHANGED balances
  BY <1>1, <1>4, NothingMoves
<1> QED
  BY <1>2, <1>3, <1>4
     DEF confirmFunding, reverseFundingCheck, reverseFundingPost, closeCheck, closeUpdate, vars

\* A leg whose caller has not yet claimed the lock is new, and one whose job is still to
\* be added is due.
LEMMA BeforeTheJob ==
    ASSUME Promised, NEW r \in Refs, request[r] # "enqueued"
    PROVE  /\ job[r] = "none" /\ pc[r] = "idle" /\ tx[r] = "none" /\ handler[r] = "idle"
           /\ Holding(r) <=> request[r] = "claimed"
<1>1. WorkerPhase(r) /\ HandlerPhase(r) /\ WorkerTypeOK /\ WebhookTypeOK
  BY DEF Promised, Phases, Inv, TypeOK
<1> QED
  BY <1>1 DEF WorkerPhase, HandlerPhase, WorkerTypeOK, WebhookTypeOK, Holding

\* A leg's cost is a number of kobo.
LEMMA CostType ==
    ASSUME TypeOK, NEW r \in Refs
    PROVE  Cost(r) \in Nat
BY DEF Cost, TypeOK, RequestTypeOK, OUTBOUND_FEE, NOMBA_OUTBOUND_FEE, PLATFORM_OUTBOUND_FEE

\* Callers: a check or a lost claim moves nothing, a claim starts an operation, and a leg
\* that gets no job is declined.
LEMMA CallerPromised ==
    ASSUME KeepsLock, Promised,
           \/ \E S \in SUBSET Refs : postContributorsRefund(S) \/ claimLock(S)
           \/ \E r \in Refs : postFixedAmountDisbursement(r) \/ enqueue(r) \/ dropLeg(r),
           TypeOK'
    PROVE  [W!Next]_(W!vars)
<1>0. RequestTypeOK /\ WorkerTypeOK /\ TypeOK
  BY DEF Promised, Inv, TypeOK
<1> USE DEF ledgerVars, workerVars, providerVars
<1>1. ASSUME NEW S \in SUBSET Refs, UNCHANGED <<balances, tx, job, pc, handler, nomba>>,
             \A r \in S : request[r] \in {"none", "checked"} /\ request'[r] \in {"none", "checked"},
             \A r \in Refs \ S : request'[r] = request[r] /\ data'[r] = data[r]
      PROVE  [W!Next]_(W!vars)
  <2>1. \A r \in S : Untouched(r)
    BY <1>1, BeforeTheJob DEF Untouched, Outcome, Cost, Holding
  <2>2. \A r \in Refs \ S : Untouched(r)
    BY <1>1, Untouching
  <2> QED
    BY <1>1, <2>1, <2>2, NothingMoves
<1>2. ASSUME NEW S \in SUBSET Refs, postContributorsRefund(S)
      PROVE  [W!Next]_(W!vars)
  BY <1>0, <1>1, <1>2 DEF postContributorsRefund, RequestTypeOK
<1>3. ASSUME NEW r \in Refs, postFixedAmountDisbursement(r)
      PROVE  [W!Next]_(W!vars)
  <2>1. /\ {r} \in SUBSET Refs /\ UNCHANGED <<balances, tx, job, pc, handler, nomba>>
        /\ \A s \in {r} : request[s] = "none" /\ request'[s] = "checked"
        /\ \A s \in Refs \ {r} : request'[s] = request[s] /\ data'[s] = data[s]
    BY <1>0, <1>3 DEF postFixedAmountDisbursement, RequestTypeOK
  <2> QED
    BY <1>1, <2>1
<1>4. ASSUME NEW S \in SUBSET Refs, claimLock(S)
      PROVE  [W!Next]_(W!vars)
  <2>1. /\ S # {} /\ UNCHANGED <<balances, tx, job, pc, handler, nomba>>
        /\ \A r \in S : request[r] = "checked"
        /\ \A r \in Refs \ S : request'[r] = request[r] /\ data'[r] = data[r]
    BY <1>0, <1>4 DEF claimLock, RequestTypeOK
  <2>2. CASE pendingOperation # "none"
    BY <1>0, <1>1, <1>4, <2>1, <2>2 DEF claimLock, RequestTypeOK
  <2>3. CASE pendingOperation = "none"
    <3>1. \A r \in S : request'[r] = "claimed"
      BY <1>0, <1>4, <2>3 DEF claimLock, RequestTypeOK
    <3>2. \A r \in Refs : ~Holding(r)
      BY <2>3 DEF Promised, LockCovers
    <3>3. \A r \in Refs \ S : Untouched(r)
      BY <2>1, Untouching
    <3>4. \A r \in S : Outcome(r) = "new" /\ Outcome(r)' = "due" /\ Holding(r)'
      BY <2>1, <3>1, BeforeTheJob DEF Outcome, Holding
    <3>5. \A r \in Refs : Cost(r) \in Nat /\ Cost(r)' \in Nat
      <4>1. ASSUME NEW r \in Refs PROVE Cost(r)' \in Nat
        BY DEF Cost, TypeOK, RequestTypeOK, OUTBOUND_FEE, NOMBA_OUTBOUND_FEE,
               PLATFORM_OUTBOUND_FEE
      <4> QED
        BY <1>0, <4>1, CostType
    <3> QED
      BY <2>1, <3>2, <3>3, <3>4, <3>5, OperationStarts
  <2> QED
    BY <2>2, <2>3
<1>5. ASSUME NEW r \in Refs, enqueue(r)
      PROVE  [W!Next]_(W!vars)
  <2>1. /\ UNCHANGED <<balances, tx, pc, handler, nomba, data>>
        /\ request[r] = "claimed"
    BY <1>5 DEF enqueue
  <2>2. CASE /\ request' = [request EXCEPT ![r] = "enqueued"]
             /\ job' = [job EXCEPT ![r] = "waiting"]
    <3>1. Untouched(r)
      BY <1>0, <2>1, <2>2, BeforeTheJob
         DEF Untouched, Outcome, Cost, Holding, RequestTypeOK, WorkerTypeOK
    <3>2. \A s \in Refs \ {r} : Untouched(s)
      BY <1>0, <2>1, <2>2, Untouching DEF RequestTypeOK, WorkerTypeOK
    <3> QED
      BY <2>1, <3>1, <3>2, NothingMoves
  <2>3. CASE /\ job' = job
             /\ request' = [s \in Refs |->
                   IF s \in data[r].legs /\ request[s] \in {"claimed", "clear"}
                   THEN "abandoned" ELSE request[s]]
    <3> DEFINE S == {s \in Refs : request[s] = "claimed" /\ s \in data[r].legs}
    <3>1. \A s \in S : /\ Outcome(s) = "due" /\ Outcome(s)' = "declined"
                       /\ Cost(s)' = Cost(s) /\ Holding(s) /\ ~Holding(s)'
      BY <2>1, <2>3, BeforeTheJob DEF Outcome, Cost, Holding
    <3>2. ASSUME NEW s \in Refs \ S
          PROVE  Untouched(s)
      <4>1. CASE request'[s] = request[s]
        BY <2>1, <2>3, <4>1, Untouching
      <4>2. CASE request[s] = "clear" /\ request'[s] = "abandoned"
        BY <2>1, <2>3, <4>2, BeforeTheJob DEF Untouched, Outcome, Cost, Holding
      <4> QED
        BY <2>3, <4>1, <4>2
    <3> QED
      BY <2>1, <3>1, <3>2, LegsDeclined
  <2> QED
    BY <1>5, <2>2, <2>3 DEF enqueue
<1>6. ASSUME NEW r \in Refs, dropLeg(r)
      PROVE  [W!Next]_(W!vars)
  <2>1. /\ UNCHANGED <<balances, tx, job, pc, handler, nomba, data>>
        /\ \A s \in Refs \ {r} : request'[s] = request[s]
        /\ request[r] \in {"claimed", "clear"} /\ request'[r] \in {"clear", "dropped"}
    BY <1>0, <1>6 DEF dropLeg, RequestTypeOK
  <2>2. \A s \in Refs \ {r} : Untouched(s)
    BY <2>1, Untouching
  <2>3. CASE request[r] = "claimed"
    <3>1. /\ Outcome(r) = "due" /\ Outcome(r)' = "declined"
          /\ Cost(r)' = Cost(r) /\ Holding(r) /\ ~Holding(r)'
      BY <2>1, <2>3, BeforeTheJob DEF Outcome, Cost, Holding
    <3> QED
      BY <2>1, <2>2, <3>1, LegsDeclined
  <2>4. CASE request[r] = "clear"
    <3>1. Untouched(r)
      BY <2>1, <2>4, BeforeTheJob DEF Untouched, Outcome, Cost, Holding
    <3> QED
      BY <2>1, <2>2, <3>1, NothingMoves
  <2> QED
    BY <2>1, <2>3, <2>4
<1> QED
  BY <1>2, <1>3, <1>4, <1>5, <1>6

\* The worker and the provider: a posting withdraws a leg that is due, what was sent is
\* completed once it is executed and reversed once it is refused, and a leg ends with its
\* share of the lock.
LEMMA WorkerPromised ==
    ASSUME KeepsLock, Promised, NEW r \in Refs,
           workerStep(r) \/ dbFailure(r) \/ workerCrash(r) \/ retryFailedJob(r) \/ settle(r)
    PROVE  [W!Next]_(W!vars)
<1>0. /\ RequestTypeOK /\ WorkerTypeOK /\ LedgerTypeOK /\ ProviderTypeOK /\ WebhookTypeOK
      /\ WorkerPhase(r) /\ HandlerPhase(r) /\ data[r].amount \in Nat
      /\ Cost(r) \in Nat
  BY CostType DEF Promised, Inv, TypeOK, Phases, RequestTypeOK
<1>1. pc[r] # "idle" \/ job[r] = "waiting" =>
          request[r] = "enqueued" /\ Cost(r) = data[r].amount + OUTBOUND_FEE
  BY <1>0, BeforeTheJob DEF Cost, WorkerTypeOK
<1> USE DEF ledgerVars, requestVars, providerVars
<1>2. UNCHANGED <<request, data, handler>>
  BY DEF workerStep, startJob, checkBalance, checkExisting, post, callSuccess,
         callPending, callRejected, callTimeout, complete, reverse, releaseLock,
         clearLock, apply, dbFailure, workerCrash, retryFailedJob, settle
<1>3. \A s \in Refs \ {r} : /\ job'[s] = job[s] /\ pc'[s] = pc[s] /\ tx'[s] = tx[s]
                            /\ nomba'[s] = nomba[s]
  BY <1>0
     DEF workerStep, startJob, checkBalance, checkExisting, post, callSuccess,
         callPending, callRejected, callTimeout, complete, reverse, releaseLock,
         clearLock, apply, dbFailure, workerCrash, retryFailedJob, settle, Goto, Finish,
         AfterRelease, postTransaction, markCompleted, reverseTransaction, WorkerTypeOK,
         LedgerTypeOK, ProviderTypeOK, workerVars
<1>4. \A s \in Refs \ {r} : Untouched(s)
  BY <1>2, <1>3, Untouching
<1>5. Cost(r)' = Cost(r)
  BY <1>2 DEF Cost
<1>6. ASSUME balances'["pot"] = balances["pot"], Outcome(r)' = Outcome(r),
             Holding(r)' <=> Holding(r)
      PROVE  [W!Next]_(W!vars)
  BY <1>4, <1>5, <1>6, NothingMoves DEF Untouched
<1>7. ASSUME balances'["pot"] = balances["pot"], Outcome(r) = "due", Outcome(r)' = "declined",
             Holding(r), ~Holding(r)'
      PROVE  [W!Next]_(W!vars)
  <2>1. /\ {r} \in SUBSET Refs
        /\ \A s \in {r} : /\ Outcome(s) = "due" /\ Outcome(s)' = "declined"
                          /\ Cost(s)' = Cost(s) /\ Holding(s) /\ ~Holding(s)'
    BY <1>5, <1>7
  <2>2. W!Next
    BY <1>4, <1>7, <2>1, LegsDeclined
  <2> QED
    BY <2>2
<1>8. CASE startJob(r) \/ checkBalance(r)
  BY <1>0, <1>2, <1>6, <1>8
     DEF startJob, checkBalance, KeepsLock, Fault, Goto, Outcome, Holding, WorkerTypeOK,
         WorkerPhase
<1>9. CASE checkExisting(r)
  <2>1. /\ tx[r] = "none" /\ pc[r] = "existing" /\ job[r] = "active" /\ handler[r] = "idle"
        /\ request[r] = "enqueued" /\ UNCHANGED <<balances, tx, nomba>>
    BY <1>0, <1>1, <1>9 DEF checkExisting, WorkerPhase, HandlerPhase
  <2>2. \/ pc'[r] = "post" /\ job'[r] = job[r]
        \/ pc'[r] = "idle" /\ job'[r] \in {"waiting", "failed"}
    BY <1>0, <1>9, <2>1 DEF checkExisting, Goto, Finish, JobAfter, WorkerTypeOK
  <2>3. Outcome(r) = "due" /\ Holding(r)
    BY <2>1 DEF Outcome, Holding
  <2>4. CASE job'[r] # "failed"
    BY <1>2, <1>6, <2>1, <2>2, <2>3, <2>4 DEF Outcome, Holding
  <2>5. CASE job'[r] = "failed"
    BY <1>2, <1>7, <2>1, <2>2, <2>3, <2>5 DEF Outcome, Holding
  <2> QED
    BY <2>4, <2>5
<1>10. CASE post(r)
  <2>1. /\ tx[r] = "none" /\ pc[r] = "post" /\ job[r] = "active" /\ UNCHANGED <<job, nomba>>
        /\ request[r] = "enqueued"
    BY <1>0, <1>1, <1>10 DEF post, Goto, WorkerPhase
  <2>2. Outcome(r) = "due" /\ Holding(r)
    BY <2>1 DEF Outcome, Holding
  <2>3. CASE tx' = tx
    <3>1. pc'[r] = "release" /\ balances' = balances
      BY <1>0, <1>10, <2>1, <2>3 DEF post, postTransaction, Goto, WorkerTypeOK, LedgerTypeOK
    <3> QED
      BY <1>2, <1>6, <2>1, <2>2, <2>3, <3>1 DEF Outcome, Holding
  <2>4. CASE tx' # tx
    <3>1. /\ CanApply(balances, outboundFeeLegs(data[r].amount))
          /\ balances' = applyEntries(balances, outboundFeeLegs(data[r].amount))
          /\ tx' = [tx EXCEPT ![r] = "processing"]
      BY <1>10, <2>4 DEF post, postTransaction
    <3>2. tx'[r] = "processing"
      BY <1>0, <3>1 DEF LedgerTypeOK
    <3>3. balances'["pot"] = balances["pot"] - Cost(r)
      BY <1>0, <1>1, <2>1, <3>1, OutboundEffect DEF LedgerTypeOK
    <3>4. balances["pot"] >= Cost(r)
      BY <1>0, <1>1, <2>1, <3>1
         DEF CanApply, outboundFeeLegs, signedDelta, normalBalance, Accounts, Debit,
             LedgerTypeOK, OUTBOUND_FEE, NOMBA_OUTBOUND_FEE, PLATFORM_OUTBOUND_FEE
    <3>5. Outcome(r)' = "sent" /\ Holding(r)'
      BY <3>2 DEF Outcome, Holding
    <3> QED
      BY <1>4, <1>5, <2>2, <3>3, <3>4, <3>5, OneLegMoves
  <2> QED
    BY <2>3, <2>4
<1>11. CASE callSuccess(r) \/ callPending(r) \/ callRejected(r)
  <2>1. tx[r] = "processing" /\ UNCHANGED <<balances, tx>>
    BY <1>0, <1>11 DEF callSuccess, callPending, callRejected, WorkerPhase
  <2> QED
    BY <1>6, <2>1 DEF Outcome, Holding
<1>12. CASE callTimeout(r) \/ dbFailure(r) \/ workerCrash(r) \/ retryFailedJob(r)
  BY <1>12
     DEF KeepsLock, callTimeout, dbFailure, workerCrash, retryFailedJob, Fault
<1>13. CASE complete(r)
  <2>1. /\ tx[r] = "processing" /\ tx'[r] = "completed" /\ nomba[r] = "executed"
        /\ job[r] = "active" /\ pc'[r] = "release" /\ UNCHANGED <<balances, nomba, job>>
    BY <1>0, <1>13
       DEF complete, markCompleted, Goto, WorkerPhase, LedgerTypeOK, WorkerTypeOK
  <2>2. /\ Outcome(r) = "sent" /\ Outcome(r)' = "paid" /\ Holding(r) /\ Holding(r)'
    BY <2>1 DEF Outcome, Holding
  <2> QED
    BY <1>4, <1>5, <2>1, <2>2, OneLegMoves
<1>14. CASE reverse(r)
  <2>1. tx[r] = "processing" /\ nomba[r] = "failed" /\ job[r] = "active" /\ r \notin reversals
    BY <1>0, <1>14
       DEF reverse, WorkerPhase, Promised, CalledOnce, ReversedMarked
  <2>2. /\ tx'[r] = "reversed" /\ pc'[r] = "release" /\ UNCHANGED <<nomba, job>>
        /\ balances' = applyEntries(balances, Flip(outboundFeeLegs(data[r].amount)))
    BY <1>0, <1>14, <2>1
       DEF reverse, reverseTransaction, Goto, LedgerTypeOK, WorkerTypeOK
  <2>3. balances'["pot"] = balances["pot"] + Cost(r)
    BY <1>0, <1>1, <1>14, <2>2, OutboundReversalEffect DEF LedgerTypeOK, reverse
  <2>4. Outcome(r) = "sent" /\ Outcome(r)' = "returned" /\ Holding(r) /\ Holding(r)'
    BY <2>1, <2>2 DEF Outcome, Holding
  <2> QED
    BY <1>4, <1>5, <2>3, <2>4, OneLegMoves
<1>15. ASSUME AfterRelease(r), pc[r] \in {"release", "clear"}, end[r] # "throw"
       PROVE  /\ pc'[r] \in {"idle", "apply"} /\ job'[r] \in {"active", "completed", "failed"}
              /\ job'[r] = "active" => pc'[r] = "apply"
  BY <1>0, <1>15 DEF AfterRelease, Goto, Finish, JobAfter, WorkerTypeOK, WorkerPhase
<1>16. CASE releaseLock(r)
  <2>1. /\ pc[r] = "release" /\ job[r] = "active" /\ handler[r] = "idle"
        /\ request[r] = "enqueued" /\ tx[r] \in {"none", "completed", "reversed"}
        /\ UNCHANGED <<balances, tx, nomba>> /\ end[r] # "throw"
    BY <1>0, <1>1, <1>16
       DEF releaseLock, WorkerPhase, HandlerPhase, LedgerTypeOK, WorkerTypeOK, Promised, LockCovers
  <2>2. Holding(r)
    BY <2>1 DEF Holding
  <2>3. \/ AfterRelease(r)
        \/ pc'[r] = "clear" /\ job'[r] = job[r]
    BY <1>0, <1>16 DEF releaseLock, Goto, WorkerTypeOK
  <2>4. ~Holding(r)'
    BY <1>2, <1>15, <2>1, <2>3 DEF Holding
  <2>5. CASE tx[r] = "none"
    BY <1>2, <1>7, <2>1, <2>2, <2>4, <2>5 DEF Outcome
  <2>6. CASE tx[r] # "none"
    <3>1. /\ tx[r] = "completed" => nomba[r] = "executed"
          /\ tx[r] = "reversed" => nomba[r] = "failed"
      BY <1>0 DEF HandlerPhase, Promised, ReversedMarked, CalledOnce
    <3>2. Outcome(r) \in {"paid", "returned"} /\ Outcome(r)' = Outcome(r)
      BY <1>2, <2>1, <2>6, <3>1 DEF Outcome
    <3> QED
      BY <1>4, <1>5, <2>1, <2>2, <2>4, <3>2, OneLegMoves
  <2> QED
    BY <2>5, <2>6
<1>17. CASE clearLock(r)
  <2>1. /\ pc[r] = "clear" /\ job[r] = "active" /\ handler[r] = "idle"
        /\ request[r] = "enqueued" /\ tx[r] # "processing"
        /\ UNCHANGED <<balances, tx, nomba>> /\ end[r] # "throw" /\ AfterRelease(r)
    BY <1>0, <1>1, <1>17
       DEF clearLock, WorkerPhase, HandlerPhase, LedgerTypeOK, WorkerTypeOK, Promised, LockCovers
  <2>2. ~Holding(r) /\ ~Holding(r)'
    BY <1>2, <1>15, <2>1 DEF Holding
  <2> QED
    BY <1>2, <1>6, <2>1, <2>2 DEF Outcome
<1>18. CASE apply(r)
  <2>1. /\ pc[r] = "apply" /\ job[r] = "active" /\ job'[r] = "completed"
        /\ tx[r] = "completed" /\ UNCHANGED <<balances, tx, nomba>>
    BY <1>0, <1>18 DEF apply, WorkerPhase, Finish, JobAfter, WorkerTypeOK
  <2>2. request[r] = "enqueued" /\ handler[r] = "idle"
    BY <1>0, <1>1, <2>1 DEF HandlerPhase
  <2> QED
    BY <1>2, <1>6, <2>1, <2>2 DEF Outcome, Holding
<1>19. CASE settle(r)
  <2>1. /\ nomba[r] = "pending" /\ UNCHANGED <<balances, tx, job, pc>>
    BY <1>19 DEF settle, workerVars
  <2>2. tx[r] \in {"none", "processing"}
    BY <1>0, <2>1 DEF HandlerPhase, Promised, ReversedMarked, CalledOnce, LedgerTypeOK
  <2> QED
    BY <1>2, <1>6, <2>1, <2>2 DEF Outcome, Holding
<1> QED
  BY <1>8, <1>9, <1>10, <1>11, <1>12, <1>13, <1>14, <1>16, <1>17, <1>18, <1>19 DEF workerStep

\* The webhook handler settles what the worker left pending, in the same way.
LEMMA WebhookPromised ==
    ASSUME KeepsLock, Promised, NEW r \in Refs, webhookStep(r)
    PROVE  [W!Next]_(W!vars)
<1>0. /\ RequestTypeOK /\ WorkerTypeOK /\ LedgerTypeOK /\ ProviderTypeOK /\ WebhookTypeOK
      /\ WorkerPhase(r) /\ HandlerPhase(r) /\ data[r].amount \in Nat
  BY DEF Promised, Inv, TypeOK, Phases, RequestTypeOK
<1> USE DEF ledgerVars, requestVars, providerVars, workerVars
<1>1. UNCHANGED <<request, data, job, pc, nomba>>
  BY DEF webhookStep, resolveRead, resolveLedger, resolveApply, resolveRelease
<1>2. \A s \in Refs \ {r} : handler'[s] = handler[s] /\ tx'[s] = tx[s]
  BY <1>0
     DEF webhookStep, resolveRead, resolveLedger, resolveApply, resolveRelease,
         markCompleted, reverseTransaction, WebhookTypeOK, LedgerTypeOK
<1>3. \A s \in Refs \ {r} : Untouched(s)
  BY <1>1, <1>2, Untouching
<1>4. Cost(r)' = Cost(r)
  BY <1>1 DEF Cost
<1>5. ASSUME balances' = balances, tx' = tx, Holding(r)' <=> Holding(r)
      PROVE  [W!Next]_(W!vars)
  <2>1. Outcome(r)' = Outcome(r)
    BY <1>1, <1>5 DEF Outcome
  <2> QED
    BY <1>3, <1>4, <1>5, <2>1, NothingMoves DEF Untouched
<1>6. handler[r] # "idle" => /\ job[r] = "completed" /\ pc[r] = "idle" /\ request[r] = "enqueued"
                             /\ Cost(r) = data[r].amount + OUTBOUND_FEE
  BY <1>0 DEF HandlerPhase, WorkerPhase, Cost, WorkerTypeOK
<1>7. CASE resolveRead(r)
  BY <1>0, <1>1, <1>5, <1>7 DEF resolveRead, Holding, WebhookTypeOK
<1>8. CASE resolveLedger(r) /\ handler[r] = "complete"
  <2>1. /\ tx[r] = "processing" /\ nomba[r] = "executed" /\ tx'[r] = "completed"
        /\ balances' = balances /\ handler'[r] \in {"apply", "decrement"}
    BY <1>0, <1>8
       DEF resolveLedger, markCompleted, HandlerPhase, LedgerTypeOK, WebhookTypeOK
  <2>2. Outcome(r) = "sent" /\ Outcome(r)' = "paid" /\ Holding(r) /\ Holding(r)'
    BY <1>1, <2>1 DEF Outcome, Holding
  <2> QED
    BY <1>3, <1>4, <2>1, <2>2, OneLegMoves
<1>9. CASE resolveLedger(r) /\ handler[r] = "reverse"
  <2>1. tx[r] = "processing" /\ nomba[r] = "failed" /\ r \notin reversals
    BY <1>0, <1>9 DEF HandlerPhase, Promised, CalledOnce, ReversedMarked
  <2>2. /\ tx'[r] = "reversed" /\ handler'[r] = "decrement"
        /\ balances' = applyEntries(balances, Flip(outboundFeeLegs(data[r].amount)))
    BY <1>0, <1>9, <2>1
       DEF resolveLedger, reverseTransaction, LedgerTypeOK, WebhookTypeOK
  <2>3. balances'["pot"] = balances["pot"] + Cost(r)
    BY <1>0, <1>6, <1>9, <2>2, OutboundReversalEffect DEF LedgerTypeOK
  <2>4. Outcome(r) = "sent" /\ Outcome(r)' = "returned" /\ Holding(r) /\ Holding(r)'
    BY <1>1, <2>1, <2>2 DEF Outcome, Holding
  <2> QED
    BY <1>3, <1>4, <2>3, <2>4, OneLegMoves
<1>10. CASE resolveApply(r)
  BY <1>0, <1>1, <1>5, <1>10 DEF resolveApply, Holding, WebhookTypeOK
<1>11. CASE resolveRelease(r) /\ handler[r] = "decrement"
  <2>1. /\ tx[r] \in {"completed", "reversed"} /\ UNCHANGED <<balances, tx>>
        /\ handler'[r] \in {"clear", "idle"}
    BY <1>0, <1>11 DEF resolveRelease, HandlerPhase, WebhookTypeOK
  <2>2. Holding(r) /\ ~Holding(r)'
    BY <1>1, <1>6, <1>11, <2>1 DEF Holding
  <2>3. /\ tx[r] = "completed" => nomba[r] = "executed"
        /\ tx[r] = "reversed" => nomba[r] = "failed"
    BY <1>0 DEF HandlerPhase, Promised, ReversedMarked, CalledOnce
  <2>4. Outcome(r) \in {"paid", "returned"} /\ Outcome(r)' = Outcome(r)
    BY <1>1, <2>1, <2>3 DEF Outcome
  <2> QED
    BY <1>3, <1>4, <2>1, <2>2, <2>4, OneLegMoves
<1>12. CASE resolveRelease(r) /\ handler[r] = "clear"
  <2>1. UNCHANGED <<balances, tx>> /\ handler'[r] = "idle"
    BY <1>0, <1>12 DEF resolveRelease, WebhookTypeOK
  <2>2. Holding(r)' <=> Holding(r)
    BY <1>1, <1>12, <2>1 DEF Holding
  <2> QED
    BY <1>5, <2>1, <2>2
<1> QED
  BY <1>7, <1>8, <1>9, <1>10, <1>11, <1>12 DEF webhookStep, resolveLedger, resolveRelease

\* With failing lookups and a failing queue at most, callers, workers, the provider and its
\* webhooks keep what a pot promises: one operation at a time, whose legs are withdrawn at
\* most once and if the pot covers them, and are then paid or given back as the provider
\* has it (PotsService, processLedgerDisbursement, resolvePendingTransfer).
THEOREM PromisesKept ==
    ASSUME KeepsLock
    PROVE  Spec => ImplementsWithdrawals
<1>1. NoLostOutcome /\ RestartsClean
  BY FaultOrder DEF KeepsLock, NoLostOutcome
<1>2. Init => EnqueuedFirst /\ Phases /\ LegsTogether /\ LockCovers /\ CalledOnce /\ ReversedMarked
  BY InitEnqueued, InitPhases, InitLegs, InitLock, InitCalledOnce, InitReversed
<1>3. Inv /\ (EnqueuedFirst /\ Phases /\ LegsTogether /\ LockCovers /\ CalledOnce /\ ReversedMarked)
        /\ [Next]_vars
        => (EnqueuedFirst /\ Phases /\ LegsTogether /\ LockCovers /\ CalledOnce /\ ReversedMarked)'
  BY <1>1, NextEnqueued, NextPhases, NextLegs, NextLock, NextCalledOnce, NextReversed
<1>4. Init => W!Init
  <2> SUFFICES ASSUME Init PROVE W!Init
    OBVIOUS
  <2>1. \A r \in Refs : Outcome(r) = "new" /\ Cost(r) = 0 /\ ~Holding(r)
    BY DEF Init, Outcome, Cost, Holding
  <2>2. balances["pot"] = 0
    BY DEF Init, ZeroBalances, Accounts
  <2> QED
    BY <2>1, <2>2 DEF W!Init
<1>5. Promised /\ Inv' /\ [Next]_vars => [W!Next]_(W!vars)
  <2> SUFFICES ASSUME Promised, Inv', [Next]_vars PROVE [W!Next]_(W!vars)
    OBVIOUS
  <2>1. TypeOK'
    BY DEF Inv
  <2> QED
    BY <2>1, FundingPromised, CallerPromised, WorkerPromised, WebhookPromised DEF Next
<1>6. Promised <=> Inv /\ (EnqueuedFirst /\ Phases /\ LegsTogether /\ LockCovers /\ CalledOnce
                             /\ ReversedMarked)
  BY DEF Promised
<1> QED
  BY <1>2, <1>3, <1>4, <1>5, <1>6, Invariance, PTL DEF Spec, ImplementsWithdrawals, W!Spec
=============================================================================
