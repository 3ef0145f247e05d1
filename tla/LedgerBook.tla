----------------------------- MODULE LedgerBook -----------------------------
(***************************************************************************)
(* The double-entry arithmetic of apps/backend/src/modules/ledger: the     *)
(* accounts one pot's money passes through, the effect of a posting on     *)
(* their balances, and the postings (legs) lib/fees.ts builds.             *)
(*                                                                         *)
(* A posting is a function from the accounts to signed amounts in kobo:    *)
(* a debit is positive, a credit negative, and 0 means that the posting    *)
(* has no entry on that account.  Every list of legs in the code names an  *)
(* account at most once, so nothing is lost by this representation.        *)
(***************************************************************************)
EXTENDS Integers

Accounts == {"pot", "platform_float", "platform_revenue",
             "nomba_fee_expense", "nomba_clearing", "suspense"}

normalBalance ==
    [pot               |-> "credit",
     platform_float    |-> "debit",
     platform_revenue  |-> "credit",
     nomba_fee_expense |-> "debit",
     nomba_clearing    |-> "credit",
     suspense          |-> "debit"]

Debit(x)  == x
Credit(x) == -x

\* An entry in the account's normal direction increases its balance.
signedDelta(a, leg) == IF normalBalance[a] = "debit" THEN leg ELSE -leg

applyEntries(bal, legs) == [a \in Accounts |-> bal[a] + signedDelta(a, legs[a])]

\* InsufficientBalanceError is thrown when an account would go below zero in
\* its own normal direction; the whole posting then rolls back.
CanApply(bal, legs) == \A a \in Accounts : bal[a] + signedDelta(a, legs[a]) >= 0

\* The entries of a reversal: every direction flipped.
Flip(legs) == [a \in Accounts |-> -legs[a]]

\* assertBalanced: the debits of a posting equal its credits.
Balanced(legs) ==
    legs["pot"] + legs["platform_float"] + legs["platform_revenue"]
      + legs["nomba_fee_expense"] + legs["nomba_clearing"] + legs["suspense"] = 0

ZeroBalances == [a \in Accounts |-> 0]
-----------------------------------------------------------------------------
(* lib/fees.ts *)

NOMBA_INBOUND_FEE_MIN == 1000
NOMBA_INBOUND_FEE_MAX == 15000
PLATFORM_INBOUND_FEE  == 1000
NOMBA_OUTBOUND_FEE    == 2000
PLATFORM_OUTBOUND_FEE == 3000
OUTBOUND_FEE          == NOMBA_OUTBOUND_FEE + PLATFORM_OUTBOUND_FEE

nombaInboundFeeFor(intendedAmount) ==
    LET raw == (intendedAmount * 100) \div 10000
    IN  IF raw < NOMBA_INBOUND_FEE_MIN THEN NOMBA_INBOUND_FEE_MIN
        ELSE IF raw > NOMBA_INBOUND_FEE_MAX THEN NOMBA_INBOUND_FEE_MAX
        ELSE raw

inboundFeeLegs(intendedAmount) ==
    [pot               |-> Credit(intendedAmount),
     platform_float    |-> Debit(intendedAmount + PLATFORM_INBOUND_FEE),
     platform_revenue  |-> Credit(PLATFORM_INBOUND_FEE),
     nomba_fee_expense |-> Debit(nombaInboundFeeFor(intendedAmount)),
     nomba_clearing    |-> Credit(nombaInboundFeeFor(intendedAmount)),
     suspense          |-> 0]

outboundFeeLegs(recipientAmount) ==
    [pot               |-> Debit(recipientAmount + OUTBOUND_FEE),
     platform_float    |-> Credit(recipientAmount + NOMBA_OUTBOUND_FEE),
     platform_revenue  |-> Credit(PLATFORM_OUTBOUND_FEE),
     nomba_fee_expense |-> Debit(NOMBA_OUTBOUND_FEE),
     nomba_clearing    |-> Credit(NOMBA_OUTBOUND_FEE),
     suspense          |-> 0]

\* Shared by overpaymentRefundLegs and expiryRefundLegs, whose entries are the
\* same: money that never reached a pot leaves through suspense.
suspenseRefundLegs(refundAmount) ==
    [pot               |-> 0,
     platform_float    |-> Credit(refundAmount + NOMBA_OUTBOUND_FEE),
     platform_revenue  |-> Credit(PLATFORM_OUTBOUND_FEE),
     nomba_fee_expense |-> Debit(NOMBA_OUTBOUND_FEE),
     nomba_clearing    |-> Credit(NOMBA_OUTBOUND_FEE),
     suspense          |-> Debit(refundAmount + OUTBOUND_FEE)]
=============================================================================
