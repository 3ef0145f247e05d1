------------------------------- MODULE Ledger -------------------------------
(***************************************************************************)
(* What the ledger promises its callers (LedgerService in                  *)
(* modules/ledger/ledger.service.ts): a transaction is posted once per     *)
(* reference, all of its entries at once, and never takes an account below *)
(* zero; a reversal marks its original in the same instant.                *)
(***************************************************************************)
EXTENDS Integers

CONSTANTS
    References,  \* transaction references, those of reversals included
    AccountIds,  \* accounts
    Delta,       \* Delta[r][a]: signed effect of r's entry on a, 0 if it has none
    ReversalOf   \* the original that r reverses, as a set of at most one reference

VARIABLES posted, balance, reversed

Init ==
    /\ posted = {}
    /\ balance \in [AccountIds -> Nat]
    /\ reversed = {}

Post(r) ==
    /\ r \notin posted
    /\ ReversalOf[r] \subseteq posted
    /\ \A a \in AccountIds : balance[a] + Delta[r][a] >= 0
    /\ posted' = posted \union {r}
    /\ balance' = [a \in AccountIds |-> balance[a] + Delta[r][a]]
    /\ reversed' = reversed \union ReversalOf[r]

Next == \E r \in References : Post(r)

Spec == Init /\ [][Next]_<<posted, balance, reversed>>
=============================================================================
