--------------------------- MODULE LedgerPosting ----------------------------
(***************************************************************************)
(* postTransaction and reverseTransaction, statement by statement, as      *)
(* concurrent callers run them on PostgreSQL at READ COMMITTED             *)
(* (modules/ledger/ledger.service.ts).                                     *)
(*                                                                         *)
(* Each caller makes one call.  What it writes is invisible to the others  *)
(* until it commits; what others may not touch meanwhile is the unique     *)
(* index entry of the reference it inserted (refOwner) and the balance     *)
(* rows it locked or inserted (rowOwner).  A caller that dies, or throws,  *)
(* loses everything it wrote.                                              *)
(***************************************************************************)
EXTENDS Integers, FiniteSets, FiniteSetsExt

CONSTANTS
    References,  \* transaction references, those of reversals included
    AccountIds,  \* account ids, compared as localeCompare compares them
    Delta,       \* Delta[r][a]: signed effect of r's entry on a, 0 if it has none
    ReversalOf,  \* the original that r reverses, as a set of at most one reference
    Callers,     \* concurrent calls
    Reference,   \* the reference each caller posts
    InitialRows, \* accounts that have a row in balances at first
    InitialBalance, \* what the accounts hold at first
    MayCrash     \* whether callers may die

NoCaller == "none"  \* nobody's lock

ASSUME PostingAssumption ==
    /\ NoCaller \notin Callers
    /\ AccountIds \subseteq Int
    /\ Delta \in [References -> [AccountIds -> Int]]
    /\ ReversalOf \in [References -> SUBSET References]
    /\ Reference \in [Callers -> References]
    /\ InitialRows \subseteq AccountIds
    /\ InitialBalance \in [AccountIds -> Nat]
    /\ \A a \in AccountIds \ InitialRows : InitialBalance[a] = 0
    /\ MayCrash \in BOOLEAN

VARIABLES
    posted,    \* references with a committed row in transactions
    reversed,  \* references whose committed status is 'reversed'
    rows,      \* accounts with a committed row in balances
    balance,   \* committed ledgerBalance, 0 where there is no row
    refOwner,  \* the caller whose uncommitted insert holds a reference
    rowOwner,  \* the caller holding an account's balance row
    pc,        \* the caller's position
    todo,      \* accounts whose entry the caller has still to apply
    found,     \* accounts whose row the caller's SELECT ... FOR UPDATE returned
    writes     \* balances the caller wrote in its open transaction

tables  == <<posted, reversed, rows, balance>>
locks   == <<refOwner, rowOwner>>
callers == <<pc, todo, found, writes>>
vars    == <<tables, locks, callers>>

Init ==
    /\ posted = {}
    /\ reversed = {}
    /\ rows = InitialRows
    /\ balance = InitialBalance
    /\ refOwner = [r \in References |-> NoCaller]
    /\ rowOwner = [a \in AccountIds |-> NoCaller]
    /\ pc = [c \in Callers |-> "start"]
    /\ todo = [c \in Callers |-> {}]
    /\ found = [c \in Callers |-> {}]
    /\ writes = [c \in Callers |-> [a \in AccountIds |-> 0]]

\* The accounts a posting has an entry on.
Touched(r) == {a \in AccountIds : Delta[r][a] # 0}

\* The callback returned or threw: either way the caller holds nothing any more.
Release(c) ==
    /\ refOwner' = [r \in References |-> IF refOwner[r] = c THEN NoCaller ELSE refOwner[r]]
    /\ rowOwner' = [a \in AccountIds |-> IF rowOwner[a] = c THEN NoCaller ELSE rowOwner[a]]

\* Rollback: how names why.
Rollback(c, how) ==
    /\ Release(c)
    /\ pc' = [pc EXCEPT ![c] = how]
    /\ UNCHANGED <<tables, todo, found, writes>>

\* An existing row is returned as it is; a reversal goes on to its original's
\* status.
Existing(c) ==
    /\ pc' = [pc EXCEPT ![c] = IF ReversalOf[Reference[c]] = {} THEN "existing" ELSE "commit"]
    /\ UNCHANGED <<tables, locks, todo, found, writes>>

\* A reversal reads its original, and throws if there is none.  Then the
\* existence check.
start(c) ==
    /\ pc[c] = "start"
    /\ IF ~ReversalOf[Reference[c]] \subseteq posted
       THEN pc' = [pc EXCEPT ![c] = "missing"] /\ UNCHANGED <<tables, locks, todo, found, writes>>
       ELSE IF Reference[c] \in posted THEN Existing(c)
       ELSE pc' = [pc EXCEPT ![c] = "insert"] /\ UNCHANGED <<tables, locks, todo, found, writes>>

\* Mutant of insertTransaction: reference is not unique.
insertTransactionAgain(c) ==
    LET r == Reference[c] IN
    /\ pc[c] = "insert"
    /\ refOwner' = [refOwner EXCEPT ![r] = c]
    /\ todo' = [todo EXCEPT ![c] = Touched(r)]
    /\ pc' = [pc EXCEPT ![c] = IF Touched(r) = {} THEN "commit" ELSE "lock"]
    /\ UNCHANGED <<tables, rowOwner, found, writes>>

\* INSERT INTO transactions: waits for another caller's uncommitted insert of the
\* reference; a unique violation returns the winner's row.
insertTransaction(c) ==
    LET r == Reference[c] IN
    /\ pc[c] = "insert"
    /\ refOwner[r] = NoCaller
    /\ \/ /\ r \in posted
          /\ Existing(c)
       \/ /\ r \notin posted
          /\ refOwner' = [refOwner EXCEPT ![r] = c]
          /\ todo' = [todo EXCEPT ![c] = Touched(r)]
          /\ pc' = [pc EXCEPT ![c] = IF Touched(r) = {} THEN "commit" ELSE "lock"]
          /\ UNCHANGED <<tables, rowOwner, found, writes>>

\* Mutant of Following: entries are applied in the order the caller lists them.
FollowingUnsorted(c, a) ==
    LET d == Delta[Reference[c]] IN
    a \in todo[c] /\ \A b \in todo[c] : d[a] > d[b] \/ (d[a] = d[b] /\ a <= b)

\* Entries are applied in the order of their sorted account ids.
Following(c, a) == a \in todo[c] /\ \A b \in todo[c] : a <= b

\* SELECT ... FOR UPDATE: waits for the row's owner; it locks nothing, and does
\* not wait, if there is no committed row.
lockBalance(c) ==
    /\ pc[c] = "lock"
    /\ \E a \in AccountIds :
          /\ Following(c, a)
          /\ \/ /\ a \in rows
                /\ rowOwner[a] = NoCaller
                /\ rowOwner' = [rowOwner EXCEPT ![a] = c]
                /\ found' = [found EXCEPT ![c] = @ \union {a}]
             \/ /\ a \notin rows
                /\ UNCHANGED <<rowOwner, found>>
    /\ pc' = [pc EXCEPT ![c] = "apply"]
    /\ UNCHANGED <<tables, refOwner, todo, writes>>

\* The new balance, from the row that was locked or from 0.
NewBalance(c, a) ==
    (IF a \in found[c] THEN balance[a] ELSE 0) + Delta[Reference[c]][a]

\* The rest of applyEntryToBalance: refuse a negative balance, else UPDATE the
\* locked row or INSERT one.  An INSERT waits for another caller's uncommitted
\* one, and fails on a committed one.
applyEntryToBalance(c) ==
    /\ pc[c] = "apply"
    /\ \E a \in AccountIds :
          /\ Following(c, a)
          /\ \/ NewBalance(c, a) < 0 /\ Rollback(c, "insufficient")
             \/ /\ NewBalance(c, a) >= 0
                /\ a \notin found[c]
                /\ a \in rows
                /\ Rollback(c, "conflict")
             \/ /\ NewBalance(c, a) >= 0
                /\ a \in found[c] \/ (a \notin rows /\ rowOwner[a] = NoCaller)
                /\ rowOwner' = [rowOwner EXCEPT ![a] = c]
                /\ writes' = [writes EXCEPT ![c][a] = NewBalance(c, a)]
                /\ todo' = [todo EXCEPT ![c] = @ \ {a}]
                /\ pc' = [pc EXCEPT ![c] = IF todo[c] = {a} THEN "commit" ELSE "lock"]
                /\ UNCHANGED <<tables, refOwner, found>>

\* Mutant of commit: the original's status is not part of the commit.
commitWithoutStatus(c) ==
    LET r == Reference[c] IN
    /\ pc[c] = "commit"
    /\ IF refOwner[r] = c
       THEN /\ posted' = posted \union {r}
            /\ rows' = rows \union Touched(r)
            /\ balance' = [a \in AccountIds |-> IF a \in Touched(r) THEN writes[c][a]
                                                ELSE balance[a]]
       ELSE UNCHANGED <<posted, rows, balance>>
    /\ pc' = [pc EXCEPT ![c] = IF refOwner[r] = c THEN "posted" ELSE "existing"]
    /\ Release(c)
    /\ UNCHANGED <<reversed, todo, found, writes>>

\* The ledger entries are inserted, a reversal updates its original's status, and
\* the transaction commits.
commit(c) ==
    LET r == Reference[c] IN
    /\ pc[c] = "commit"
    /\ \/ /\ refOwner[r] = c
          /\ posted' = posted \union {r}
          /\ rows' = rows \union Touched(r)
          /\ balance' = [a \in AccountIds |-> IF a \in Touched(r) THEN writes[c][a]
                                              ELSE balance[a]]
          /\ pc' = [pc EXCEPT ![c] = "posted"]
       \/ /\ refOwner[r] # c
          /\ pc' = [pc EXCEPT ![c] = "existing"]
          /\ UNCHANGED <<posted, rows, balance>>
    /\ reversed' = reversed \union ReversalOf[r]
    /\ Release(c)
    /\ UNCHANGED <<todo, found, writes>>

Finished == {"posted", "existing", "missing", "insufficient", "conflict", "crashed"}

\* The process or its connection dies.
crash(c) ==
    /\ MayCrash
    /\ pc[c] \notin Finished
    /\ Rollback(c, "crashed")

step(c) ==
    start(c) \/ insertTransaction(c) \/ lockBalance(c) \/ applyEntryToBalance(c) \/ commit(c)

Next == \E c \in Callers : step(c) \/ crash(c)

Spec == Init /\ [][Next]_vars

\* A connection that is not waiting for a lock runs on.
FairSpec == Spec /\ \A c \in Callers : WF_vars(step(c))
-----------------------------------------------------------------------------
(* Properties *)

\* Every variable keeps its type; in particular no committed or pending balance
\* is negative, whatever races (applyEntryToBalance's last line of defense).
TypeOK ==
    /\ posted \subseteq References
    /\ reversed \subseteq References
    /\ rows \subseteq AccountIds
    /\ balance \in [AccountIds -> Nat]
    /\ refOwner \in [References -> Callers \union {NoCaller}]
    /\ rowOwner \in [AccountIds -> Callers \union {NoCaller}]
    /\ pc \in [Callers -> {"start", "insert", "lock", "apply", "commit"} \union Finished]
    /\ todo \in [Callers -> SUBSET AccountIds]
    /\ found \in [Callers -> SUBSET AccountIds]
    /\ writes \in [Callers -> [AccountIds -> Nat]]

\* A transaction is 'reversed' exactly when its reversal is posted, wherever a
\* caller dies (reverseTransaction: the status update lands in the same commit).
ReversedIffPosted == reversed = UNION {ReversalOf[r] : r \in posted}

\* A call fails only for want of funds, or because it died or its original is
\* missing: racing another call is not an error (postTransaction: the
\* concurrent loser gets the winner's row; applyEntryToBalance: serializes
\* concurrent postings against the same account).
RacingIsNoError == \A c \in Callers : pc[c] # "conflict"

\* Every call returns: no two calls wait for each other (postTransaction takes its
\* locks in sorted order).
EveryCallReturns == \A c \in Callers : <>(pc[c] \in Finished)

\* The promise of Ledger, with the committed tables as its state.
L == INSTANCE Ledger WITH posted <- posted, balance <- balance, reversed <- reversed

\* postTransaction and reverseTransaction, however they interleave and wherever
\* they die, implement the atomic ledger.
ImplementsLedger == L!Spec
=============================================================================
