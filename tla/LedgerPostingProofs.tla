------------------------ MODULE LedgerPostingProofs -------------------------
(***************************************************************************)
(* Proofs about LedgerPosting, for any number of callers, references and   *)
(* accounts, with or without balance rows and wherever callers die: the    *)
(* statements of postTransaction and reverseTransaction implement the      *)
(* atomic Ledger.                                                          *)
(***************************************************************************)
EXTENDS LedgerPosting, TLAPS

\* A reference that a caller has inserted is its own, it is not yet committed, and
\* the caller is on its way to the commit.
RefOwned ==
    \A c \in Callers, r \in References : refOwner[r] = c =>
        /\ r = Reference[c]
        /\ r \notin posted
        /\ pc[c] \in {"lock", "apply", "commit"}

\* A caller that applies entries has inserted its reference; one that commits
\* without having done so found it committed; a reversal's original is posted.
Progressing ==
    \A c \in Callers :
        /\ pc[c] \in {"lock", "apply"} => refOwner[Reference[c]] = c
        /\ pc[c] = "commit" /\ refOwner[Reference[c]] # c => Reference[c] \in posted
        /\ pc[c] \in {"insert", "lock", "apply", "commit"} =>
              ReversalOf[Reference[c]] \subseteq posted
        /\ pc[c] \in {"start", "insert"} => found[c] = {}

\* What a caller has written is based on the committed balance, and stays so
\* because the caller holds the row.
WritesCurrent ==
    \A c \in Callers : refOwner[Reference[c]] = c =>
        /\ todo[c] \subseteq Touched(Reference[c])
        /\ pc[c] = "commit" => todo[c] = {}
        /\ \A a \in found[c] : rowOwner[a] = c
        /\ \A a \in Touched(Reference[c]) \ todo[c] :
              /\ rowOwner[a] = c
              /\ writes[c][a] = balance[a] + Delta[Reference[c]][a]

\* An account without a row holds nothing.
NoRowNoBalance == \A a \in AccountIds \ rows : balance[a] = 0

Inv ==
    /\ TypeOK
    /\ RefOwned
    /\ Progressing
    /\ WritesCurrent
    /\ NoRowNoBalance
    /\ ReversedIffPosted

\* The invariant holds at first.
LEMMA InitInv == Init => Inv
<1> SUFFICES ASSUME Init PROVE Inv
  OBVIOUS
<1> USE PostingAssumption DEF Init
<1>1. TypeOK
  BY DEF TypeOK
<1>2. RefOwned /\ Progressing /\ WritesCurrent
  BY DEF RefOwned, Progressing, WritesCurrent
<1>3. NoRowNoBalance
  BY DEF NoRowNoBalance
<1>4. ReversedIffPosted
  BY DEF ReversedIffPosted
<1> QED
  BY <1>1, <1>2, <1>3, <1>4 DEF Inv

\* Rolling back keeps the invariant: the other callers' locks and writes stay.
LEMMA RollbackInv ==
    ASSUME Inv, NEW c \in Callers, NEW how \in Finished, Rollback(c, how)
    PROVE  Inv'
<1> USE PostingAssumption DEF Inv
<1>0. /\ Release(c) /\ pc' = [pc EXCEPT ![c] = how]
      /\ UNCHANGED <<posted, reversed, rows, balance, todo, found, writes>>
  BY DEF Rollback, tables
<1>1. TypeOK'
  BY <1>0 DEF TypeOK, Finished, Release
<1>2. RefOwned'
  BY <1>0 DEF TypeOK, RefOwned, Release
<1>a. /\ pc'[c] = how
      /\ \A d \in Callers : d # c => pc'[d] = pc[d]
  BY <1>0 DEF TypeOK
<1>b. \A r \in References : IF refOwner[r] = c THEN refOwner'[r] = NoCaller
                            ELSE refOwner'[r] = refOwner[r]
  BY <1>0 DEF Release
<1>c. \A a \in AccountIds : rowOwner[a] # c => rowOwner'[a] = rowOwner[a]
  BY <1>0 DEF Release
<1>3. Progressing'
  <2> SUFFICES ASSUME NEW d \in Callers
               PROVE  /\ pc'[d] \in {"lock", "apply"} => refOwner'[Reference[d]] = d
                      /\ pc'[d] = "commit" /\ refOwner'[Reference[d]] # d => Reference[d] \in posted
                      /\ pc'[d] \in {"insert", "lock", "apply", "commit"} =>
                            ReversalOf[Reference[d]] \subseteq posted
                      /\ pc'[d] \in {"start", "insert"} => found[d] = {}
    BY <1>0 DEF Progressing
  <2>1. CASE d = c
    BY <2>1, <1>a DEF Finished
  <2>2. CASE d # c
    BY <2>2, <1>a, <1>b DEF Progressing
  <2> QED
    BY <2>1, <2>2
<1>4. WritesCurrent'
  <2> SUFFICES ASSUME NEW d \in Callers, refOwner'[Reference[d]] = d
               PROVE  /\ todo[d] \subseteq Touched(Reference[d])
                      /\ pc'[d] = "commit" => todo[d] = {}
                      /\ \A a \in found[d] : rowOwner'[a] = d
                      /\ \A a \in Touched(Reference[d]) \ todo[d] :
                            /\ rowOwner'[a] = d
                            /\ writes[d][a] = balance[a] + Delta[Reference[d]][a]
    BY <1>0 DEF WritesCurrent
  <2>1. d # c /\ refOwner[Reference[d]] = d /\ pc'[d] = pc[d]
    BY <1>a, <1>b
  <2>2. found[d] \subseteq AccountIds /\ Touched(Reference[d]) \subseteq AccountIds
    BY DEF TypeOK, Touched
  <2> QED
    BY <2>1, <2>2, <1>c DEF WritesCurrent
<1>5. NoRowNoBalance' /\ ReversedIffPosted'
  BY <1>0 DEF NoRowNoBalance, ReversedIffPosted
<1> QED
  BY <1>1, <1>2, <1>3, <1>4, <1>5

\* Returning an existing row keeps the invariant.
LEMMA ExistingInv ==
    ASSUME Inv, NEW c \in Callers, pc[c] \in {"start", "insert"},
           Reference[c] \in posted, ReversalOf[Reference[c]] \subseteq posted, Existing(c)
    PROVE  Inv'
<1> USE PostingAssumption DEF Inv, Existing, tables, locks
<1>1. TypeOK'
  BY DEF TypeOK, Finished
<1>2. RefOwned'
  BY DEF TypeOK, RefOwned
<1>3. Progressing'
  BY DEF TypeOK, Progressing, RefOwned
<1>4. WritesCurrent'
  BY DEF TypeOK, WritesCurrent, RefOwned
<1>5. NoRowNoBalance' /\ ReversedIffPosted'
  BY DEF NoRowNoBalance, ReversedIffPosted
<1> QED
  BY <1>1, <1>2, <1>3, <1>4, <1>5

\* The existence check and the insert of the transaction keep it.
LEMMA InsertInv ==
    ASSUME Inv, NEW c \in Callers, start(c) \/ insertTransaction(c)
    PROVE  Inv'
<1> USE PostingAssumption DEF Inv, tables, locks
<1>1. CASE start(c)
  <2>1. CASE pc' = [pc EXCEPT ![c] = "missing"]
             /\ UNCHANGED <<tables, locks, todo, found, writes>>
    BY <1>1, <2>1 DEF start, TypeOK, RefOwned, Progressing, WritesCurrent, NoRowNoBalance,
       ReversedIffPosted, Finished
  <2>2. CASE Reference[c] \in posted /\ ReversalOf[Reference[c]] \subseteq posted
             /\ Existing(c)
    BY <1>1, <2>2, ExistingInv DEF start
  <2>3. CASE /\ ReversalOf[Reference[c]] \subseteq posted
             /\ pc' = [pc EXCEPT ![c] = "insert"]
             /\ UNCHANGED <<tables, locks, todo, found, writes>>
    BY <1>1, <2>3 DEF start, TypeOK, RefOwned, Progressing, WritesCurrent, NoRowNoBalance,
       ReversedIffPosted
  <2> QED
    BY <1>1, <2>1, <2>2, <2>3 DEF start
<1>2. CASE insertTransaction(c)
  <2> DEFINE r == Reference[c]
  <2>1. CASE r \in posted /\ Existing(c)
    BY <1>2, <2>1, ExistingInv DEF insertTransaction, Progressing
  <2>2. CASE /\ r \notin posted
             /\ refOwner' = [refOwner EXCEPT ![r] = c]
             /\ todo' = [todo EXCEPT ![c] = Touched(r)]
             /\ pc' = [pc EXCEPT ![c] = IF Touched(r) = {} THEN "commit" ELSE "lock"]
             /\ UNCHANGED <<tables, rowOwner, found, writes>>
    <3>0. pc[c] = "insert" /\ refOwner[r] = NoCaller /\ r \in References
      BY <1>2 DEF insertTransaction
    <3>1. TypeOK'
      BY <2>2, <3>0 DEF TypeOK, Touched
    <3>2. RefOwned'
      BY <2>2, <3>0 DEF TypeOK, RefOwned
    <3>3. Progressing'
      BY <2>2, <3>0 DEF TypeOK, Progressing, RefOwned
    <3>4. WritesCurrent'
      BY <2>2, <3>0 DEF TypeOK, WritesCurrent, RefOwned, Progressing
    <3>5. NoRowNoBalance' /\ ReversedIffPosted'
      BY <2>2 DEF NoRowNoBalance, ReversedIffPosted
    <3> QED
      BY <3>1, <3>2, <3>3, <3>4, <3>5
  <2> QED
    BY <1>2, <2>1, <2>2 DEF insertTransaction
<1> QED
  BY <1>1, <1>2

\* Locking a balance row keeps it: the row had no owner.
LEMMA LockInv ==
    ASSUME Inv, NEW c \in Callers, lockBalance(c)
    PROVE  Inv'
<1> USE PostingAssumption DEF Inv, tables
<1>1. PICK a \in AccountIds :
        /\ Following(c, a)
        /\ \/ /\ a \in rows
              /\ rowOwner[a] = NoCaller
              /\ rowOwner' = [rowOwner EXCEPT ![a] = c]
              /\ found' = [found EXCEPT ![c] = @ \union {a}]
           \/ /\ a \notin rows
              /\ UNCHANGED <<rowOwner, found>>
  BY DEF lockBalance
<1>2. /\ pc[c] = "lock"
      /\ pc' = [pc EXCEPT ![c] = "apply"]
      /\ UNCHANGED <<tables, refOwner, todo, writes>>
  BY DEF lockBalance
<1>a. /\ rowOwner' \in [AccountIds -> Callers \union {NoCaller}]
      /\ found' \in [Callers -> SUBSET AccountIds]
  <2>1. CASE rowOwner' = [rowOwner EXCEPT ![a] = c] /\ found' = [found EXCEPT ![c] = @ \union {a}]
    <3>1. found[c] \union {a} \in SUBSET AccountIds
      BY <1>1 DEF TypeOK
    <3> QED
      BY <2>1, <3>1 DEF TypeOK
  <2>2. CASE UNCHANGED <<rowOwner, found>>
    BY <2>2 DEF TypeOK
  <2> QED
    BY <1>1, <2>1, <2>2
<1>b. /\ pc' \in [Callers -> {"start", "insert", "lock", "apply", "commit"} \union Finished]
      /\ pc'[c] = "apply"
      /\ \A d \in Callers : d # c => pc'[d] = pc[d]
  BY <1>2 DEF TypeOK
<1>c. /\ \A b \in AccountIds : rowOwner[b] # NoCaller => rowOwner'[b] = rowOwner[b]
      /\ \A d \in Callers : \A b \in found'[d] :
            b \in found[d] \/ (d = c /\ rowOwner'[b] = c)
  BY <1>1 DEF TypeOK
<1>3. TypeOK'
  BY <1>2, <1>a, <1>b DEF TypeOK
<1>4. RefOwned' /\ Progressing'
  BY <1>1, <1>2 DEF TypeOK, RefOwned, Progressing
<1>5. WritesCurrent'
  <2> SUFFICES ASSUME NEW d \in Callers, refOwner[Reference[d]] = d
               PROVE  /\ todo[d] \subseteq Touched(Reference[d])
                      /\ pc'[d] = "commit" => todo[d] = {}
                      /\ \A b \in found'[d] : rowOwner'[b] = d
                      /\ \A b \in Touched(Reference[d]) \ todo[d] :
                            /\ rowOwner'[b] = d
                            /\ writes[d][b] = balance[b] + Delta[Reference[d]][b]
    BY <1>2 DEF WritesCurrent
  <2>1. found[d] \subseteq AccountIds /\ Touched(Reference[d]) \subseteq AccountIds
    BY DEF TypeOK, Touched
  <2>2. \A b \in AccountIds : rowOwner[b] = d => rowOwner'[b] = d
    BY <1>c
  <2>3. pc'[d] = "commit" => pc[d] = "commit"
    BY <1>b
  <2>4. \A b \in found'[d] : rowOwner'[b] = d
    <3>1. \A b \in found[d] : rowOwner[b] = d
      BY DEF WritesCurrent
    <3> QED
      BY <1>c, <2>1, <2>2, <3>1
  <2> QED
    BY <2>1, <2>2, <2>3, <2>4 DEF WritesCurrent
<1>6. NoRowNoBalance' /\ ReversedIffPosted'
  BY <1>2 DEF NoRowNoBalance, ReversedIffPosted
<1> QED
  BY <1>3, <1>4, <1>5, <1>6

\* Applying an entry keeps it: the caller holds the row, or inserts it.
LEMMA ApplyInv ==
    ASSUME Inv, NEW c \in Callers, applyEntryToBalance(c)
    PROVE  Inv'
<1> USE PostingAssumption DEF Inv
<1>1. pc[c] = "apply" /\ refOwner[Reference[c]] = c
  BY DEF applyEntryToBalance, Progressing
<1>2. PICK a \in AccountIds :
        /\ Following(c, a)
        /\ \/ Rollback(c, "insufficient") \/ Rollback(c, "conflict")
           \/ /\ NewBalance(c, a) >= 0
              /\ a \in found[c] \/ (a \notin rows /\ rowOwner[a] = NoCaller)
              /\ rowOwner' = [rowOwner EXCEPT ![a] = c]
              /\ writes' = [writes EXCEPT ![c][a] = NewBalance(c, a)]
              /\ todo' = [todo EXCEPT ![c] = @ \ {a}]
              /\ pc' = [pc EXCEPT ![c] = IF todo[c] = {a} THEN "commit" ELSE "lock"]
              /\ UNCHANGED <<tables, refOwner, found>>
  BY DEF applyEntryToBalance
<1>3. CASE Rollback(c, "insufficient") \/ Rollback(c, "conflict")
  BY <1>3, RollbackInv DEF Finished
<1>4. CASE /\ NewBalance(c, a) >= 0
           /\ a \in found[c] \/ (a \notin rows /\ rowOwner[a] = NoCaller)
           /\ rowOwner' = [rowOwner EXCEPT ![a] = c]
           /\ writes' = [writes EXCEPT ![c][a] = NewBalance(c, a)]
           /\ todo' = [todo EXCEPT ![c] = @ \ {a}]
           /\ pc' = [pc EXCEPT ![c] = IF todo[c] = {a} THEN "commit" ELSE "lock"]
           /\ UNCHANGED <<tables, refOwner, found>>
  <2>1. /\ a \in todo[c]
        /\ rowOwner[a] \in {c, NoCaller}
    BY <1>1, <1>2, <1>4 DEF Following, WritesCurrent
  <2>2. /\ NewBalance(c, a) = balance[a] + Delta[Reference[c]][a]
        /\ NewBalance(c, a) \in Nat
    BY <1>4 DEF NewBalance, TypeOK, NoRowNoBalance
  <2>3. TypeOK'
    BY <1>4, <2>2 DEF TypeOK, tables
  <2>4. RefOwned' /\ Progressing'
    BY <1>1, <1>4 DEF TypeOK, RefOwned, Progressing, tables
  <2>5. WritesCurrent'
    BY <1>1, <1>4, <2>1, <2>2 DEF TypeOK, WritesCurrent, RefOwned, tables
  <2>6. NoRowNoBalance' /\ ReversedIffPosted'
    BY <1>4 DEF NoRowNoBalance, ReversedIffPosted, tables
  <2> QED
    BY <2>3, <2>4, <2>5, <2>6
<1> QED
  BY <1>2, <1>3, <1>4

\* Committing keeps it: the rows that change are the caller's own.
LEMMA CommitInv ==
    ASSUME Inv, NEW c \in Callers, commit(c)
    PROVE  Inv'
<1> USE PostingAssumption DEF Inv
<1> DEFINE r == Reference[c]
<1>0. /\ pc[c] = "commit" /\ r \in References
      /\ Release(c)
      /\ reversed' = reversed \union ReversalOf[r]
      /\ UNCHANGED <<todo, found, writes>>
      /\ ReversalOf[r] \subseteq posted
  BY DEF commit, Progressing
<1>a. \A q \in References : IF refOwner[q] = c THEN refOwner'[q] = NoCaller
                            ELSE refOwner'[q] = refOwner[q]
  BY <1>0 DEF Release
<1>b. \A b \in AccountIds : rowOwner[b] # c => rowOwner'[b] = rowOwner[b]
  BY <1>0 DEF Release
<1>c. /\ refOwner' \in [References -> Callers \union {NoCaller}]
      /\ rowOwner' \in [AccountIds -> Callers \union {NoCaller}]
  BY <1>0 DEF Release, TypeOK
<1>d. /\ pc' \in [Callers -> {"start", "insert", "lock", "apply", "commit"} \union Finished]
      /\ pc'[c] \in {"posted", "existing"}
      /\ \A d \in Callers : d # c => pc'[d] = pc[d]
  BY DEF commit, TypeOK, Finished
<1>e. posted \subseteq posted' /\ posted' \subseteq posted \union {r}
  BY DEF commit
<1>f. \A b \in AccountIds : balance'[b] # balance[b] => rowOwner[b] = c
  BY DEF commit, WritesCurrent, TypeOK
<1>g. r \in posted'
  BY <1>0 DEF commit, Progressing
<1>1. TypeOK'
  <2>1. rows' \subseteq AccountIds
    BY DEF commit, TypeOK, Touched
  <2>3. balance' \in [AccountIds -> Nat]
    <3>1. writes[c] \in [AccountIds -> Nat] /\ balance \in [AccountIds -> Nat]
      BY DEF TypeOK
    <3> QED
      BY <3>1 DEF commit
  <2>2. posted' \subseteq References /\ reversed' \subseteq References
    BY <1>0, <1>e DEF TypeOK
  <2> QED
    BY <1>0, <1>c, <1>d, <2>1, <2>2, <2>3 DEF TypeOK
<1>2. RefOwned'
  BY <1>a, <1>d, <1>e DEF RefOwned, TypeOK, commit
<1>3. Progressing'
  <2> SUFFICES ASSUME NEW d \in Callers
               PROVE  /\ pc'[d] \in {"lock", "apply"} => refOwner'[Reference[d]] = d
                      /\ pc'[d] = "commit" /\ refOwner'[Reference[d]] # d => Reference[d] \in posted'
                      /\ pc'[d] \in {"insert", "lock", "apply", "commit"} =>
                            ReversalOf[Reference[d]] \subseteq posted'
                      /\ pc'[d] \in {"start", "insert"} => found[d] = {}
    BY <1>0 DEF Progressing
  <2>1. CASE d = c
    BY <2>1, <1>d
  <2>2. CASE d # c
    BY <2>2, <1>a, <1>d, <1>e DEF Progressing
  <2> QED
    BY <2>1, <2>2
<1>4. WritesCurrent'
  <2> SUFFICES ASSUME NEW d \in Callers, refOwner'[Reference[d]] = d
               PROVE  /\ todo[d] \subseteq Touched(Reference[d])
                      /\ pc'[d] = "commit" => todo[d] = {}
                      /\ \A b \in found[d] : rowOwner'[b] = d
                      /\ \A b \in Touched(Reference[d]) \ todo[d] :
                            /\ rowOwner'[b] = d
                            /\ writes[d][b] = balance'[b] + Delta[Reference[d]][b]
    BY <1>0 DEF WritesCurrent
  <2>1. d # c /\ refOwner[Reference[d]] = d /\ pc'[d] = pc[d]
    BY <1>a, <1>d
  <2>2. found[d] \subseteq AccountIds /\ Touched(Reference[d]) \subseteq AccountIds
    BY DEF TypeOK, Touched
  <2>3. \A b \in AccountIds : rowOwner[b] = d => rowOwner'[b] = d /\ balance'[b] = balance[b]
    BY <2>1, <1>b, <1>f
  <2>4. /\ todo[d] \subseteq Touched(Reference[d])
        /\ pc[d] = "commit" => todo[d] = {}
        /\ \A b \in found[d] : rowOwner[b] = d
        /\ \A b \in Touched(Reference[d]) \ todo[d] :
              /\ rowOwner[b] = d
              /\ writes[d][b] = balance[b] + Delta[Reference[d]][b]
    BY <2>1 DEF WritesCurrent
  <2> QED
    BY <2>1, <2>2, <2>3, <2>4
<1>5. NoRowNoBalance'
  BY DEF NoRowNoBalance, commit
<1>6. ReversedIffPosted'
  <2>1. posted' = posted \union {r}
    BY <1>e, <1>g
  <2> QED
    BY <2>1, <1>0 DEF ReversedIffPosted
<1> QED
  BY <1>1, <1>2, <1>3, <1>4, <1>5, <1>6

\* Every step keeps it.
LEMMA NextInv == Inv /\ [Next]_vars => Inv'
<1> SUFFICES ASSUME Inv, [Next]_vars PROVE Inv'
  OBVIOUS
<1>1. CASE Next
  <2>1. PICK c \in Callers : step(c) \/ crash(c)
    BY <1>1 DEF Next
  <2>2. CASE start(c) \/ insertTransaction(c)
    BY <2>2, InsertInv
  <2>3. CASE lockBalance(c)
    BY <2>3, LockInv
  <2>4. CASE applyEntryToBalance(c)
    BY <2>4, ApplyInv
  <2>5. CASE commit(c)
    BY <2>5, CommitInv
  <2>6. CASE crash(c)
    BY <2>6, RollbackInv DEF crash, Finished
  <2> QED
    BY <2>1, <2>2, <2>3, <2>4, <2>5, <2>6 DEF step
<1>2. CASE UNCHANGED vars
  BY <1>2 DEF vars, tables, locks, callers, Inv, TypeOK, RefOwned, Progressing,
     WritesCurrent, NoRowNoBalance, ReversedIffPosted
<1> QED
  BY <1>1, <1>2

\* The inductive invariant holds throughout: whoever commits a reference holds its
\* unique index entry and the row of every account it wrote.
THEOREM Invariance == Spec => []Inv
  BY InitInv, NextInv, PTL DEF Spec

\* Every variable keeps its type, so no committed balance is ever negative
\* (applyEntryToBalance), for any set of concurrent calls.
THEOREM NeverNegative == Spec => []TypeOK
<1>1. Inv => TypeOK
  BY DEF Inv
<1> QED
  BY <1>1, Invariance, PTL

\* A transaction is 'reversed' exactly when its reversal is posted, whoever
\* races and wherever callers die (reverseTransaction).
THEOREM ReversalAtomic == Spec => []ReversedIffPosted
<1>1. Inv => ReversedIffPosted
  BY DEF Inv
<1> QED
  BY <1>1, Invariance, PTL

\* A step that posts is one atomic posting of the ledger; any other step changes
\* nothing the ledger's callers see.
LEMMA StepSimulation ==
    Inv /\ [Next]_vars => [L!Next]_<<posted, balance, reversed>>
<1> SUFFICES ASSUME Inv, [Next]_vars,
                    ~ UNCHANGED <<posted, balance, reversed>>
             PROVE  L!Next
  OBVIOUS
<1> USE PostingAssumption DEF Inv
<1>1. PICK c \in Callers : commit(c)
  BY DEF Next, step, crash, start, Existing, insertTransaction, lockBalance,
     applyEntryToBalance, Rollback, vars, tables
<1> DEFINE r == Reference[c]
<1>2. r \in References /\ ReversalOf[r] \subseteq posted /\ pc[c] = "commit"
  BY <1>1 DEF commit, Progressing
<1>3. reversed' = reversed \union ReversalOf[r]
  BY <1>1 DEF commit
<1>4. CASE refOwner[r] = c
  <2>1. r \notin posted
    BY <1>2, <1>4 DEF RefOwned
  <2>2. \A a \in AccountIds : a \in Touched(r) =>
           writes[c][a] = balance[a] + Delta[r][a]
    BY <1>2, <1>4 DEF WritesCurrent
  <2>3. \A a \in AccountIds : a \notin Touched(r) => Delta[r][a] = 0
    BY DEF Touched
  <2>4. /\ posted' = posted \union {r}
        /\ balance' = [a \in AccountIds |-> IF a \in Touched(r) THEN writes[c][a]
                                            ELSE balance[a]]
    BY <1>1, <1>4 DEF commit
  <2>5. balance \in [AccountIds -> Nat] /\ balance' \in [AccountIds -> Nat]
    BY <2>4 DEF TypeOK
  <2>6. \A a \in AccountIds : balance'[a] = balance[a] + Delta[r][a]
    BY <2>2, <2>3, <2>4, <2>5
  <2>7. \A a \in AccountIds : balance[a] + Delta[r][a] >= 0
    BY <2>5, <2>6
  <2>8. balance' = [a \in AccountIds |-> balance[a] + Delta[r][a]]
    BY <2>5, <2>6
  <2>9. L!Post(r)
    BY <1>2, <1>3, <2>1, <2>4, <2>7, <2>8 DEF L!Post
  <2> QED
    BY <1>2, <2>9 DEF L!Next
<1>5. CASE refOwner[r] # c
  <2>1. r \in posted /\ posted' = posted /\ balance' = balance
    BY <1>1, <1>2, <1>5 DEF commit, Progressing
  <2>2. ReversalOf[r] \subseteq reversed
    BY <2>1 DEF ReversedIffPosted
  <2> QED
    BY <1>3, <2>1, <2>2
<1> QED
  BY <1>4, <1>5

\* The statements of postTransaction and reverseTransaction implement the atomic
\* ledger: every behaviour of theirs, seen through the committed tables, is one of
\* Ledger, for any calls, accounts, missing balance rows and deaths.
THEOREM Refinement == Spec => ImplementsLedger
<1>1. Init => L!Init
  BY PostingAssumption DEF Init, L!Init
<1>2. Inv /\ [Next]_vars => [L!Next]_<<posted, balance, reversed>>
  BY StepSimulation
<1> QED
  BY <1>1, <1>2, Invariance, PTL DEF Spec, ImplementsLedger, L!Spec
=============================================================================
