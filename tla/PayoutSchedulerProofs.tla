----------------------- MODULE PayoutSchedulerProofs ------------------------
(***************************************************************************)
(* The lock counts the legs under way, no leg is paid twice and no         *)
(* admitted leg finds the balance short, outside the windows the code      *)
(* leaves: for any legs, amounts, dates, funds, operations of an admin and *)
(* failures.                                                               *)
(***************************************************************************)
EXTENDS PayoutScheduler, SumTheorems

(* The inductive invariant *)

Job == [leg : Legs, n : Nat, isFanOutLeg : BOOLEAN,
        at : {"queued", "posted", "pending", "executed", "released", "done"}]

\* Every variable keeps its type.
TypeOK ==
    /\ fired \in SUBSET Legs
    /\ balance \in Nat
    /\ lock \in Nat
    /\ rivals \in [count : Nat, active : BOOLEAN]
    /\ sweep \in [pc : {"idle", "balance", "claim", "enqueue"}, legs : SUBSET Legs,
                  balance : Nat, moved : BOOLEAN]
    /\ jobs \in SUBSET Job /\ IsFiniteSet(jobs)
    /\ paid \in [Legs -> Nat]
    /\ windows \in SUBSET {"overlap", "moved", "interrupted"}
    /\ short \in BOOLEAN

\* The jobs of a leg.
JobsOf(l) == {j \in jobs : j.leg = l}

\* The jobs of a leg are numbered, so that a new one is another.
Numbered ==
    /\ \A j, k \in jobs : j.leg = k.leg /\ j.n = k.n => j = k
    /\ \A j \in jobs : j.n < Cardinality(JobsOf(j.leg))

\* A sweep works on some legs, and on one at most unless the pot is unordered.
Sweeping ==
    /\ sweep.pc = "idle" <=> sweep.legs = {}
    /\ mode # "unordered" => \A k, l \in sweep.legs : k = l
    /\ \A j \in jobs : j.isFanOutLeg <=> mode = "unordered"

\* The payouts that have a share in the lock.
Held == {j \in jobs : j.at \in {"queued", "posted", "pending", "executed"}}

\* The legs the sweep has claimed the lock for and not yet enqueued.
Claimed == IF sweep.pc = "enqueue" THEN sweep.legs ELSE {}

\* The lock counts the shares; a single payout and an admin's operation hold it alone.
LockCounts ==
    "interrupted" \notin windows =>
        /\ lock = Cardinality(Held) + Cardinality(Claimed) + (IF rivals.active THEN 1 ELSE 0)
        /\ mode # "unordered" => lock <= 1
        /\ rivals.active => lock = 1

\* No sweep began while a payout was under way, and no statement failed after one.
Orderly == windows \intersect {"overlap", "interrupted"} = {}

\* The payouts under way are those of one sweep, each of another leg, and none of
\* these legs has fired.
OneSweep ==
    Orderly =>
        /\ sweep.pc \in {"balance", "claim"} => Live = {}
        /\ \A j, k \in Live : j.leg = k.leg => j = k
        /\ \A j \in Live : j.leg \notin fired /\ j.leg \notin sweep.legs
        /\ sweep.legs \intersect fired = {}

\* A recurring payout under way is that of the next occurrence.
NextOccurrence ==
    Orderly /\ mode = "recurring" =>
        /\ \A l \in sweep.legs : l = Min(Unfired)
        /\ \A j \in Live : j.leg = Min(Unfired)

\* What was paid has fired, or is about to.
PaidFires ==
    Orderly =>
        \A l \in Legs :
            /\ paid[l] <= 1
            /\ paid[l] = 1 => \/ l \in fired
                              \/ \E j \in Live : j.leg = l /\ j.at \in {"executed", "released"}

\* What each leg takes from the pot.
need == [l \in Legs |-> Need(l)]

\* The legs that were admitted and are still to be posted.
Owed == {j.leg : j \in {i \in jobs : i.at = "queued"}} \union Claimed

\* The balance covers what was admitted.
Covered ==
    windows = {} =>
        /\ ~short
        /\ Sum(need, Owed) <= balance
        /\ sweep.pc = "claim" /\ ~sweep.moved => Sum(need, sweep.legs) <= balance

Inv ==
    /\ TypeOK
    /\ Numbered
    /\ Sweeping
    /\ LockCounts
    /\ OneSweep
    /\ NextOccurrence
    /\ PaidFires
    /\ Covered
-----------------------------------------------------------------------------
(* The legs and what they need *)

\* The legs are finitely many numbers.
LEMMA LegsFinite ==
    /\ IsFiniteSet(Legs) /\ Legs \subseteq Nat
    /\ \A S \in SUBSET Legs : IsFiniteSet(S) /\ Cardinality(S) \in Nat
<1>1. IsFiniteSet(Legs) /\ Cardinality(Legs) \in Nat
  BY SchedulerAssumption, FS_CardinalityType
<1>2. Legs \subseteq Nat
  BY <1>1, SchedulerAssumption
<1> QED
  BY <1>1, <1>2, FS_Subset, FS_CardinalityType

\* Legs have a last one.
LEMMA LastIn ==
    ASSUME NEW S \in SUBSET Legs, S # {}
    PROVE  \E x \in S : \A y \in S : x >= y
<1> DEFINE Bad == {T \in SUBSET S : T # {} /\ ~ \E x \in T : \A y \in T : x >= y}
<1>1. SUFFICES ASSUME Bad # {} PROVE FALSE
  OBVIOUS
<1>2. PICK T \in Bad : \A u \in Bad : u \subseteq T => u = T
  <2>1. Bad \subseteq SUBSET S /\ IsFiniteSet(S)
    BY LegsFinite
  <2> HIDE DEF Bad
  <2> QED
    BY <1>1, <2>1, Minimal
<1>3. PICK x \in T : TRUE
  OBVIOUS
<1>4. T \subseteq Nat
  BY LegsFinite
<1>5. T \ {x} # {}
  BY <1>3, <1>4
<1>6. PICK m \in T \ {x} : \A y \in T \ {x} : m >= y
  <2>1. T \ {x} \notin Bad
    <3>1. T \ {x} \subseteq T /\ T \ {x} # T
      BY <1>3
    <3> HIDE DEF Bad
    <3> QED
      BY <1>2, <3>1
  <2>2. T \ {x} \in SUBSET S
    OBVIOUS
  <2> QED
    BY <1>5, <2>1, <2>2
<1> QED
  BY <1>3, <1>4, <1>6

\* Legs have a first one, which is their Min.
LEMMA MinIn ==
    ASSUME NEW S \in SUBSET Legs, S # {}
    PROVE  Min(S) \in S
<1> DEFINE Bad == {T \in SUBSET S : T # {} /\ ~ \E x \in T : \A y \in T : x =< y}
<1>0. SUFFICES \E x \in S : \A y \in S : x =< y
  BY DEF Min
<1>1. SUFFICES ASSUME Bad # {} PROVE FALSE
  OBVIOUS
<1>2. PICK T \in Bad : \A u \in Bad : u \subseteq T => u = T
  <2>1. Bad \subseteq SUBSET S /\ IsFiniteSet(S)
    BY LegsFinite
  <2> HIDE DEF Bad
  <2> QED
    BY <1>1, <2>1, Minimal
<1>3. PICK x \in T : TRUE
  OBVIOUS
<1>4. T \subseteq Nat
  BY LegsFinite
<1>5. T \ {x} # {}
  BY <1>3, <1>4
<1>6. PICK m \in T \ {x} : \A y \in T \ {x} : m =< y
  <2>1. T \ {x} \notin Bad
    <3>1. T \ {x} \subseteq T /\ T \ {x} # T
      BY <1>3
    <3> HIDE DEF Bad
    <3> QED
      BY <1>2, <3>1
  <2>2. T \ {x} \in SUBSET S
    OBVIOUS
  <2> QED
    BY <1>5, <2>1, <2>2
<1> QED
  BY <1>3, <1>4, <1>6

\* A leg needs its amount and the fee.
LEMMA NeedTyped ==
    /\ \A l \in Legs : Need(l) \in Nat /\ need[l] = Need(l)
    /\ \A S \in SUBSET Legs : Sum(need, S) \in Nat
<1>1. \A l \in Legs : 1 \in Legs
  BY SchedulerAssumption, LegsFinite
<1>2. \A l \in Legs : Need(l) \in Nat
  BY <1>1, SchedulerAssumption DEF Need
<1>3. \A l \in Legs : need[l] = Need(l)
  BY DEF need
<1>4. ASSUME NEW S \in SUBSET Legs PROVE Sum(need, S) \in Nat
  <2>1. IsFiniteSet(S) /\ \A l \in S : need[l] \in Int /\ need[l] >= 0
    BY <1>2, <1>3, LegsFinite
  <2>2. Sum(need, S) \in Int /\ Sum(need, S) >= 0
    <3> HIDE DEF need
    <3> QED
      BY <2>1, SumType
  <2> QED
    BY <2>2
<1> QED
  BY <1>2, <1>3, <1>4

\* The sum as admitted writes it.
LEMMA NeedSumIs ==
    ASSUME NEW S \in SUBSET Legs
    PROVE  MapThenSumSet(Need, S) = Sum(need, S)
<1> DEFINE Takes(g) == g = [s \in SUBSET S |->
                              IF s = {} THEN 0 ELSE Need(First(s)) + g[s \ {First(s)}]]
<1>1. MapThenSumSet(Need, S) = (CHOOSE g : Takes(g))[S]
  BY DEF MapThenSumSet, MapThenFoldSet, First
<1>2. \A s \in SUBSET S : s # {} => need[First(s)] = Need(First(s))
  BY FirstIn, NeedTyped
<1>3. \A g : Takes(g) <=> Adds(g, need, S)
  BY <1>2 DEF Adds
<1>4. IsFiniteSet(S)
  BY LegsFinite
<1>5. \E g : Takes(g)
  BY <1>3, <1>4, Exists
<1>6. Takes(CHOOSE g : Takes(g))
  BY <1>5
<1>7. Adds(CHOOSE g : Takes(g), need, S)
  <2> HIDE DEF Takes
  <2> QED
    BY <1>3, <1>6
<1> HIDE DEF Takes
<1>8. Sum(need, S) = (CHOOSE g : Takes(g))[S]
  BY <1>4, <1>7, SumOfSubset, S \in SUBSET S
<1> QED
  BY <1>1, <1>8
-----------------------------------------------------------------------------
(* What the sweep admits *)

\* A is what goes through the legs admits.
Admits(A, legs, funds) ==
    \A l \in legs : l \in A <=> funds - Sum(need, {k \in A : k < l}) >= Need(l)

\* For every set of legs there is a set of admitted ones.
LEMMA AdmitsExists ==
    ASSUME NEW legs \in SUBSET Legs, NEW funds \in Nat
    PROVE  \E A \in SUBSET legs : Admits(A, legs, funds)
<1> DEFINE Bad == {T \in SUBSET legs : ~ \E A \in SUBSET T : Admits(A, T, funds)}
<1>1. SUFFICES ASSUME Bad # {} PROVE FALSE
  OBVIOUS
<1>2. PICK T \in Bad : \A u \in Bad : u \subseteq T => u = T
  <2>1. Bad \subseteq SUBSET legs /\ IsFiniteSet(legs)
    BY LegsFinite
  <2> HIDE DEF Bad
  <2> QED
    BY <1>1, <2>1, Minimal
<1>3. T # {}
  BY DEF Admits
<1>4. T \in SUBSET Legs /\ T \subseteq Nat
  BY LegsFinite
<1>5. PICK m \in T : \A y \in T : m >= y
  BY <1>3, <1>4, LastIn
<1>6. PICK A \in SUBSET (T \ {m}) : Admits(A, T \ {m}, funds)
  BY <1>2, <1>5
<1> DEFINE B == IF funds - Sum(need, A) >= Need(m) THEN A \union {m} ELSE A
<1>7. B \in SUBSET T
  OBVIOUS
<1>8. {k \in B : k < m} = A
  <2>1. \A k \in A : k < m /\ k # m
    BY <1>4, <1>5
  <2>2. ~(m < m)
    BY <1>4
  <2> QED
    BY <2>1, <2>2
<1>9. \A l \in T \ {m} : {k \in B : k < l} = {k \in A : k < l}
  BY <1>4, <1>5
<1>10. ASSUME NEW l \in T \ {m}
       PROVE  l \in B <=> funds - Sum(need, {k \in B : k < l}) >= Need(l)
  <2>1. {k \in B : k < l} = {k \in A : k < l} /\ (l \in B <=> l \in A)
    BY <1>9
  <2>2. l \in A <=> funds - Sum(need, {k \in A : k < l}) >= Need(l)
    BY <1>6 DEF Admits
  <2>3. Sum(need, {k \in B : k < l}) = Sum(need, {k \in A : k < l})
    BY <2>1, Zenon
  <2> HIDE DEF B
  <2> QED
    BY <2>1, <2>2, <2>3
<1>11. m \in B <=> funds - Sum(need, {k \in B : k < m}) >= Need(m)
  <2>1. m \in B <=> funds - Sum(need, A) >= Need(m)
    OBVIOUS
  <2>2. Sum(need, {k \in B : k < m}) = Sum(need, A)
    BY <1>8, Zenon
  <2> HIDE DEF B
  <2> QED
    BY <2>1, <2>2
<1>12. Admits(B, T, funds)
  <2> HIDE DEF B
  <2> QED
    BY <1>10, <1>11 DEF Admits
<1> QED
  BY <1>2, <1>7, <1>12

\* What is admitted is among the legs and the balance covers it
\* (enqueueUnorderedLegs).
THEOREM AdmittedFits ==
    ASSUME NEW legs \in SUBSET Legs, NEW funds \in Nat
    PROVE  /\ admitted(legs, funds) \in SUBSET legs
           /\ Sum(need, admitted(legs, funds)) <= funds
<1> DEFINE Fits(A) == \A l \in legs :
                        l \in A <=> funds - MapThenSumSet(Need, {k \in A : k < l}) >= Need(l)
           A == admitted(legs, funds)
<1>1. \A B \in SUBSET legs : Fits(B) <=> Admits(B, legs, funds)
  <2> SUFFICES ASSUME NEW B \in SUBSET legs
               PROVE  Fits(B) <=> Admits(B, legs, funds)
    OBVIOUS
  <2>1. \A l \in legs : MapThenSumSet(Need, {k \in B : k < l}) = Sum(need, {k \in B : k < l})
    BY NeedSumIs
  <2> QED
    BY <2>1 DEF Admits
<1>2. \E B \in SUBSET legs : Fits(B)
  BY <1>1, AdmitsExists
<1>3. A \in SUBSET legs /\ Fits(A)
  BY <1>2 DEF admitted
<1> HIDE DEF A
<1>4. Admits(A, legs, funds)
  <2> HIDE DEF Fits
  <2> QED
    BY <1>1, <1>3
<1>5. CASE A = {}
  BY <1>5, SumEmpty DEF A
<1>6. CASE A # {}
  <2>1. PICK m \in A : \A y \in A : m >= y
    BY <1>3, <1>6, LastIn
  <2>2. A \subseteq Nat /\ IsFiniteSet(A) /\ m \in Legs
    BY <1>3, LegsFinite
  <2>3. {k \in A : k < m} = A \ {m}
    <3>1. \A k \in A : k < m <=> k # m
      BY <2>1, <2>2
    <3> QED
      BY <3>1
  <2>4. funds - Sum(need, {k \in A : k < m}) >= Need(m)
    BY <1>3, <1>4, <2>1 DEF Admits
  <2>5. Sum(need, {k \in A : k < m}) = Sum(need, A \ {m})
    BY <2>3, Zenon
  <2>6. Sum(need, A) = need[m] + Sum(need, A \ {m})
    <3>1. \A l \in A : need[l] \in Int
      BY <1>3, NeedTyped
    <3> HIDE DEF need
    <3> QED
      BY <2>1, <2>2, <3>1, SumRemove
  <2>7. need[m] = Need(m) /\ Need(m) \in Nat /\ Sum(need, A \ {m}) \in Nat
    BY <1>3, <2>2, NeedTyped
  <2> HIDE DEF need
  <2>8. Sum(need, A) <= funds
    BY <2>4, <2>5, <2>6, <2>7
  <2> QED
    BY <1>3, <2>8 DEF A
<1> QED
  BY <1>3, <1>5, <1>6 DEF A
-----------------------------------------------------------------------------
(* A job that moves on, and a job more *)

At == {"queued", "posted", "pending", "executed", "released", "done"}

\* k takes the place of j.
Moved(j, k) ==
    /\ k \in Job /\ k.leg = j.leg /\ k.n = j.n /\ (k.isFanOutLeg <=> j.isFanOutLeg)
    /\ k \notin jobs \ {j}
    /\ jobs' = (jobs \ {j}) \union {k}

\* A step of a job puts the same job at another place.
LEMMA StepMoves ==
    ASSUME TypeOK, Numbered, NEW j \in jobs, NEW at \in At, jobs' = Step(j, at)
    PROVE  \E k : k.at = at /\ Moved(j, k)
<1> DEFINE k == [j EXCEPT !.at = at]
<1>1. j \in Job
  BY DEF TypeOK
<1>2. k \in Job /\ k.leg = j.leg /\ k.n = j.n /\ (k.isFanOutLeg <=> j.isFanOutLeg) /\ k.at = at
  BY <1>1 DEF Job, At
<1>3. jobs' = (jobs \ {j}) \union {k}
  BY DEF Step
<1> HIDE DEF k
<1>4. k \notin jobs \ {j}
  BY <1>2 DEF Numbered
<1> QED
  BY <1>2, <1>3, <1>4 DEF Moved

\* What becomes of the sets of jobs.
LEMMA MovedSets ==
    ASSUME TypeOK, NEW j \in jobs, NEW k, Moved(j, k)
    PROVE  /\ jobs' \in SUBSET Job /\ IsFiniteSet(jobs')
           /\ Live' = (Live \ {j}) \union (IF k.at # "done" THEN {k} ELSE {})
           /\ Cardinality(Held) \in Nat /\ Cardinality(Held') \in Nat
           /\ j \in Held => Cardinality(Held) >= 1
           /\ Cardinality(Held') = Cardinality(Held) - (IF j \in Held THEN 1 ELSE 0)
                + (IF k.at \in {"queued", "posted", "pending", "executed"} THEN 1 ELSE 0)
<1>1. IsFiniteSet(jobs) /\ jobs' = (jobs \ {j}) \union {k} /\ k \in Job /\ k \notin jobs \ {j}
  BY DEF TypeOK, Moved
<1>2. jobs' \in SUBSET Job /\ IsFiniteSet(jobs')
  BY <1>1, FS_RemoveElement, FS_AddElement DEF TypeOK
<1>3. Live' = (Live \ {j}) \union (IF k.at # "done" THEN {k} ELSE {})
  BY <1>1 DEF Live
<1> DEFINE has == k.at \in {"queued", "posted", "pending", "executed"}
<1>4. Held' = IF has THEN (Held \ {j}) \union {k} ELSE Held \ {j}
  BY <1>1 DEF Held
<1>5. IsFiniteSet(Held) /\ k \notin Held \ {j}
  BY <1>1, FS_Subset DEF Held
<1>6. /\ IsFiniteSet(Held \ {j})
      /\ Cardinality(Held \ {j}) = IF j \in Held THEN Cardinality(Held) - 1 ELSE Cardinality(Held)
  BY <1>5, FS_RemoveElement
<1>7. Cardinality((Held \ {j}) \union {k}) = Cardinality(Held \ {j}) + 1
  BY <1>5, <1>6, FS_AddElement
<1>8. Cardinality(Held) \in Nat /\ Cardinality(Held \ {j}) \in Nat
  BY <1>5, <1>6, FS_CardinalityType
<1>9. CASE has
  <2>1. Cardinality(Held') = Cardinality((Held \ {j}) \union {k})
    BY <1>4, <1>9, Zenon
  <2> QED
    BY <1>2, <1>3, <1>6, <1>7, <1>8, <1>9, <2>1
<1>10. CASE ~has
  <2>1. Cardinality(Held') = Cardinality(Held \ {j})
    BY <1>4, <1>10, Zenon
  <2> QED
    BY <1>2, <1>3, <1>6, <1>8, <1>10, <2>1
<1> QED
  BY <1>9, <1>10

\* A job that moves keeps its number.
LEMMA MovedNumbered ==
    ASSUME TypeOK, Numbered, NEW j \in jobs, NEW k, Moved(j, k)
    PROVE  Numbered'
<1>1. IsFiniteSet(jobs) /\ jobs' = (jobs \ {j}) \union {k} /\ k \notin jobs \ {j}
      /\ k.leg = j.leg /\ k.n = j.n
  BY DEF TypeOK, Moved
<1>2. \A p, q \in jobs' : p.leg = q.leg /\ p.n = q.n => p = q
  BY <1>1 DEF Numbered
<1>3. ASSUME NEW l PROVE Cardinality(JobsOf(l)') = Cardinality(JobsOf(l))
  <2>1. IsFiniteSet(JobsOf(l)) /\ k \notin JobsOf(l) \ {j}
    BY <1>1, FS_Subset DEF JobsOf
  <2>2. CASE l = j.leg
    <3>1. JobsOf(l)' = (JobsOf(l) \ {j}) \union {k} /\ j \in JobsOf(l)
      BY <1>1, <2>2 DEF JobsOf
    <3>2. /\ IsFiniteSet(JobsOf(l) \ {j})
          /\ Cardinality(JobsOf(l) \ {j}) = Cardinality(JobsOf(l)) - 1
      BY <2>1, <3>1, FS_RemoveElement
    <3>3. Cardinality((JobsOf(l) \ {j}) \union {k}) = Cardinality(JobsOf(l) \ {j}) + 1
      BY <2>1, <3>2, FS_AddElement
    <3>4. Cardinality(JobsOf(l)) \in Nat
      BY <2>1, FS_CardinalityType
    <3>5. Cardinality(JobsOf(l)') = Cardinality((JobsOf(l) \ {j}) \union {k})
      BY <3>1, Zenon
    <3> QED
      BY <3>2, <3>3, <3>4, <3>5
  <2>3. CASE l # j.leg
    <3>1. JobsOf(l)' = JobsOf(l)
      BY <1>1, <2>3 DEF JobsOf
    <3> QED
      BY <3>1, Zenon
  <2> QED
    BY <2>2, <2>3
<1>4. ASSUME NEW p \in jobs' PROVE p.n < Cardinality(JobsOf(p.leg)')
  <2>1. PICK q \in jobs : q.leg = p.leg /\ q.n = p.n
    BY <1>1
  <2>2. q.n < Cardinality(JobsOf(q.leg))
    BY DEF Numbered
  <2> QED
    BY <1>3, <2>1, <2>2
<1>5. \A p \in jobs' : (p.n < Cardinality(JobsOf(p.leg)))'
  BY <1>4 DEF JobsOf
<1> QED
  BY <1>2, <1>5 DEF Numbered

\* The job the sweep adds next.
Fresh(l) == [leg |-> l, n |-> Cardinality(JobsOf(l)), isFanOutLeg |-> mode = "unordered",
             at |-> "queued"]

\* It is none of those there are.
LEMMA FreshJob ==
    ASSUME TypeOK, Numbered, NEW l \in Legs, NEW k, k = Fresh(l)
    PROVE  /\ k \in Job /\ k \notin jobs /\ k.leg = l /\ k.at = "queued"
           /\ k.n = Cardinality(JobsOf(l)) /\ (k.isFanOutLeg <=> mode = "unordered")
           /\ IsFiniteSet(JobsOf(l)) /\ Cardinality(JobsOf(l)) \in Nat
<1>1. IsFiniteSet(JobsOf(l)) /\ Cardinality(JobsOf(l)) \in Nat
  BY FS_Subset, FS_CardinalityType DEF TypeOK, JobsOf
<1>2. k.leg = l /\ k.at = "queued" /\ k.n = Cardinality(JobsOf(l))
      /\ (k.isFanOutLeg <=> mode = "unordered") /\ k \in Job
  BY <1>1 DEF Fresh, Job
<1>3. k \notin jobs
  <2> SUFFICES ASSUME k \in jobs PROVE FALSE
    OBVIOUS
  <2>1. k.n < Cardinality(JobsOf(k.leg))
    BY DEF Numbered
  <2> QED
    BY <1>1, <1>2, <2>1
<1> QED
  BY <1>1, <1>2, <1>3

\* A job more is numbered after the others of its leg.
LEMMA AddedNumbered ==
    ASSUME TypeOK, Numbered, NEW l \in Legs, NEW k, k = Fresh(l), jobs' = jobs \union {k}
    PROVE  Numbered'
<1>1. /\ k \in Job /\ k \notin jobs /\ k.leg = l /\ k.n = Cardinality(JobsOf(l))
      /\ IsFiniteSet(JobsOf(l)) /\ Cardinality(JobsOf(l)) \in Nat
  BY FreshJob
<1>2. \A p \in jobs : p.leg = l => p.n < Cardinality(JobsOf(l)) /\ p.n \in Nat
  BY DEF Numbered, TypeOK, Job
<1>3. \A p, q \in jobs' : p.leg = q.leg /\ p.n = q.n => p = q
  <2> SUFFICES ASSUME NEW p \in jobs', NEW q \in jobs', p.leg = q.leg, p.n = q.n
               PROVE  p = q
    OBVIOUS
  <2>1. CASE p \in jobs /\ q \in jobs
    BY <2>1 DEF Numbered
  <2>2. CASE p = k \/ q = k
    BY <1>1, <1>2, <2>2
  <2> QED
    BY <2>1, <2>2
<1>4. JobsOf(l)' = JobsOf(l) \union {k} /\ k \notin JobsOf(l)
  BY <1>1 DEF JobsOf
<1>5. Cardinality(JobsOf(l)') = Cardinality(JobsOf(l)) + 1
  <2>1. Cardinality(JobsOf(l) \union {k}) = Cardinality(JobsOf(l)) + 1
    BY <1>1, <1>4, FS_AddElement
  <2>2. Cardinality(JobsOf(l)') = Cardinality(JobsOf(l) \union {k})
    BY <1>4, Zenon
  <2> QED
    BY <2>1, <2>2
<1>6. ASSUME NEW m, m # l PROVE Cardinality(JobsOf(m)') = Cardinality(JobsOf(m))
  <2>1. JobsOf(m)' = JobsOf(m)
    BY <1>1, <1>6 DEF JobsOf
  <2> QED
    BY <2>1, Zenon
<1>7. ASSUME NEW p \in jobs' PROVE p.n < Cardinality(JobsOf(p.leg)')
  <2>1. CASE p = k
    <3>1. p.leg = l /\ p.n = Cardinality(JobsOf(l))
      BY <1>1, <2>1
    <3> QED
      BY <1>1, <1>5, <3>1
  <2>2. CASE p \in jobs /\ p.leg = l
    BY <1>1, <1>2, <1>5, <2>2
  <2>3. CASE p \in jobs /\ p.leg # l
    <3>1. p.n < Cardinality(JobsOf(p.leg))
      BY <2>3 DEF Numbered
    <3> QED
      BY <1>6, <2>3, <3>1
  <2> QED
    BY <2>1, <2>2, <2>3
<1>8. \A p \in jobs' : (p.n < Cardinality(JobsOf(p.leg)))'
  BY <1>7 DEF JobsOf
<1> QED
  BY <1>3, <1>8 DEF Numbered

\* A job more has a share in the lock.
LEMMA AddedSets ==
    ASSUME TypeOK, NEW k \in Job, k \notin jobs, k.at = "queued", jobs' = jobs \union {k}
    PROVE  /\ jobs' \in SUBSET Job /\ IsFiniteSet(jobs')
           /\ Live' = Live \union {k}
           /\ Cardinality(Held) \in Nat /\ Cardinality(Held') = Cardinality(Held) + 1
<1>1. IsFiniteSet(jobs) /\ IsFiniteSet(Held) /\ k \notin Held /\ Cardinality(Held) \in Nat
  BY FS_Subset, FS_CardinalityType DEF TypeOK, Held
<1>2. jobs' \in SUBSET Job /\ IsFiniteSet(jobs')
  BY <1>1, FS_AddElement DEF TypeOK
<1>3. Live' = Live \union {k} /\ Held' = Held \union {k}
  BY DEF Live, Held
<1>4. Cardinality(Held \union {k}) = Cardinality(Held) + 1
  BY <1>1, FS_AddElement
<1>5. Cardinality(Held') = Cardinality(Held \union {k})
  BY <1>3, Zenon
<1> QED
  BY <1>1, <1>2, <1>3, <1>4, <1>5
-----------------------------------------------------------------------------
(* The steps, by what the invariant sees of them *)

\* What a job's step does: j is the job before, k after it.
Posts(j, k) ==
    /\ j.at = "queued" /\ k.at = "posted"
    /\ balance >= Need(j.leg) /\ balance' = balance - Need(j.leg)
    /\ UNCHANGED <<fired, lock, paid, windows, short>>
FindsShort(j, k) ==
    /\ j.at = "queued" /\ k.at = "done"
    /\ balance < Need(j.leg) /\ lock' = releaseLock(j) /\ short' = TRUE
    /\ UNCHANGED <<fired, balance, paid, windows>>
Executes(j, k) ==
    /\ j.at = "posted" /\ k.at = "executed"
    /\ Execute(j.leg)
    /\ UNCHANGED <<fired, balance, lock, windows, short>>
Waits(j, k) ==
    /\ j.at = "posted" /\ k.at = "pending"
    /\ UNCHANGED <<fired, balance, lock, paid, windows, short>>
Refused(j, k) ==
    /\ j.at = "posted" /\ k.at = "done"
    /\ balance' = balance + Need(j.leg) /\ lock' = releaseLock(j)
    /\ UNCHANGED <<fired, paid, windows, short>>
Releases(j, k) ==
    /\ j.at = "executed" /\ k.at = "released"
    /\ lock' = releaseLock(j)
    /\ UNCHANGED <<fired, balance, paid, windows, short>>
Applies(j, k) ==
    /\ j.at = "released" /\ k.at = "done"
    /\ fired' = onSuccess(j.leg)
    /\ UNCHANGED <<balance, lock, paid, windows, short>>
Interrupted(j, k) ==
    /\ j.at = "released" /\ k.at = "done"
    /\ balance' = balance + Need(j.leg) /\ lock' = releaseLock(j)
    /\ windows' = windows \union {"interrupted"}
    /\ UNCHANGED <<fired, paid, short>>
Resolves(j, k) ==
    /\ j.at = "pending" /\ k.at = "done"
    /\ Execute(j.leg) /\ fired' = onSuccess(j.leg)
    /\ lock' = decrementPendingOperationLeg
    /\ UNCHANGED <<balance, windows, short>>
ResolvesRefused(j, k) ==
    /\ j.at = "pending" /\ k.at = "done"
    /\ balance' = balance + Need(j.leg) /\ lock' = decrementPendingOperationLeg
    /\ UNCHANGED <<fired, paid, windows, short>>

JobMoves(j, k) ==
    \/ Posts(j, k) \/ FindsShort(j, k) \/ Executes(j, k) \/ Waits(j, k) \/ Refused(j, k)
    \/ Releases(j, k) \/ Applies(j, k) \/ Interrupted(j, k)
    \/ Resolves(j, k) \/ ResolvesRefused(j, k)

\* Every step of a worker or of a webhook is one of these.
LEMMA JobStep ==
    ASSUME TypeOK, Numbered, NEW j \in jobs, workerStep(j) \/ resolvePendingTransfer(j)
    PROVE  /\ UNCHANGED <<mode, rivals, sweep>>
           /\ \E k : Moved(j, k) /\ JobMoves(j, k)
<1>1. CASE post(j)
  <2>1. UNCHANGED <<mode, rivals, sweep>> /\ j.at = "queued"
    BY <1>1 DEF post
  <2>2. CASE /\ balance >= Need(j.leg) /\ balance' = balance - Need(j.leg)
             /\ jobs' = Step(j, "posted") /\ UNCHANGED <<lock, short>>
    <3>1. PICK k : k.at = "posted" /\ Moved(j, k)
      BY <2>2, StepMoves DEF At
    <3>2. Posts(j, k)
      BY <1>1, <2>1, <2>2, <3>1 DEF post, Posts
    <3> QED
      BY <2>1, <3>1, <3>2 DEF JobMoves
  <2>3. CASE /\ balance < Need(j.leg) /\ lock' = releaseLock(j)
             /\ jobs' = Step(j, "done") /\ short' = TRUE /\ UNCHANGED balance
    <3>1. PICK k : k.at = "done" /\ Moved(j, k)
      BY <2>3, StepMoves DEF At
    <3>2. FindsShort(j, k)
      BY <1>1, <2>1, <2>3, <3>1 DEF post, FindsShort
    <3> QED
      BY <2>1, <3>1, <3>2 DEF JobMoves
  <2> QED
    BY <1>1, <2>2, <2>3 DEF post
<1>2. CASE transfer(j)
  <2>1. UNCHANGED <<mode, rivals, sweep, fired, windows, short>> /\ j.at = "posted"
    BY <1>2 DEF transfer
  <2>2. CASE Execute(j.leg) /\ jobs' = Step(j, "executed") /\ UNCHANGED <<balance, lock>>
    <3>1. PICK k : k.at = "executed" /\ Moved(j, k)
      BY <2>2, StepMoves DEF At
    <3>2. Executes(j, k)
      BY <2>1, <2>2, <3>1 DEF Executes
    <3> QED
      BY <2>1, <3>1, <3>2 DEF JobMoves
  <2>3. CASE jobs' = Step(j, "pending") /\ UNCHANGED <<balance, lock, paid>>
    <3>1. PICK k : k.at = "pending" /\ Moved(j, k)
      BY <2>3, StepMoves DEF At
    <3>2. Waits(j, k)
      BY <2>1, <2>3, <3>1 DEF Waits
    <3> QED
      BY <2>1, <3>1, <3>2 DEF JobMoves
  <2>4. CASE /\ balance' = balance + Need(j.leg) /\ lock' = releaseLock(j)
             /\ jobs' = Step(j, "done") /\ UNCHANGED paid
    <3>1. PICK k : k.at = "done" /\ Moved(j, k)
      BY <2>4, StepMoves DEF At
    <3>2. Refused(j, k)
      BY <2>1, <2>4, <3>1 DEF Refused
    <3> QED
      BY <2>1, <3>1, <3>2 DEF JobMoves
  <2> QED
    BY <1>2, <2>2, <2>3, <2>4 DEF transfer
<1>3. CASE complete(j)
  <2>1. PICK k : k.at = "released" /\ Moved(j, k)
    BY <1>3, StepMoves DEF complete, At
  <2>2. Releases(j, k) /\ UNCHANGED <<mode, rivals, sweep>>
    BY <1>3, <2>1 DEF complete, Releases
  <2> QED
    BY <2>1, <2>2 DEF JobMoves
<1>4. CASE applyOnSuccess(j)
  <2>1. PICK k : k.at = "done" /\ Moved(j, k)
    BY <1>4, StepMoves DEF applyOnSuccess, At
  <2>2. (Applies(j, k) \/ Interrupted(j, k)) /\ UNCHANGED <<mode, rivals, sweep>>
    BY <1>4, <2>1 DEF applyOnSuccess, Applies, Interrupted
  <2> QED
    BY <2>1, <2>2 DEF JobMoves
<1>5. CASE resolvePendingTransfer(j)
  <2>1. PICK k : k.at = "done" /\ Moved(j, k)
    BY <1>5, StepMoves DEF resolvePendingTransfer, At
  <2>2. (Resolves(j, k) \/ ResolvesRefused(j, k)) /\ UNCHANGED <<mode, rivals, sweep>>
    BY <1>5, <2>1 DEF resolvePendingTransfer, Resolves, ResolvesRefused
  <2> QED
    BY <2>1, <2>2 DEF JobMoves
<1> QED
  BY <1>1, <1>2, <1>3, <1>4, <1>5 DEF workerStep

\* The sweep reads the legs: none has fired, and but for an unordered pot it is the
\* first.
LEMMA ReadDueStep ==
    ASSUME TypeOK, readDue
    PROVE  /\ sweep.pc = "idle" /\ sweep'.pc = "balance" /\ sweep' \in [pc : {"balance"},
                legs : SUBSET Legs, balance : Nat, moved : BOOLEAN]
           /\ sweep'.legs # {} /\ sweep'.legs \subseteq Unfired
           /\ mode # "unordered" => \A l \in sweep'.legs : l = Min(Unfired)
           /\ windows' = (IF Live = {} THEN windows ELSE windows \union {"overlap"})
           /\ UNCHANGED <<mode, fired, balance, lock, rivals, jobs, paid, short>>
<1>1. dueLegs \in SUBSET Legs /\ dueLegs \subseteq Unfired
      /\ (mode # "unordered" => \A l \in dueLegs : l = Min(Unfired))
  BY DEF dueLegs, Unfired
<1>2. sweep' = [pc |-> "balance", legs |-> dueLegs, balance |-> 0, moved |-> FALSE]
  BY DEF readDue, NoSweep
<1> HIDE DEF dueLegs
<1>3. sweep'.pc = "balance" /\ sweep'.legs = dueLegs
      /\ sweep' \in [pc : {"balance"}, legs : SUBSET Legs, balance : Nat, moved : BOOLEAN]
  BY <1>1, <1>2
<1>4. /\ sweep.pc = "idle" /\ dueLegs # {}
      /\ windows' = (IF Live = {} THEN windows ELSE windows \union {"overlap"})
      /\ UNCHANGED <<mode, fired, balance, lock, rivals, jobs, paid, short>>
  BY Zenon DEF readDue
<1> QED
  BY <1>1, <1>3, <1>4, Zenon

\* The sweep reads the balance: it goes on with what the balance covers, or is over.
LEMMA ReadBalanceStep ==
    ASSUME TypeOK, readBalance
    PROVE  /\ sweep.pc = "balance"
           /\ \/ sweep' = NoSweep
              \/ /\ sweep' \in [pc : {"claim"}, legs : SUBSET Legs, balance : Nat,
                                moved : BOOLEAN]
                 /\ sweep'.legs # {} /\ sweep'.legs \subseteq sweep.legs
                 /\ Sum(need, sweep'.legs) <= balance
           /\ UNCHANGED <<mode, fired, balance, lock, rivals, jobs, paid, windows, short>>
<1> DEFINE legs == admitted(sweep.legs, balance)
<1>1. sweep.legs \in SUBSET Legs /\ balance \in Nat /\ sweep.moved \in BOOLEAN
  BY DEF TypeOK
<1>2. legs \in SUBSET sweep.legs /\ Sum(need, legs) <= balance
  BY <1>1, AdmittedFits
<1>3. /\ sweep.pc = "balance"
      /\ sweep' = IF legs = {} THEN NoSweep
                  ELSE [sweep EXCEPT !.pc = "claim", !.legs = legs, !.balance = balance]
      /\ UNCHANGED <<mode, fired, balance, lock, rivals, jobs, paid, windows, short>>
  BY DEF readBalance
<1> HIDE DEF legs
<1>4. CASE legs # {}
  <2>1. sweep' \in [pc : {"claim"}, legs : SUBSET Legs, balance : Nat, moved : BOOLEAN]
        /\ sweep'.legs = legs
    BY <1>1, <1>2, <1>3, <1>4 DEF TypeOK
  <2>2. Sum(need, sweep'.legs) = Sum(need, legs)
    BY <2>1, Zenon
  <2> QED
    BY <1>2, <1>3, <1>4, <2>1, <2>2
<1> QED
  BY <1>3, <1>4

\* The sweep claims the lock, with a share for every leg, or is over.
LEMMA ClaimStep ==
    ASSUME TypeOK, claimLock
    PROVE  /\ sweep.pc = "claim"
           /\ \/ /\ lock = 0 /\ lock' = Cardinality(sweep.legs)
                 /\ sweep' \in [pc : {"enqueue"}, legs : SUBSET Legs, balance : Nat,
                                moved : BOOLEAN]
                 /\ sweep'.legs = sweep.legs
                 /\ windows' = IF sweep.moved THEN windows \union {"moved"} ELSE windows
              \/ lock # 0 /\ sweep' = NoSweep /\ UNCHANGED <<lock, windows>>
           /\ UNCHANGED <<mode, fired, balance, rivals, jobs, paid, short>>
BY DEF claimLock, TypeOK

\* What is left of the sweep after the leg l.
Without(l) == IF sweep.legs = {l} THEN NoSweep ELSE [sweep EXCEPT !.legs = @ \ {l}]

\* It still has its legs but l.
LEMMA WithoutLegs ==
    ASSUME TypeOK, sweep.pc = "enqueue", NEW l \in sweep.legs, sweep' = Without(l)
    PROVE  /\ sweep' \in [pc : {"idle", "enqueue"}, legs : SUBSET Legs, balance : Nat,
                          moved : BOOLEAN]
           /\ sweep'.legs = sweep.legs \ {l} /\ Claimed' = Claimed \ {l}
           /\ sweep'.pc = "idle" <=> sweep'.legs = {}
<1>1. CASE sweep.legs = {l}
  <2>1. sweep'.pc = "idle" /\ sweep'.legs = {} /\ sweep'.balance = 0 /\ sweep'.moved = FALSE
        /\ sweep' = NoSweep
    BY <1>1 DEF Without, NoSweep
  <2>2. sweep' \in [pc : {"idle", "enqueue"}, legs : SUBSET Legs, balance : Nat, moved : BOOLEAN]
    BY <2>1 DEF NoSweep
  <2>3. Claimed' = {} /\ Claimed = {l}
    BY <1>1, <2>1 DEF Claimed
  <2> QED
    BY <1>1, <2>1, <2>2, <2>3
<1>2. CASE sweep.legs # {l}
  <2>1. sweep'.pc = "enqueue" /\ sweep'.legs = sweep.legs \ {l}
        /\ sweep' \in [pc : {"idle", "enqueue"}, legs : SUBSET Legs, balance : Nat, moved : BOOLEAN]
    BY <1>2 DEF Without, TypeOK
  <2> QED
    BY <1>2, <2>1 DEF Claimed
<1> QED
  BY <1>1, <1>2

\* The sweep enqueues a leg, or gives back its share of the lock.
LEMMA EnqueueStep ==
    ASSUME TypeOK, Sweeping, enqueue
    PROVE  /\ sweep.pc = "enqueue"
           /\ \E l \in sweep.legs :
                /\ l \in Legs /\ sweep' = Without(l)
                /\ \/ jobs' = jobs \union {Fresh(l)} /\ UNCHANGED lock
                   \/ /\ jobs' = jobs
                      /\ lock' = IF mode = "unordered" THEN decrementPendingOperationLeg ELSE 0
           /\ UNCHANGED <<mode, fired, balance, rivals, paid, windows, short>>
<1> DEFINE l == Min(sweep.legs)
<1>1. sweep.pc = "enqueue" /\ sweep.legs # {} /\ sweep.legs \in SUBSET Legs
  BY DEF enqueue, Sweeping, TypeOK
<1>2. l \in sweep.legs /\ l \in Legs
  BY <1>1, MinIn
<1>3. Fresh(l).isFanOutLeg = (mode = "unordered")
  BY DEF Fresh
<1>4. Fresh(l) = [leg |-> l, n |-> Cardinality({j \in jobs : j.leg = l}),
                  isFanOutLeg |-> mode = "unordered", at |-> "queued"]
  BY DEF Fresh, JobsOf
<1>5. /\ sweep' = Without(l)
      /\ \/ jobs' = jobs \union {Fresh(l)} /\ UNCHANGED lock
         \/ jobs' = jobs /\ lock' = releaseLock(Fresh(l))
      /\ UNCHANGED <<mode, fired, balance, rivals, paid, windows, short>>
  BY <1>4, Zenon DEF enqueue, Without
<1>6. releaseLock(Fresh(l)) = IF mode = "unordered" THEN decrementPendingOperationLeg ELSE 0
  BY <1>3 DEF releaseLock
<1> HIDE DEF l
<1> QED
  BY <1>1, <1>2, <1>5, <1>6
-----------------------------------------------------------------------------
(* Types, numbers and the sweep's legs *)

\* The lock is a number after every release.
LEMMA Released ==
    ASSUME TypeOK, NEW j
    PROVE  /\ releaseLock(j) \in Nat /\ decrementPendingOperationLeg \in Nat
           /\ decrementPendingOperationLeg = IF lock > 0 THEN lock - 1 ELSE 0
           /\ releaseLock(j) = IF j.isFanOutLeg THEN decrementPendingOperationLeg ELSE 0
BY DEF TypeOK, releaseLock, decrementPendingOperationLeg

\* A recurring payout may fire another occurrence than its own, but only one that
\* there is.
LEMMA Fires ==
    ASSUME TypeOK, NEW l \in Legs
    PROVE  onSuccess(l) \in SUBSET Legs
<1>1. Unfired # {} => Min(Unfired) \in Legs
  BY MinIn DEF Unfired, TypeOK
<1> QED
  BY <1>1 DEF onSuccess, TypeOK

\* Next, by its actions.
LEMMA NextSteps ==
    ASSUME Next
    PROVE  \/ tick \/ rivalClaims \/ rivalEnds \/ readDue \/ readBalance \/ claimLock \/ enqueue
           \/ \E j \in jobs : workerStep(j) \/ resolvePendingTransfer(j)
BY DEF Next, sweepStep

\* What an admin's operation does.
LEMMA RivalEndsStep ==
    ASSUME TypeOK, rivalEnds
    PROVE  /\ rivals.active /\ rivals' \in [count : Nat, active : BOOLEAN]
           /\ ~rivals'.active /\ lock' = 0
           /\ balance' \in {0, balance}
           /\ sweep' \in [pc : {"idle", "balance", "claim", "enqueue"}, legs : SUBSET Legs,
                          balance : Nat, moved : BOOLEAN]
           /\ sweep'.pc = sweep.pc /\ sweep'.legs = sweep.legs
           /\ sweep.moved => sweep'.moved
           /\ sweep.pc = "claim" /\ ~sweep'.moved => balance' = balance
           /\ UNCHANGED <<mode, fired, jobs, paid, windows, short>>
<1>1. rivals' \in [count : Nat, active : BOOLEAN] /\ ~rivals'.active
  BY DEF rivalEnds, TypeOK
<1>2. sweep' \in [pc : {"idle", "balance", "claim", "enqueue"}, legs : SUBSET Legs,
                  balance : Nat, moved : BOOLEAN]
      /\ sweep'.pc = sweep.pc /\ sweep'.legs = sweep.legs
      /\ sweep'.moved = (sweep.moved \/ (balance' # balance /\ sweep.pc = "claim"))
  <2> DEFINE m == sweep.moved \/ (balance' # balance /\ sweep.pc = "claim")
  <2>1. sweep' = [sweep EXCEPT !.moved = m] /\ m \in BOOLEAN
    BY DEF rivalEnds
  <2> HIDE DEF m
  <2>2. sweep' \in [pc : {"idle", "balance", "claim", "enqueue"}, legs : SUBSET Legs,
                    balance : Nat, moved : BOOLEAN]
        /\ sweep'.pc = sweep.pc /\ sweep'.legs = sweep.legs /\ sweep'.moved = m
    BY <2>1 DEF TypeOK
  <2> QED
    BY <2>2 DEF m
<1>3. /\ rivals.active /\ lock' = 0 /\ balance' \in {0, balance}
      /\ UNCHANGED <<mode, fired, jobs, paid, windows, short>>
  BY DEF rivalEnds
<1> QED
  BY <1>1, <1>2, <1>3

\* An admin's operation claims the lock.
LEMMA RivalClaimsStep ==
    ASSUME TypeOK, rivalClaims
    PROVE  /\ lock = 0 /\ lock' = 1
           /\ rivals' \in [count : Nat, active : BOOLEAN] /\ rivals'.active
           /\ UNCHANGED <<mode, fired, balance, sweep, jobs, paid, windows, short>>
<1>1. rivals.count \in Nat
  BY DEF TypeOK
<1> QED
  BY <1>1 DEF rivalClaims

\* Initially the types are right.
LEMMA InitType == Init => TypeOK
<1> SUFFICES ASSUME Init PROVE TypeOK
  OBVIOUS
<1>1. IsFiniteSet({}) /\ Funds \subseteq Nat
  BY FS_EmptySet, SchedulerAssumption
<1> QED
  BY <1>1 DEF Init, TypeOK, NoSweep

\* Every step keeps the types.
LEMMA NextType ==
    ASSUME TypeOK, Numbered, Sweeping, Next
    PROVE  TypeOK'
<1>1. CASE tick
  BY <1>1 DEF tick, TypeOK
<1>2. CASE rivalClaims
  <2>1. /\ lock' = 1 /\ rivals' \in [count : Nat, active : BOOLEAN]
        /\ UNCHANGED <<fired, balance, sweep, jobs, paid, windows, short>>
    BY <1>2, RivalClaimsStep
  <2> QED
    BY <2>1 DEF TypeOK
<1>3. CASE rivalEnds
  <2>1. /\ lock' = 0 /\ rivals' \in [count : Nat, active : BOOLEAN] /\ balance' \in {0, balance}
        /\ sweep' \in [pc : {"idle", "balance", "claim", "enqueue"}, legs : SUBSET Legs,
                       balance : Nat, moved : BOOLEAN]
        /\ UNCHANGED <<fired, jobs, paid, windows, short>>
    BY <1>3, RivalEndsStep
  <2> QED
    BY <2>1 DEF TypeOK
<1>4. CASE readDue
  BY <1>4, ReadDueStep DEF TypeOK
<1>5. CASE readBalance
  <2>1. UNCHANGED <<fired, balance, lock, rivals, jobs, paid, windows, short>>
    BY <1>5, ReadBalanceStep
  <2>2. \/ sweep' = NoSweep
        \/ sweep' \in [pc : {"claim"}, legs : SUBSET Legs, balance : Nat, moved : BOOLEAN]
    BY <1>5, ReadBalanceStep
  <2>3. sweep' \in [pc : {"idle", "balance", "claim", "enqueue"}, legs : SUBSET Legs,
                   balance : Nat, moved : BOOLEAN]
    <3>1. CASE sweep' = NoSweep
      <4>1. NoSweep \in [pc : {"idle", "balance", "claim", "enqueue"}, legs : SUBSET Legs,
                        balance : Nat, moved : BOOLEAN]
        BY DEF NoSweep
      <4> QED
        BY <3>1, <4>1
    <3>2. CASE sweep' \in [pc : {"claim"}, legs : SUBSET Legs, balance : Nat, moved : BOOLEAN]
      BY <3>2
    <3> QED
      BY <2>2, <3>1, <3>2
  <2> QED
    BY <2>1, <2>3 DEF TypeOK
<1>6. CASE claimLock
  <2>1. Cardinality(sweep.legs) \in Nat
    BY LegsFinite DEF TypeOK
  <2>2. UNCHANGED <<fired, balance, rivals, jobs, paid, short>>
    BY <1>6, ClaimStep
  <2>3. \/ sweep' = NoSweep
        \/ sweep' \in [pc : {"enqueue"}, legs : SUBSET Legs, balance : Nat, moved : BOOLEAN]
    BY <1>6, ClaimStep
  <2>4. sweep' \in [pc : {"idle", "balance", "claim", "enqueue"}, legs : SUBSET Legs,
                   balance : Nat, moved : BOOLEAN]
    <3>1. CASE sweep' = NoSweep
      <4>1. NoSweep \in [pc : {"idle", "balance", "claim", "enqueue"}, legs : SUBSET Legs,
                        balance : Nat, moved : BOOLEAN]
        BY DEF NoSweep
      <4> QED
        BY <3>1, <4>1
    <3>2. CASE sweep' \in [pc : {"enqueue"}, legs : SUBSET Legs, balance : Nat, moved : BOOLEAN]
      BY <3>2
    <3> QED
      BY <2>3, <3>1, <3>2
  <2>5. windows' \in {windows, windows \union {"moved"}} /\ lock' \in {lock, Cardinality(sweep.legs)}
    BY <1>6, ClaimStep
  <2> QED
    BY <2>1, <2>2, <2>4, <2>5 DEF TypeOK
<1>7. CASE enqueue
  <2>1. PICK l \in sweep.legs :
          /\ l \in Legs /\ sweep' = Without(l)
          /\ \/ jobs' = jobs \union {Fresh(l)} /\ UNCHANGED lock
             \/ /\ jobs' = jobs
                /\ lock' = IF mode = "unordered" THEN decrementPendingOperationLeg ELSE 0
    BY <1>7, EnqueueStep
  <2>2. sweep.pc = "enqueue" /\ UNCHANGED <<mode, fired, balance, rivals, paid, windows, short>>
    BY <1>7, EnqueueStep
  <2>3. sweep' \in [pc : {"idle", "enqueue"}, legs : SUBSET Legs, balance : Nat, moved : BOOLEAN]
    BY <2>1, <2>2, WithoutLegs
  <2>4. jobs' \in SUBSET Job /\ IsFiniteSet(jobs')
    BY <2>1, FreshJob, AddedSets DEF TypeOK
  <2>5. lock' \in Nat
    BY <2>1, Released DEF TypeOK
  <2> QED
    BY <2>2, <2>3, <2>4, <2>5 DEF TypeOK
<1>8. ASSUME NEW j \in jobs, workerStep(j) \/ resolvePendingTransfer(j)
      PROVE  TypeOK'
  <2>1. PICK k : Moved(j, k) /\ JobMoves(j, k)
    BY <1>8, JobStep
  <2>2. UNCHANGED <<mode, rivals, sweep>>
    BY <1>8, JobStep
  <2>3. jobs' \in SUBSET Job /\ IsFiniteSet(jobs')
    BY <2>1, MovedSets
  <2>4. j.leg \in Legs /\ Need(j.leg) \in Nat
    BY NeedTyped DEF TypeOK, Job
  <2>5. lock' \in Nat
    BY <2>1, Released DEF JobMoves, TypeOK, Posts, FindsShort, Executes, Waits, Refused,
         Releases, Applies, Interrupted, Resolves, ResolvesRefused
  <2>6. balance' \in Nat
    BY <2>1, <2>4 DEF JobMoves, TypeOK, Posts, FindsShort, Executes, Waits, Refused,
         Releases, Applies, Interrupted, Resolves, ResolvesRefused
  <2>7. fired' \in SUBSET Legs
    BY <2>1, <2>4, Fires DEF JobMoves, TypeOK, Posts, FindsShort, Executes, Waits, Refused,
         Releases, Applies, Interrupted, Resolves, ResolvesRefused
  <2>8. paid' \in [Legs -> Nat]
    BY <2>1, <2>4 DEF JobMoves, TypeOK, Posts, FindsShort, Executes, Waits, Refused,
         Releases, Applies, Interrupted, Resolves, ResolvesRefused, Execute
  <2>9. windows' \in SUBSET {"overlap", "moved", "interrupted"} /\ short' \in BOOLEAN
    BY <2>1 DEF JobMoves, TypeOK, Posts, FindsShort, Executes, Waits, Refused,
         Releases, Applies, Interrupted, Resolves, ResolvesRefused
  <2> QED
    BY <2>2, <2>3, <2>5, <2>6, <2>7, <2>8, <2>9 DEF TypeOK
<1> QED
  BY <1>1, <1>2, <1>3, <1>4, <1>5, <1>6, <1>7, <1>8, NextSteps

\* Only the sweep and the jobs' own steps change the jobs.
LEMMA JobsKept ==
    ASSUME TypeOK, tick \/ rivalClaims \/ rivalEnds \/ readDue \/ readBalance \/ claimLock
    PROVE  UNCHANGED <<mode, jobs>>
BY DEF tick, rivalClaims, rivalEnds, readDue, readBalance, claimLock

\* Every step keeps the jobs numbered.
LEMMA NextNumbered ==
    ASSUME TypeOK, Numbered, Sweeping, Next
    PROVE  Numbered'
<1>1. CASE UNCHANGED jobs
  BY <1>1 DEF Numbered, JobsOf
<1>2. CASE enqueue
  <2>1. PICK l \in Legs : jobs' = jobs \union {Fresh(l)} \/ jobs' = jobs
    BY <1>2, EnqueueStep
  <2>2. CASE jobs' = jobs \union {Fresh(l)}
    BY <2>2, AddedNumbered
  <2> QED
    BY <1>1, <2>1, <2>2
<1>3. ASSUME NEW j \in jobs, workerStep(j) \/ resolvePendingTransfer(j)
      PROVE  Numbered'
  <2>1. PICK k : Moved(j, k)
    BY <1>3, JobStep
  <2> QED
    BY <2>1, MovedNumbered
<1> QED
  BY <1>1, <1>2, <1>3, JobsKept, NextSteps

\* Every step keeps what the sweep works on.
LEMMA NextSweeping ==
    ASSUME TypeOK, Numbered, Sweeping, Next
    PROVE  Sweeping'
<1>1. CASE tick
  BY <1>1 DEF tick, Sweeping
<1>2. CASE rivalClaims
  BY <1>2, RivalClaimsStep DEF Sweeping
<1>3. CASE rivalEnds
  BY <1>3, RivalEndsStep DEF Sweeping
<1>4. CASE readDue
  BY <1>4, ReadDueStep DEF Sweeping
<1>5. CASE readBalance
  BY <1>5, ReadBalanceStep DEF Sweeping, NoSweep
<1>6. CASE claimLock
  BY <1>6, ClaimStep DEF Sweeping, NoSweep
<1>7. CASE enqueue
  <2>1. PICK l \in sweep.legs :
          /\ l \in Legs /\ sweep' = Without(l)
          /\ jobs' = jobs \union {Fresh(l)} \/ jobs' = jobs
    BY <1>7, EnqueueStep
  <2>2. sweep.pc = "enqueue" /\ mode' = mode
    BY <1>7, EnqueueStep
  <2>3. sweep'.legs = sweep.legs \ {l} /\ (sweep'.pc = "idle" <=> sweep'.legs = {})
    BY <2>1, <2>2, WithoutLegs
  <2>4. Fresh(l).isFanOutLeg <=> mode = "unordered"
    BY <2>1, FreshJob
  <2> QED
    BY <2>1, <2>2, <2>3, <2>4 DEF Sweeping
<1>8. ASSUME NEW j \in jobs, workerStep(j) \/ resolvePendingTransfer(j)
      PROVE  Sweeping'
  <2>1. PICK k : Moved(j, k)
    BY <1>8, JobStep
  <2>2. UNCHANGED <<mode, rivals, sweep>>
    BY <1>8, JobStep
  <2>3. jobs' = (jobs \ {j}) \union {k} /\ (k.isFanOutLeg <=> j.isFanOutLeg)
    BY <2>1 DEF Moved
  <2> QED
    BY <2>2, <2>3 DEF Sweeping
<1> QED
  BY <1>1, <1>2, <1>3, <1>4, <1>5, <1>6, <1>7, <1>8, NextSteps
-----------------------------------------------------------------------------
(* The lock *)

\* Windows stay known.
LEMMA WindowsGrow ==
    ASSUME TypeOK, Numbered, Sweeping, Next
    PROVE  windows \subseteq windows'
<1>1. ASSUME NEW j \in jobs, workerStep(j) \/ resolvePendingTransfer(j)
      PROVE  windows \subseteq windows'
  <2>1. PICK k : JobMoves(j, k)
    BY <1>1, JobStep
  <2> QED
    BY <2>1 DEF JobMoves, Posts, FindsShort, Executes, Waits, Refused, Releases, Applies,
         Interrupted, Resolves, ResolvesRefused
<1> QED
  BY <1>1, NextSteps DEF tick, rivalClaims, rivalEnds, readDue, readBalance, claimLock, enqueue

\* The shares, as numbers.
LEMMA SharesTyped ==
    ASSUME TypeOK
    PROVE  /\ IsFiniteSet(Claimed) /\ Cardinality(Claimed) \in Nat
           /\ Cardinality(Held) \in Nat
           /\ Cardinality({}) = 0
           /\ rivals.active \in BOOLEAN /\ lock \in Nat
<1>1. Claimed \in SUBSET Legs
  BY DEF Claimed, TypeOK
<1>2. IsFiniteSet(Held)
  BY FS_Subset DEF Held, TypeOK
<1> QED
  BY <1>1, <1>2, LegsFinite, FS_CardinalityType, FS_EmptySet DEF TypeOK

\* Initially nobody holds the lock.
LEMMA InitLock == Init => LockCounts
<1> SUFFICES ASSUME Init PROVE LockCounts
  OBVIOUS
<1>1. Held = {} /\ Claimed = {} /\ lock = 0 /\ ~rivals.active
  BY DEF Init, Held, Claimed, NoSweep
<1>2. Cardinality(Held) = 0 /\ Cardinality(Claimed) = 0
  BY <1>1, FS_EmptySet, Zenon
<1> QED
  BY <1>1, <1>2 DEF LockCounts

\* Where the shares and the lock stay, so does the count.
LEMMA LockFrame ==
    ASSUME LockCounts, windows \subseteq windows', UNCHANGED <<mode, lock, rivals, jobs>>,
           Claimed' = Claimed
    PROVE  LockCounts'
<1>1. Held' = Held
  BY DEF Held
<1>2. Cardinality(Held') = Cardinality(Held) /\ Cardinality(Claimed') = Cardinality(Claimed)
  BY <1>1, Zenon
<1> QED
  BY <1>2 DEF LockCounts

\* Every step keeps the count.
LEMMA NextLock ==
    ASSUME TypeOK, Numbered, Sweeping, LockCounts, Next
    PROVE  LockCounts'
<1>1. windows \subseteq windows'
  BY WindowsGrow
<1>2. CASE tick
  BY <1>1, <1>2, LockFrame DEF tick, Claimed
<1>3. CASE readDue
  <2>1. sweep.pc = "idle" /\ sweep'.pc = "balance" /\ UNCHANGED <<mode, lock, rivals, jobs>>
    BY <1>3, ReadDueStep
  <2> QED
    BY <1>1, <2>1, LockFrame DEF Claimed
<1>4. CASE readBalance
  <2>1. sweep.pc = "balance" /\ UNCHANGED <<mode, lock, rivals, jobs>>
    BY <1>4, ReadBalanceStep
  <2>2. sweep'.pc \in {"idle", "claim"}
    <3>1. \/ sweep' = NoSweep
          \/ sweep' \in [pc : {"claim"}, legs : SUBSET Legs, balance : Nat, moved : BOOLEAN]
      BY <1>4, ReadBalanceStep
    <3> QED
      BY <3>1 DEF NoSweep
  <2> QED
    BY <1>1, <2>1, <2>2, LockFrame DEF Claimed
<1> SUFFICES ASSUME "interrupted" \notin windows' PROVE LockCounts'
  BY DEF LockCounts
<1>5. /\ lock = Cardinality(Held) + Cardinality(Claimed) + (IF rivals.active THEN 1 ELSE 0)
      /\ mode # "unordered" => lock <= 1
      /\ rivals.active => lock = 1
  BY <1>1 DEF LockCounts
<1>6. /\ Cardinality(Claimed) \in Nat /\ Cardinality(Held) \in Nat /\ IsFiniteSet(Claimed)
      /\ Cardinality({}) = 0 /\ rivals.active \in BOOLEAN /\ lock \in Nat
  BY SharesTyped
<1>7. ASSUME NEW h \in Nat, NEW c \in Nat, Cardinality(Held') = h, Cardinality(Claimed') = c,
             lock' = h + c + (IF rivals'.active THEN 1 ELSE 0),
             mode # "unordered" => lock' <= 1, rivals'.active => lock' = 1, mode' = mode
      PROVE  LockCounts'
  BY <1>7 DEF LockCounts
<1>8. CASE rivalClaims
  <2>1. /\ lock = 0 /\ lock' = 1 /\ rivals'.active /\ UNCHANGED <<mode, sweep, jobs>>
    BY <1>8, RivalClaimsStep
  <2>2. Held' = Held /\ Claimed' = Claimed
    BY <2>1 DEF Held, Claimed
  <2>3. Cardinality(Held') = 0 /\ Cardinality(Claimed') = 0
    <3>1. Cardinality(Held) = 0 /\ Cardinality(Claimed) = 0
      BY <1>5, <1>6, <2>1
    <3> QED
      BY <2>2, <3>1, Zenon
  <2> QED
    BY <1>7, <2>1, <2>3
<1>9. CASE rivalEnds
  <2>1. rivals.active /\ lock' = 0 /\ ~rivals'.active /\ UNCHANGED <<mode, jobs>>
        /\ sweep'.pc = sweep.pc /\ sweep'.legs = sweep.legs
    BY <1>9, RivalEndsStep
  <2>2. Held' = Held /\ Claimed' = Claimed
    BY <2>1 DEF Held, Claimed
  <2>3. Cardinality(Held') = 0 /\ Cardinality(Claimed') = 0
    <3>1. Cardinality(Held) = 0 /\ Cardinality(Claimed) = 0
      BY <1>5, <1>6, <2>1
    <3> QED
      BY <2>2, <3>1, Zenon
  <2> QED
    BY <1>7, <2>1, <2>3
<1>10. CASE claimLock
  <2>1. sweep.pc = "claim" /\ UNCHANGED <<mode, rivals, jobs>>
    BY <1>10, ClaimStep
  <2>2. CASE /\ lock = 0 /\ lock' = Cardinality(sweep.legs) /\ sweep'.legs = sweep.legs
             /\ sweep'.pc = "enqueue"
    <3>1. Held' = Held /\ Claimed' = sweep.legs
      BY <2>1, <2>2 DEF Held, Claimed
    <3>2. Cardinality(Held) = 0 /\ ~rivals.active
      BY <1>5, <1>6, <2>2
    <3>3. Cardinality(Held') = 0 /\ Cardinality(Claimed') = Cardinality(sweep.legs)
      BY <3>1, <3>2, Zenon
    <3>4. Cardinality(sweep.legs) \in Nat
      BY LegsFinite DEF TypeOK
    <3>5. mode # "unordered" => Cardinality(sweep.legs) <= 1
      <4> SUFFICES ASSUME mode # "unordered" PROVE Cardinality(sweep.legs) = 1
        OBVIOUS
      <4>1. PICK l \in sweep.legs : TRUE
        BY <2>1 DEF Sweeping
      <4>2. sweep.legs = {l}
        BY <4>1 DEF Sweeping
      <4>3. Cardinality({l}) = 1
        BY FS_Singleton
      <4> QED
        BY <4>2, <4>3, Zenon
    <3> QED
      BY <1>7, <2>1, <2>2, <3>2, <3>3, <3>4, <3>5
  <2>3. CASE lock # 0 /\ sweep' = NoSweep /\ UNCHANGED <<lock, windows>>
    <3>1. Claimed' = Claimed
      BY <2>1, <2>3 DEF Claimed, NoSweep
    <3> QED
      BY <1>1, <2>1, <2>3, <3>1, LockFrame
  <2> QED
    BY <1>10, <2>2, <2>3, ClaimStep
<1>11. CASE enqueue
  <2>1. PICK l \in sweep.legs :
          /\ l \in Legs /\ sweep' = Without(l)
          /\ \/ jobs' = jobs \union {Fresh(l)} /\ UNCHANGED lock
             \/ /\ jobs' = jobs
                /\ lock' = IF mode = "unordered" THEN decrementPendingOperationLeg ELSE 0
    BY <1>11, EnqueueStep
  <2>2. sweep.pc = "enqueue" /\ UNCHANGED <<mode, rivals>>
    BY <1>11, EnqueueStep
  <2>3. Claimed' = Claimed \ {l} /\ l \in Claimed
    BY <2>1, <2>2, WithoutLegs DEF Claimed
  <2>4. Cardinality(Claimed') = Cardinality(Claimed) - 1 /\ Cardinality(Claimed) - 1 \in Nat
    <3>1. Cardinality(Claimed \ {l}) = Cardinality(Claimed) - 1 /\ IsFiniteSet(Claimed \ {l})
      BY <1>6, <2>3, FS_RemoveElement
    <3>2. Cardinality(Claimed \ {l}) \in Nat
      BY <3>1, FS_CardinalityType
    <3>3. Cardinality(Claimed') = Cardinality(Claimed \ {l})
      BY <2>3, Zenon
    <3> QED
      BY <3>1, <3>2, <3>3
  <2>5. ~rivals.active /\ lock >= 1
    BY <1>5, <1>6, <2>4
  <2>6. CASE jobs' = jobs \union {Fresh(l)} /\ UNCHANGED lock
    <3>1. Cardinality(Held') = Cardinality(Held) + 1
      BY <2>1, <2>6, FreshJob, AddedSets
    <3> QED
      BY <1>5, <1>6, <1>7, <2>2, <2>4, <2>5, <2>6, <3>1
  <2>7. CASE /\ jobs' = jobs
             /\ lock' = IF mode = "unordered" THEN decrementPendingOperationLeg ELSE 0
    <3>1. Held' = Held
      BY <2>7 DEF Held
    <3>2. Cardinality(Held') = Cardinality(Held)
      BY <3>1, Zenon
    <3>3. lock' = lock - 1
      BY <1>5, <1>6, <2>5, <2>7 DEF decrementPendingOperationLeg
    <3> QED
      BY <1>5, <1>6, <1>7, <2>2, <2>4, <2>5, <3>2, <3>3
  <2> QED
    BY <2>1, <2>6, <2>7
<1>12. ASSUME NEW j \in jobs, workerStep(j) \/ resolvePendingTransfer(j)
       PROVE  LockCounts'
  <2>1. PICK k : Moved(j, k) /\ JobMoves(j, k)
    BY <1>12, JobStep
  <2>2. UNCHANGED <<mode, rivals, sweep>>
    BY <1>12, JobStep
  <2>3. Cardinality(Claimed') = Cardinality(Claimed)
    <3>1. Claimed' = Claimed
      BY <2>2 DEF Claimed
    <3> QED
      BY <3>1, Zenon
  <2>4. /\ Cardinality(Held') \in Nat /\ (j \in Held => Cardinality(Held) >= 1)
        /\ Cardinality(Held') = Cardinality(Held) - (IF j \in Held THEN 1 ELSE 0)
             + (IF k.at \in {"queued", "posted", "pending", "executed"} THEN 1 ELSE 0)
    BY <2>1, MovedSets
  <2>5. j \in Held <=> j.at \in {"queued", "posted", "pending", "executed"}
    BY DEF Held
  <2>6. j.isFanOutLeg <=> mode = "unordered"
    BY DEF Sweeping
  <2>7. CASE Posts(j, k) \/ Executes(j, k) \/ Waits(j, k) \/ Applies(j, k)
    <3>1. lock' = lock /\ Cardinality(Held') = Cardinality(Held)
      BY <1>6, <2>4, <2>5, <2>7 DEF Posts, Executes, Waits, Applies
    <3> QED
      BY <1>5, <1>6, <1>7, <2>2, <2>3, <3>1
  <2>8. CASE FindsShort(j, k) \/ Refused(j, k) \/ Releases(j, k) \/ Resolves(j, k)
             \/ ResolvesRefused(j, k)
    <3>1. j \in Held /\ k.at \notin {"queued", "posted", "pending", "executed"}
          /\ lock' \in {releaseLock(j), decrementPendingOperationLeg}
      BY <2>5, <2>8 DEF FindsShort, Refused, Releases, Resolves, ResolvesRefused
    <3>2. Cardinality(Held') = Cardinality(Held) - 1 /\ Cardinality(Held) >= 1
      BY <1>6, <2>4, <3>1
    <3>3. ~rivals.active /\ lock >= 1
      BY <1>5, <1>6, <3>2
    <3>4. lock' = lock - 1
      BY <1>5, <1>6, <2>6, <3>1, <3>3, Released
    <3> QED
      BY <1>5, <1>6, <1>7, <2>2, <2>3, <2>4, <3>2, <3>3, <3>4
  <2>9. CASE Interrupted(j, k)
    BY <2>9 DEF Interrupted
  <2> QED
    BY <2>1, <2>7, <2>8, <2>9 DEF JobMoves
<1> QED
  BY <1>2, <1>3, <1>4, <1>8, <1>9, <1>10, <1>11, <1>12, NextSteps
-----------------------------------------------------------------------------
(* One sweep's payouts, each paid once *)

\* A window that is open stays open.
LEMMA StaysOrderly ==
    ASSUME TypeOK, Numbered, Sweeping, Next, Orderly'
    PROVE  Orderly
BY WindowsGrow DEF Orderly

\* A payout under way fires its own leg.
LEMMA FiresOwn ==
    ASSUME TypeOK, OneSweep, NextOccurrence, Orderly, NEW j \in Live
    PROVE  onSuccess(j.leg) = fired \union {j.leg}
<1>1. j.leg \in Legs /\ j.leg \notin fired
  BY DEF OneSweep, Live, TypeOK, Job
<1>2. CASE mode = "recurring"
  <2>1. j.leg = Min(Unfired) /\ Unfired # {}
    BY <1>1, <1>2 DEF NextOccurrence, Unfired
  <2> QED
    BY <1>2, <2>1 DEF onSuccess
<1>3. CASE mode # "recurring"
  BY <1>3 DEF onSuccess
<1> QED
  BY <1>2, <1>3

\* What a job's step does to the payouts under way.
LEMMA LiveMoves ==
    ASSUME TypeOK, Numbered, Sweeping, OneSweep, NextOccurrence, Orderly, Orderly',
           NEW j \in jobs, NEW k, Moved(j, k), JobMoves(j, k)
    PROVE  /\ j \in Live /\ k.leg = j.leg /\ j.leg \in Legs
           /\ Live' = (Live \ {j}) \union (IF k.at # "done" THEN {k} ELSE {})
           /\ \/ fired' = fired
              \/ k.at = "done" /\ fired' = fired \union {j.leg}
           /\ \/ /\ paid' = paid
                 /\ j.at \in {"executed", "released"} => k.at = "released" \/ j.leg \in fired'
              \/ /\ paid' = [paid EXCEPT ![j.leg] = @ + 1]
                 /\ j.at \in {"posted", "pending"}
                 /\ k.at = "executed" \/ j.leg \in fired'
<1>1. /\ k.leg = j.leg /\ j.leg \in Legs
      /\ Live' = (Live \ {j}) \union (IF k.at # "done" THEN {k} ELSE {})
  BY MovedSets DEF Moved, TypeOK, Job
<1>2. j \in Live
  BY DEF Live, JobMoves, Posts, FindsShort, Executes, Waits, Refused, Releases, Applies,
       Interrupted, Resolves, ResolvesRefused
<1>3. onSuccess(j.leg) = fired \union {j.leg}
  BY <1>2, FiresOwn
<1>4. ~Interrupted(j, k)
  BY DEF Interrupted, Orderly
<1>5. CASE Posts(j, k) \/ FindsShort(j, k) \/ Waits(j, k) \/ Refused(j, k) \/ ResolvesRefused(j, k)
  BY <1>1, <1>2, <1>5 DEF Posts, FindsShort, Waits, Refused, ResolvesRefused
<1>6. CASE Releases(j, k)
  BY <1>1, <1>2, <1>6 DEF Releases
<1>7. CASE Applies(j, k)
  <2>1. j.at = "released" /\ k.at = "done" /\ fired' = fired \union {j.leg} /\ paid' = paid
    BY <1>3, <1>7 DEF Applies
  <2> QED
    BY <1>1, <1>2, <2>1
<1>8. CASE Executes(j, k)
  <2>1. j.at = "posted" /\ k.at = "executed" /\ fired' = fired
        /\ paid' = [paid EXCEPT ![j.leg] = @ + 1]
    BY <1>8 DEF Executes, Execute
  <2> QED
    BY <1>1, <1>2, <2>1
<1>9. CASE Resolves(j, k)
  <2>1. j.at = "pending" /\ k.at = "done" /\ fired' = fired \union {j.leg}
        /\ paid' = [paid EXCEPT ![j.leg] = @ + 1]
    BY <1>3, <1>9 DEF Resolves, Execute
  <2> QED
    BY <1>1, <1>2, <2>1
<1> QED
  BY <1>4, <1>5, <1>6, <1>7, <1>8, <1>9 DEF JobMoves

\* What a sweep's step does to the payouts under way, when they are in order.
LEMMA SweepMoves ==
    ASSUME TypeOK, Numbered, Sweeping, Orderly,
           tick \/ rivalClaims \/ rivalEnds \/ readBalance \/ claimLock
    PROVE  /\ UNCHANGED <<mode, fired, paid, jobs>>
           /\ sweep'.legs \subseteq sweep.legs
           /\ sweep'.pc \in {"balance", "claim"} => sweep.pc \in {"balance", "claim"}
<1>1. CASE tick
  BY <1>1 DEF tick
<1>2. CASE rivalClaims
  BY <1>2, RivalClaimsStep
<1>3. CASE rivalEnds
  BY <1>3, RivalEndsStep
<1>4. CASE readBalance
  <2>1. sweep.pc = "balance" /\ UNCHANGED <<mode, fired, paid, jobs>>
    BY <1>4, ReadBalanceStep
  <2>2. sweep' = NoSweep \/ sweep'.legs \subseteq sweep.legs
    BY <1>4, ReadBalanceStep
  <2> QED
    BY <2>1, <2>2 DEF NoSweep
<1>5. CASE claimLock
  <2>1. sweep.pc = "claim" /\ UNCHANGED <<mode, fired, paid, jobs>>
    BY <1>5, ClaimStep
  <2>2. sweep' = NoSweep \/ sweep'.legs = sweep.legs
    BY <1>5, ClaimStep
  <2> QED
    BY <2>1, <2>2 DEF NoSweep
<1> QED
  BY <1>1, <1>2, <1>3, <1>4, <1>5

\* A leg that is enqueued, or left for the next sweep.
LEMMA EnqueueMoves ==
    ASSUME TypeOK, Numbered, Sweeping, enqueue
    PROVE  /\ UNCHANGED <<mode, fired, paid>>
           /\ sweep'.pc \notin {"balance", "claim"}
           /\ \E l \in sweep.legs :
                /\ sweep'.legs = sweep.legs \ {l}
                /\ \/ Live' = Live
                   \/ \E k : k.leg = l /\ k.at = "queued" /\ Live' = Live \union {k}
<1>1. PICK l \in sweep.legs :
        /\ l \in Legs /\ sweep' = Without(l)
        /\ jobs' = jobs \union {Fresh(l)} \/ jobs' = jobs
  BY EnqueueStep
<1>2. sweep.pc = "enqueue" /\ UNCHANGED <<mode, fired, paid>>
  BY EnqueueStep
<1>3. /\ sweep'.legs = sweep.legs \ {l}
      /\ sweep' \in [pc : {"idle", "enqueue"}, legs : SUBSET Legs, balance : Nat, moved : BOOLEAN]
  BY <1>1, <1>2, WithoutLegs
<1>4. CASE jobs' = jobs
  BY <1>2, <1>3, <1>4 DEF Live
<1>5. CASE jobs' = jobs \union {Fresh(l)}
  <2>1. Fresh(l).leg = l /\ Fresh(l).at = "queued" /\ Fresh(l) \in Job /\ Fresh(l) \notin jobs
    BY <1>1, FreshJob
  <2>2. Live' = Live \union {Fresh(l)}
    BY <1>5, <2>1, AddedSets
  <2> QED
    BY <1>2, <1>3, <2>1, <2>2
<1> QED
  BY <1>1, <1>4, <1>5

\* Every step keeps the payouts under way those of one sweep.
LEMMA NextOneSweep ==
    ASSUME TypeOK, Numbered, Sweeping, OneSweep, NextOccurrence, Next
    PROVE  OneSweep'
<1> SUFFICES ASSUME Orderly' PROVE OneSweep'
  BY DEF OneSweep
<1>0. Orderly
  BY StaysOrderly
<1>1. /\ sweep.pc \in {"balance", "claim"} => Live = {}
      /\ \A j, k \in Live : j.leg = k.leg => j = k
      /\ \A j \in Live : j.leg \notin fired /\ j.leg \notin sweep.legs
      /\ sweep.legs \intersect fired = {}
  BY <1>0 DEF OneSweep
<1>2. CASE tick \/ rivalClaims \/ rivalEnds \/ readBalance \/ claimLock
  <2>1. /\ UNCHANGED <<fired, jobs>> /\ sweep'.legs \subseteq sweep.legs
        /\ sweep'.pc \in {"balance", "claim"} => sweep.pc \in {"balance", "claim"}
    BY <1>0, <1>2, SweepMoves
  <2>2. Live' = Live
    BY <2>1 DEF Live
  <2> QED
    BY <1>1, <2>1, <2>2 DEF OneSweep
<1>3. CASE readDue
  <2>1. /\ sweep'.legs \subseteq Unfired /\ UNCHANGED <<fired, jobs>>
        /\ windows' = (IF Live = {} THEN windows ELSE windows \union {"overlap"})
    BY <1>3, ReadDueStep
  <2>2. Live = {} /\ Live' = Live
    BY <2>1 DEF Orderly, Live
  <2> QED
    BY <2>1, <2>2 DEF OneSweep, Unfired
<1>4. CASE enqueue
  <2>1. UNCHANGED fired /\ sweep'.pc \notin {"balance", "claim"}
    BY <1>4, EnqueueMoves
  <2>2. PICK l \in sweep.legs :
          /\ sweep'.legs = sweep.legs \ {l}
          /\ \/ Live' = Live
             \/ \E k : k.leg = l /\ k.at = "queued" /\ Live' = Live \union {k}
    BY <1>4, EnqueueMoves
  <2>3. CASE Live' = Live
    BY <1>1, <2>1, <2>2, <2>3 DEF OneSweep
  <2>4. ASSUME NEW k, k.leg = l, Live' = Live \union {k} PROVE OneSweep'
    BY <1>1, <2>1, <2>2, <2>4 DEF OneSweep
  <2> QED
    BY <2>2, <2>3, <2>4
<1>5. ASSUME NEW j \in jobs, workerStep(j) \/ resolvePendingTransfer(j)
      PROVE  OneSweep'
  <2>1. PICK k : Moved(j, k) /\ JobMoves(j, k)
    BY <1>5, JobStep
  <2>2. UNCHANGED sweep
    BY <1>5, JobStep
  <2>3. /\ j \in Live /\ k.leg = j.leg
        /\ Live' = (Live \ {j}) \union (IF k.at # "done" THEN {k} ELSE {})
        /\ fired' = fired \/ (k.at = "done" /\ fired' = fired \union {j.leg})
    BY <1>0, <2>1, LiveMoves
  <2>4. sweep'.pc \notin {"balance", "claim"}
    BY <1>1, <2>2, <2>3
  <2>5. \A p, q \in Live' : p.leg = q.leg => p = q
    BY <1>1, <2>3
  <2>6. \A p \in Live' : p.leg \notin fired' /\ p.leg \notin sweep'.legs
    BY <1>1, <2>2, <2>3
  <2>7. sweep'.legs \intersect fired' = {}
    BY <1>1, <2>2, <2>3
  <2> QED
    BY <2>4, <2>5, <2>6, <2>7 DEF OneSweep
<1> QED
  BY <1>2, <1>3, <1>4, <1>5, NextSteps

\* Every step keeps a recurring payout under way that of the next occurrence.
LEMMA NextNextOccurrence ==
    ASSUME TypeOK, Numbered, Sweeping, OneSweep, NextOccurrence, Next
    PROVE  NextOccurrence'
<1>0. Orderly' => Orderly
  BY StaysOrderly
<1>m. mode' = mode
  <2>1. ASSUME NEW j \in jobs, workerStep(j) \/ resolvePendingTransfer(j)
        PROVE  mode' = mode
    BY <2>1, JobStep
  <2> QED
    BY <2>1, NextSteps DEF tick, rivalClaims, rivalEnds, readDue, readBalance, claimLock, enqueue
<1> SUFFICES ASSUME Orderly', mode = "recurring"
             PROVE  /\ \A l \in sweep'.legs : l = Min(Unfired')
                    /\ \A p \in Live' : p.leg = Min(Unfired')
  BY <1>m DEF NextOccurrence, Unfired
<1>1. /\ \A l \in sweep.legs : l = Min(Unfired)
      /\ \A j \in Live : j.leg = Min(Unfired)
  BY <1>0 DEF NextOccurrence
<1>2. /\ \A j, k \in Live : j.leg = k.leg => j = k
      /\ \A j \in Live : j.leg \notin sweep.legs
  BY <1>0 DEF OneSweep
<1>3. CASE tick \/ rivalClaims \/ rivalEnds \/ readBalance \/ claimLock
  <2>1. UNCHANGED <<fired, jobs>> /\ sweep'.legs \subseteq sweep.legs
    BY <1>0, <1>3, SweepMoves
  <2>2. Live' = Live /\ Unfired' = Unfired
    BY <2>1 DEF Live, Unfired
  <2> QED
    BY <1>1, <2>1, <2>2
<1>4. CASE readDue
  <2>1. /\ \A l \in sweep'.legs : l = Min(Unfired)
        /\ UNCHANGED <<fired, jobs>>
        /\ windows' = (IF Live = {} THEN windows ELSE windows \union {"overlap"})
    BY <1>4, ReadDueStep
  <2>2. Live' = {} /\ Unfired' = Unfired
    BY <2>1 DEF Orderly, Live, Unfired
  <2> QED
    BY <2>1, <2>2
<1>5. CASE enqueue
  <2>1. UNCHANGED fired
    BY <1>5, EnqueueMoves
  <2>2. PICK l \in sweep.legs :
          /\ sweep'.legs = sweep.legs \ {l}
          /\ \/ Live' = Live
             \/ \E k : k.leg = l /\ k.at = "queued" /\ Live' = Live \union {k}
    BY <1>5, EnqueueMoves
  <2>3. Unfired' = Unfired
    BY <2>1 DEF Unfired
  <2> QED
    BY <1>1, <2>2, <2>3
<1>6. ASSUME NEW j \in jobs, workerStep(j) \/ resolvePendingTransfer(j)
      PROVE  /\ \A l \in sweep'.legs : l = Min(Unfired')
             /\ \A p \in Live' : p.leg = Min(Unfired')
  <2>1. PICK k : Moved(j, k) /\ JobMoves(j, k)
    BY <1>6, JobStep
  <2>2. UNCHANGED sweep
    BY <1>6, JobStep
  <2>3. /\ j \in Live /\ k.leg = j.leg
        /\ Live' = (Live \ {j}) \union (IF k.at # "done" THEN {k} ELSE {})
        /\ fired' = fired \/ (k.at = "done" /\ fired' = fired \union {j.leg})
    BY <1>0, <2>1, LiveMoves
  <2>4. CASE fired' = fired
    <3>1. Unfired' = Unfired
      BY <2>4 DEF Unfired
    <3> QED
      BY <1>1, <2>2, <2>3, <3>1
  <2>5. CASE k.at = "done"
    <3>1. Live' = {} /\ sweep'.legs = {}
      BY <1>1, <1>2, <2>2, <2>3, <2>5
    <3> QED
      BY <3>1
  <2> QED
    BY <2>3, <2>4, <2>5
<1> QED
  BY <1>3, <1>4, <1>5, <1>6, NextSteps

\* Every step keeps each leg paid once.
LEMMA NextPaid ==
    ASSUME TypeOK, Numbered, Sweeping, OneSweep, NextOccurrence, PaidFires, Next
    PROVE  PaidFires'
<1> SUFFICES ASSUME Orderly' PROVE PaidFires'
  BY DEF PaidFires
<1>0. Orderly
  BY StaysOrderly
<1>1. \A l \in Legs :
        /\ paid[l] <= 1
        /\ paid[l] = 1 => \/ l \in fired
                          \/ \E p \in Live : p.leg = l /\ p.at \in {"executed", "released"}
  BY <1>0 DEF PaidFires
<1>2. CASE UNCHANGED <<fired, paid>> /\ Live \subseteq Live'
  BY <1>1, <1>2 DEF PaidFires
<1>3. CASE tick \/ rivalClaims \/ rivalEnds \/ readBalance \/ claimLock
  <2>1. UNCHANGED <<fired, paid, jobs>>
    BY <1>0, <1>3, SweepMoves
  <2> QED
    BY <1>2, <2>1 DEF Live
<1>4. CASE readDue
  <2>1. UNCHANGED <<fired, paid, jobs>>
    BY <1>4, ReadDueStep
  <2> QED
    BY <1>2, <2>1 DEF Live
<1>5. CASE enqueue
  <2>1. UNCHANGED <<fired, paid>> /\ Live \subseteq Live'
    BY <1>5, EnqueueMoves
  <2> QED
    BY <1>2, <2>1
<1>6. ASSUME NEW j \in jobs, workerStep(j) \/ resolvePendingTransfer(j)
      PROVE  PaidFires'
  <2>1. PICK k : Moved(j, k) /\ JobMoves(j, k)
    BY <1>6, JobStep
  <2>2. /\ j \in Live /\ k.leg = j.leg /\ j.leg \in Legs
        /\ Live' = (Live \ {j}) \union (IF k.at # "done" THEN {k} ELSE {})
        /\ fired' = fired \/ (k.at = "done" /\ fired' = fired \union {j.leg})
        /\ \/ /\ paid' = paid
              /\ j.at \in {"executed", "released"} => k.at = "released" \/ j.leg \in fired'
           \/ /\ paid' = [paid EXCEPT ![j.leg] = @ + 1]
              /\ j.at \in {"posted", "pending"}
              /\ k.at = "executed" \/ j.leg \in fired'
    BY <1>0, <2>1, LiveMoves
  <2>3. fired \subseteq fired'
    BY <2>2
  <2>4. k.at # "done" => k \in Live'
    BY <2>2
  <2>5. paid \in [Legs -> Nat]
    BY DEF TypeOK
  <2>6. ASSUME NEW l \in Legs, paid'[l] = paid[l],
               l = j.leg => (j.at \in {"executed", "released"} =>
                               k.at = "released" \/ j.leg \in fired')
        PROVE  /\ paid'[l] <= 1
               /\ paid'[l] = 1 => \/ l \in fired'
                                  \/ \E p \in Live' : p.leg = l /\ p.at \in {"executed", "released"}
    <3> SUFFICES ASSUME paid[l] = 1, l \notin fired'
                 PROVE  \E p \in Live' : p.leg = l /\ p.at \in {"executed", "released"}
      BY <1>1, <2>6
    <3>1. PICK p \in Live : p.leg = l /\ p.at \in {"executed", "released"}
      BY <1>1, <2>3
    <3>2. CASE p = j
      BY <2>2, <2>4, <2>6, <3>1, <3>2
    <3>3. CASE p # j
      BY <2>2, <3>1, <3>3
    <3> QED
      BY <3>2, <3>3
  <2>7. CASE /\ paid' = paid
             /\ j.at \in {"executed", "released"} => k.at = "released" \/ j.leg \in fired'
    BY <2>6, <2>7 DEF PaidFires
  <2>8. CASE /\ paid' = [paid EXCEPT ![j.leg] = @ + 1]
             /\ j.at \in {"posted", "pending"}
             /\ k.at = "executed" \/ j.leg \in fired'
    <3>1. paid[j.leg] = 0
      <4>1. j.leg \notin fired /\ \A p \in Live : p.leg = j.leg => p = j
        BY <1>0, <2>2 DEF OneSweep
      <4>2. paid[j.leg] # 1
        BY <1>1, <2>2, <2>8, <4>1
      <4> QED
        BY <1>1, <2>2, <2>5, <4>2
    <3>2. paid'[j.leg] = 1
      BY <2>2, <2>5, <2>8, <3>1
    <3>3. ASSUME NEW l \in Legs
          PROVE  /\ paid'[l] <= 1
                 /\ paid'[l] = 1 => \/ l \in fired'
                                    \/ \E p \in Live' : p.leg = l /\ p.at \in {"executed", "released"}
      <4>1. CASE l = j.leg
        BY <2>2, <2>4, <2>8, <3>2, <4>1
      <4>2. CASE l # j.leg
        <5>1. paid'[l] = paid[l]
          BY <2>5, <2>8, <4>2
        <5> QED
          BY <2>6, <4>2, <5>1
      <4> QED
        BY <4>1, <4>2
    <3> QED
      BY <3>3 DEF PaidFires
  <2> QED
    BY <2>2, <2>7, <2>8
<1> QED
  BY <1>3, <1>4, <1>5, <1>6, NextSteps
-----------------------------------------------------------------------------
(* The balance covers what was admitted *)

\* The mode never changes, and neither does what a leg needs.
LEMMA ModeKept ==
    ASSUME TypeOK, Numbered, Next
    PROVE  mode' = mode /\ need' = need
<1>1. ASSUME NEW j \in jobs, workerStep(j) \/ resolvePendingTransfer(j)
      PROVE  mode' = mode
  BY <1>1, JobStep
<1>2. mode' = mode
  BY <1>1, NextSteps DEF tick, rivalClaims, rivalEnds, readDue, readBalance, claimLock, enqueue
<1> QED
  BY <1>2 DEF need, Need

\* The legs still to be posted, and what they need.
LEMMA OwedTyped ==
    ASSUME TypeOK
    PROVE  /\ Owed \in SUBSET Legs
           /\ \A l : l \in Owed <=>
                \/ \E i \in jobs : i.at = "queued" /\ i.leg = l
                \/ l \in Claimed
           /\ Sum(need, Owed) \in Nat
           /\ \A S \in SUBSET Owed : Sum(need, S) \in Nat /\ Sum(need, S) <= Sum(need, Owed)
           /\ \A l \in Owed : need[l] = Need(l) /\ Need(l) \in Nat
                                /\ Sum(need, Owed) = Need(l) + Sum(need, Owed \ {l})
<1>1. Owed \in SUBSET Legs
  BY DEF Owed, Claimed, TypeOK, Job
<1>2. \A l : l \in Owed <=> (\E i \in jobs : i.at = "queued" /\ i.leg = l) \/ l \in Claimed
  BY DEF Owed
<1>3. IsFiniteSet(Owed) /\ \A l \in Owed : need[l] \in Int /\ need[l] >= 0
                                              /\ need[l] = Need(l) /\ Need(l) \in Nat
  BY <1>1, LegsFinite, NeedTyped
<1>4. \A S \in SUBSET Owed : Sum(need, S) \in Nat
  BY <1>1, NeedTyped
<1> HIDE DEF need, Owed
<1>5. \A S \in SUBSET Owed : Sum(need, S) <= Sum(need, Owed)
  BY <1>3, SumSubset
<1>6. \A l \in Owed : Sum(need, Owed) = need[l] + Sum(need, Owed \ {l})
  BY <1>3, SumRemove
<1> QED
  BY <1>1, <1>2, <1>3, <1>4, <1>5, <1>6

\* Where no more is owed and no less is there, the balance still covers it.
LEMMA CoverFrame ==
    ASSUME TypeOK, Sum(need, Owed) <= balance, Owed' \subseteq Owed, balance' \in Nat,
           balance' >= balance, need' = need
    PROVE  Sum(need, Owed)' <= balance'
<1>1. Owed' \in SUBSET Owed
  OBVIOUS
<1>2. Sum(need, Owed') \in Nat /\ Sum(need, Owed') <= Sum(need, Owed) /\ Sum(need, Owed) \in Nat
  BY <1>1, OwedTyped
<1>3. Sum(need', Owed') = Sum(need, Owed')
  BY Zenon
<1>4. balance \in Nat
  BY DEF TypeOK
<1>5. Sum(need', Owed') <= balance'
  BY <1>2, <1>3, <1>4
<1> QED
  BY <1>5

\* Every step keeps the balance sufficient.
LEMMA NextCovered ==
    ASSUME Inv, TypeOK', Next
    PROVE  Covered'
<1>0. TypeOK /\ Numbered /\ Sweeping /\ LockCounts /\ OneSweep /\ NextOccurrence /\ Covered
  BY DEF Inv
<1> SUFFICES ASSUME windows' = {} PROVE Covered'
  BY DEF Covered
<1>1. windows = {} /\ Orderly /\ Orderly'
  BY <1>0, WindowsGrow DEF Orderly
<1>2. /\ ~short /\ Sum(need, Owed) <= balance
      /\ sweep.pc = "claim" /\ ~sweep.moved => Sum(need, sweep.legs) <= balance
  BY <1>0, <1>1 DEF Covered
<1>3. mode' = mode /\ need' = need /\ balance \in Nat /\ balance' \in Nat
  BY <1>0, ModeKept DEF TypeOK
<1>4. /\ sweep.pc \in {"balance", "claim"} => Live = {}
      /\ \A j, k \in Live : j.leg = k.leg => j = k
      /\ \A j \in Live : j.leg \notin sweep.legs
  BY <1>0, <1>1 DEF OneSweep
<1>5. ASSUME Owed' \subseteq Owed, balance' >= balance, ~short',
             sweep'.pc = "claim" /\ ~sweep'.moved => Sum(need, sweep'.legs) <= balance'
      PROVE  Covered'
  <2>1. Sum(need, Owed)' <= balance'
    BY <1>0, <1>2, <1>3, <1>5, CoverFrame
  <2>2. Sum(need', sweep'.legs) = Sum(need, sweep'.legs)
    BY <1>3, Zenon
  <2>3. sweep'.pc = "claim" /\ ~sweep'.moved => Sum(need', sweep'.legs) <= balance'
    BY <1>5, <2>2
  <2> QED
    BY <1>5, <2>1, <2>3 DEF Covered
<1>6. CASE UNCHANGED <<balance, sweep, jobs, short>>
  <2>1. Owed' = Owed
    BY <1>6 DEF Owed, Claimed
  <2> QED
    BY <1>2, <1>3, <1>5, <1>6, <2>1
<1>7. CASE rivalEnds
  <2>1. /\ rivals.active /\ balance' \in {0, balance} /\ UNCHANGED <<jobs, short>>
        /\ sweep'.pc = sweep.pc /\ sweep'.legs = sweep.legs
        /\ sweep.pc = "claim" /\ ~sweep'.moved => balance' = balance
    BY <1>0, <1>7, RivalEndsStep
  <2>2. Cardinality(Held) = 0 /\ Cardinality(Claimed) = 0
    BY <1>0, <1>1, <2>1, SharesTyped DEF LockCounts
  <2>3. IsFiniteSet(Held) /\ IsFiniteSet(Claimed)
    BY <1>0, SharesTyped, FS_Subset DEF Held, TypeOK
  <2>4. Held = {} /\ Claimed = {}
    BY <2>2, <2>3, FS_EmptySet
  <2>5. Owed' = {}
    BY <2>1, <2>4 DEF Owed, Held, Claimed
  <2>6. Sum(need, Owed)' = 0
    <3>1. Sum(need', {}) = 0
      BY SumEmpty
    <3>2. Sum(need', Owed') = Sum(need', {})
      BY <2>5, Zenon
    <3> QED
      BY <3>1, <3>2
  <2>7. CASE sweep.pc = "claim" /\ ~sweep'.moved
    <3>1. sweep.moved => sweep'.moved
      BY <1>0, <1>7, RivalEndsStep
    <3>2. balance' = balance
      BY <2>1, <2>7
    <3>3. Owed = {}
      BY <2>4 DEF Owed, Held
    <3> QED
      BY <1>0, <1>2, <1>3, <1>5, <2>1, <2>5, <2>7, <3>1, <3>2, <3>3
  <2>8. CASE ~(sweep.pc = "claim" /\ ~sweep'.moved)
    <3>1. ~(sweep'.pc = "claim" /\ ~sweep'.moved)
      BY <2>1, <2>8
    <3> QED
      BY <1>2, <1>3, <2>1, <2>6, <3>1 DEF Covered
  <2> QED
    BY <2>7, <2>8
<1>8. CASE readDue
  <2>1. sweep.pc = "idle" /\ sweep'.pc = "balance" /\ UNCHANGED <<balance, jobs, short>>
    BY <1>0, <1>8, ReadDueStep
  <2>2. Owed' = Owed
    BY <2>1 DEF Owed, Claimed
  <2> QED
    BY <1>2, <1>3, <1>5, <2>1, <2>2
<1>9. CASE readBalance
  <2>1. sweep.pc = "balance" /\ UNCHANGED <<balance, jobs, short>>
    BY <1>0, <1>9, ReadBalanceStep
  <2>2. \/ sweep' = NoSweep
        \/ sweep' \in [pc : {"claim"}, legs : SUBSET Legs, balance : Nat, moved : BOOLEAN]
           /\ Sum(need, sweep'.legs) <= balance
    BY <1>0, <1>9, ReadBalanceStep
  <2>3. /\ sweep'.pc \in {"idle", "claim"}
        /\ sweep'.pc = "claim" => Sum(need, sweep'.legs) <= balance
    BY <2>2 DEF NoSweep
  <2>4. Owed' = Owed
    BY <2>1, <2>3 DEF Owed, Claimed
  <2> QED
    BY <1>2, <1>3, <1>5, <2>1, <2>3, <2>4
<1>10. CASE claimLock
  <2>1. sweep.pc = "claim" /\ UNCHANGED <<balance, jobs, short>>
    BY <1>0, <1>10, ClaimStep
  <2>2. Live = {}
    BY <1>4, <2>1
  <2>3. CASE sweep' = NoSweep
    <3>1. sweep'.pc = "idle"
      BY <2>3 DEF NoSweep
    <3>2. Owed' = Owed
      BY <2>1, <3>1 DEF Owed, Claimed
    <3> QED
      BY <1>2, <1>3, <1>5, <2>1, <3>1, <3>2
  <2>4. CASE /\ sweep'.pc = "enqueue" /\ sweep'.legs = sweep.legs
             /\ windows' = IF sweep.moved THEN windows \union {"moved"} ELSE windows
    <3>1. ~sweep.moved
      BY <1>1, <2>4
    <3>2. Owed' = sweep.legs
      BY <2>1, <2>2, <2>4 DEF Owed, Claimed, Live
    <3>3. Sum(need', Owed') = Sum(need, sweep.legs)
      BY <1>3, <3>2, Zenon
    <3>4. Sum(need', Owed') <= balance'
      BY <1>2, <2>1, <3>1, <3>3
    <3> QED
      BY <1>2, <2>1, <2>4, <3>4 DEF Covered
  <2>5. \/ sweep' = NoSweep
        \/ /\ sweep' \in [pc : {"enqueue"}, legs : SUBSET Legs, balance : Nat, moved : BOOLEAN]
           /\ sweep'.legs = sweep.legs
           /\ windows' = IF sweep.moved THEN windows \union {"moved"} ELSE windows
    BY <1>0, <1>10, ClaimStep
  <2> QED
    BY <2>3, <2>4, <2>5
<1>11. CASE enqueue
  <2>1. PICK l \in sweep.legs :
          /\ l \in Legs /\ sweep' = Without(l)
          /\ jobs' = jobs \union {Fresh(l)} \/ jobs' = jobs
    BY <1>0, <1>11, EnqueueStep
  <2>2. sweep.pc = "enqueue" /\ UNCHANGED <<balance, short>>
    BY <1>0, <1>11, EnqueueStep
  <2>3. /\ Claimed' = Claimed \ {l} /\ l \in Claimed
        /\ sweep' \in [pc : {"idle", "enqueue"}, legs : SUBSET Legs, balance : Nat, moved : BOOLEAN]
    BY <1>0, <2>1, <2>2, WithoutLegs DEF Claimed
  <2>4. Fresh(l).leg = l
    BY <1>0, <2>1, FreshJob
  <2>5. Owed' \subseteq Owed
    BY <2>1, <2>3, <2>4 DEF Owed
  <2> QED
    BY <1>2, <1>3, <1>5, <2>2, <2>3, <2>5
<1>12. ASSUME NEW j \in jobs, workerStep(j) \/ resolvePendingTransfer(j)
       PROVE  Covered'
  <2>1. PICK k : Moved(j, k) /\ JobMoves(j, k)
    BY <1>0, <1>12, JobStep
  <2>2. UNCHANGED sweep
    BY <1>0, <1>12, JobStep
  <2>3. j \in Live /\ k.leg = j.leg /\ j.leg \in Legs
    BY <1>0, <1>1, <2>1, LiveMoves
  <2>4. sweep'.pc # "claim" /\ Claimed' = Claimed
    BY <1>4, <2>2, <2>3 DEF Claimed
  <2>5. jobs' = (jobs \ {j}) \union {k}
    BY <2>1 DEF Moved
  <2>6. Need(j.leg) \in Nat
    BY <2>3, NeedTyped
  <2>7. CASE j.at = "queued"
    <3>1. j.leg \in Owed
      BY <2>7 DEF Owed
    <3>2. /\ Sum(need, Owed) = Need(j.leg) + Sum(need, Owed \ {j.leg})
          /\ Sum(need, Owed) \in Nat /\ Sum(need, Owed \ {j.leg}) \in Nat
      <4>1. Owed \ {j.leg} \in SUBSET Owed
        OBVIOUS
      <4> QED
        BY <1>0, <3>1, <4>1, OwedTyped
    <3>3. balance >= Need(j.leg)
      BY <1>2, <1>3, <2>6, <3>2
    <3>4. Posts(j, k)
      BY <1>3, <2>1, <2>6, <2>7, <3>3 DEF JobMoves, Posts, FindsShort, Executes, Waits, Refused,
           Releases, Applies, Interrupted, Resolves, ResolvesRefused
    <3>5. k.at = "posted" /\ balance' = balance - Need(j.leg) /\ short' = short
      BY <3>4 DEF Posts
    <3>6. Owed' = Owed \ {j.leg}
      <4>1. j.leg \notin Claimed
        BY <1>4, <2>3 DEF Claimed
      <4>2. \A i \in jobs : i.at = "queued" /\ i.leg = j.leg => i = j
        BY <1>4, <2>3 DEF Live
      <4>3. \A l : l \in Owed' <=>
              (\E i \in jobs' : i.at = "queued" /\ i.leg = l) \/ l \in Claimed'
        BY DEF Owed
      <4>4. \A l : l \in Owed <=>
              (\E i \in jobs : i.at = "queued" /\ i.leg = l) \/ l \in Claimed
        BY DEF Owed
      <4> QED
        BY <2>4, <2>5, <3>5, <4>1, <4>2, <4>3, <4>4
    <3>7. Sum(need', Owed') = Sum(need, Owed \ {j.leg})
      BY <1>3, <3>6, Zenon
    <3>8. Sum(need', Owed') <= balance'
      BY <1>2, <1>3, <2>6, <3>2, <3>5, <3>7
    <3> QED
      BY <1>2, <2>4, <3>5, <3>8 DEF Covered
  <2>8. CASE j.at # "queued"
    <3>1. k.at # "queued" /\ balance' \in {balance, balance + Need(j.leg)} /\ short' = short
      BY <2>1, <2>8 DEF JobMoves, Posts, FindsShort, Executes, Waits, Refused,
           Releases, Applies, Interrupted, Resolves, ResolvesRefused
    <3>2. balance' >= balance
      BY <1>3, <2>6, <3>1
    <3>3. Owed' \subseteq Owed
      BY <2>4, <2>5, <3>1 DEF Owed
    <3> QED
      BY <1>2, <1>5, <2>4, <3>1, <3>2, <3>3
  <2> QED
    BY <2>7, <2>8
<1>13. CASE tick \/ rivalClaims
  BY <1>6, <1>13 DEF tick, rivalClaims
<1> QED
  BY <1>7, <1>8, <1>9, <1>10, <1>11, <1>12, <1>13, NextSteps
-----------------------------------------------------------------------------
(* The theorems *)

\* The invariant holds at first.
LEMMA InitInv == Init => Inv
<1> SUFFICES ASSUME Init PROVE Inv
  OBVIOUS
<1>1. jobs = {} /\ sweep.pc = "idle" /\ sweep.legs = {} /\ fired = {} /\ ~short
      /\ \A l \in Legs : paid[l] = 0
  BY DEF Init, NoSweep
<1>2. Numbered /\ Sweeping /\ OneSweep /\ NextOccurrence /\ PaidFires
  BY <1>1 DEF Numbered, Sweeping, OneSweep, NextOccurrence, PaidFires, Live
<1>3. TypeOK /\ LockCounts
  BY InitType, InitLock
<1>4. Covered
  <2>1. Owed = {}
    BY <1>1 DEF Owed, Claimed
  <2>2. Sum(need, {}) = 0
    BY SumEmpty
  <2>3. Sum(need, Owed) = 0
    BY <2>1, <2>2, Zenon
  <2> QED
    BY <1>1, <1>3, <2>3 DEF Covered, TypeOK
<1> QED
  BY <1>2, <1>3, <1>4 DEF Inv

\* The invariant holds throughout.
THEOREM Invariance == Spec => []Inv
<1>1. Inv /\ [Next]_vars => Inv'
  <2> SUFFICES ASSUME Inv, [Next]_vars PROVE Inv'
    OBVIOUS
  <2>1. CASE UNCHANGED vars
    <3>1. TypeOK' /\ Numbered' /\ Sweeping' /\ LockCounts'
      BY <2>1 DEF vars, Inv, TypeOK, Numbered, JobsOf, Sweeping, LockCounts, Held, Claimed
    <3>2. OneSweep' /\ NextOccurrence' /\ PaidFires'
      BY <2>1 DEF vars, Inv, OneSweep, Orderly, Live, NextOccurrence, Unfired, PaidFires
    <3>3. Covered'
      BY <2>1 DEF vars, Inv, Covered, Owed, Claimed, need, Need
    <3> QED
      BY <3>1, <3>2, <3>3 DEF Inv
  <2>2. CASE Next
    <3>1. TypeOK'
      BY <2>2, NextType DEF Inv
    <3>2. Numbered' /\ Sweeping' /\ LockCounts'
      BY <2>2, NextNumbered, NextSweeping, NextLock DEF Inv
    <3>3. OneSweep' /\ NextOccurrence' /\ PaidFires'
      BY <2>2, NextOneSweep, NextNextOccurrence, NextPaid DEF Inv
    <3> QED
      BY <2>2, <3>1, <3>2, <3>3, NextCovered DEF Inv
  <2> QED
    BY <2>1, <2>2
<1> QED
  BY <1>1, InitInv, PTL DEF Spec

\* A leg is paid at most once, unless a sweep began while a payout was under way or a
\* statement failed after the transfer (fireDueScheduledLegs, applyOnSuccess).
THEOREM LegsPaidOnce == Spec => []LegPaidOnce
<1>1. Inv => LegPaidOnce
  BY DEF Inv, PaidFires, Orderly, LegPaidOnce
<1> QED
  BY <1>1, Invariance, PTL

\* A leg that was admitted finds the balance short only after a window
\* (enqueueUnorderedLegs).
THEOREM AdmittedAlwaysCovered == Spec => []AdmittedIsCovered
<1>1. Inv => AdmittedIsCovered
  BY DEF Inv, Covered, AdmittedIsCovered
<1> QED
  BY <1>1, Invariance, PTL

\* The lock counts the payouts under way, the legs still to be enqueued and the admin's
\* operation, unless a statement failed after a transfer (decrementPendingOperationLeg).
THEOREM LockAlwaysCounts == Spec => []LockCountsLegs
<1>1. ASSUME Inv PROVE LockCountsLegs
  <2>1. {j \in Live : j.at # "released"} = Held
    BY <1>1 DEF Inv, TypeOK, Live, Held, Job
  <2>2. Cardinality({j \in Live : j.at # "released"}) = Cardinality(Held)
    BY <2>1, Zenon
  <2>3. Cardinality(Claimed) = IF sweep.pc = "enqueue" THEN Cardinality(sweep.legs) ELSE 0
    <3>1. Cardinality({}) = 0
      BY FS_EmptySet
    <3> QED
      BY <3>1 DEF Claimed
  <2> QED
    BY <1>1, <2>2, <2>3 DEF Inv, LockCounts, LockCountsLegs
<1> QED
  BY <1>1, Invariance, PTL
=============================================================================
