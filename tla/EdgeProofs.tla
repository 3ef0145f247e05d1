----------------------------- MODULE EdgeProofs -----------------------------
(***************************************************************************)
(* Proofs about the parts at the edge of the system, one section for each: *)
(* what Nomba is asked (ProviderClient), the browsers' sessions            *)
(* (Sessions), the pages a pot is drafted on (PotWizard), and the events   *)
(* Nomba sends (WebhookInbox).  They hold for any number of callers,       *)
(* devices, tabs, legs, events and deliveries, and however many faults     *)
(* there are.                                                              *)
(***************************************************************************)
EXTENDS ProviderClient, Sessions, PotWizard, WebhookInbox, TLAPS, FiniteSetTheorems

-----------------------------------------------------------------------------
(* ProviderClient *)

\* The two books and the pass have their types.
LineItem ==
    [ref : Refs, status : {"orphan", "matched", "overpaid", "underpaid", "missing_on_nomba"}]
Listing  == [ref : Refs, amount : Nat]
PassType ==
    [pc : {"idle", "fetch", "missing", "close", "closed", "failed"}, expected : SUBSET Refs,
     cursor : Nat, pages : Nat, seen : SUBSET Refs, findings : SUBSET LineItem,
     reportedAmount : Nat, batch : {"none", "open", "matched", "mismatched"}]

BooksType ==
    /\ posted \subseteq Refs
    /\ listed \in Seq(Listing)
    /\ pass \in PassType

\* The pass has seen what stands before its cursor, and nothing else.
ReadToCursor ==
    /\ pass.cursor <= Len(listed)
    /\ pass.seen = {listed[i].ref : i \in 1 .. pass.cursor}

\* Agreement of the transaction at i with our books.
Agrees(i) == listed[i].ref \in posted /\ listed[i].amount = Due[listed[i].ref]

\* Each transaction that was read has a line item, and "matched" is said of it only if
\* it agrees.
Classified ==
    \A i \in 1 .. pass.cursor :
        \E f \in pass.findings : f.status = "matched" => Agrees(i)

\* After the last page, what was expected and not seen has a line item too.
MissingListed ==
    pass.pc \in {"close", "closed"} =>
        \A r \in pass.expected \ pass.seen :
            [ref |-> r, status |-> "missing_on_nomba"] \in pass.findings

\* The verdict is about all line items of a pass that came to its end.
Verdict ==
    pass.batch = "matched" =>
        pass.pc = "closed" /\ \A f \in pass.findings : f.status = "matched"

\* The inductive invariant of the pass.
ClientInv == BooksType /\ ReadToCursor /\ Classified /\ MissingListed /\ Verdict
-----------------------------------------------------------------------------
\* The steps that leave the pass and both books alone.
LEMMA BooksAlone ==
    ASSUME ClientInv, UNCHANGED <<posted, listed, pass>>
    PROVE  ClientInv'
BY DEF ClientInv, BooksType, ReadToCursor, Classified, Agrees, MissingListed, Verdict

\* Every step but those of the pass and of the books is one of these.
LEMMA OthersLeaveBooksAlone ==
    ASSUME NEW c,
           \/ getAccessToken(c) \/ requestFails(c) \/ reserve(c) \/ reserveFails(c)
           \/ delayForThrottle(c) \/ callNomba(c) \/ jobFails(c)
           \/ tokenArrives \/ refreshFails \/ issueFails \/ tokenAges \/ refreshTokenEnds
           \/ slide
    PROVE  UNCHANGED <<posted, listed, pass>>
BY DEF getAccessToken, requestFails, reserve, reserveFails, delayForThrottle, callNomba, jobFails,
       tokenArrives, refreshFails, issueFails, tokenAges, refreshTokenEnds, slide, books

\* A row is posted: what agreed still agrees.
LEMMA PostInv ==
    ASSUME ClientInv, NEW r \in Refs, post(r)
    PROVE  ClientInv'
<1>1. /\ posted' = posted \union {r}
      /\ listed' = listed /\ pass' = pass
  BY DEF post
<1>2. BooksType' /\ ReadToCursor' /\ MissingListed' /\ Verdict'
  BY <1>1 DEF ClientInv, BooksType, ReadToCursor, MissingListed, Verdict
<1>3. Classified'
  BY <1>1 DEF ClientInv, Classified, Agrees
<1> QED
  BY <1>2, <1>3 DEF ClientInv

\* Nomba settles: the new transaction stands behind the cursor.
LEMMA SettlesInv ==
    ASSUME ClientInv, NEW r \in Refs, settles(r)
    PROVE  ClientInv'
<1>1. PICK amount \in Paid[r] : listed' = Append(listed, [ref |-> r, amount |-> amount])
  BY DEF settles
<1>2. posted' = posted /\ pass' = pass
  BY DEF settles
<1>3. amount \in Nat
  BY ProviderClientAssumption
<1>4. /\ listed \in Seq(Listing)
      /\ pass.cursor \in Nat /\ pass.cursor <= Len(listed)
  BY DEF ClientInv, BooksType, ReadToCursor, PassType
<1>5. /\ Len(listed') = Len(listed) + 1
      /\ listed' \in Seq(Listing)
      /\ \A i \in 1 .. pass.cursor : listed'[i] = listed[i]
  BY <1>1, <1>3, <1>4 DEF Listing
<1>6. BooksType'
  BY <1>2, <1>5 DEF ClientInv, BooksType
<1>7. ReadToCursor'
  <2>1. pass.seen = {listed[i].ref : i \in 1 .. pass.cursor}
    BY DEF ClientInv, ReadToCursor
  <2>2. pass.seen = {listed'[i].ref : i \in 1 .. pass.cursor}
    BY <2>1, <1>5
  <2> QED
    BY <1>2, <1>4, <1>5, <2>2 DEF ReadToCursor
<1>8. Classified'
  BY <1>2, <1>5 DEF ClientInv, Classified, Agrees
<1>9. MissingListed' /\ Verdict'
  BY <1>2 DEF ClientInv, MissingListed, Verdict
<1> QED
  BY <1>6, <1>7, <1>8, <1>9 DEF ClientInv

\* A new pass has read nothing.
LEMMA RunInv ==
    ASSUME ClientInv, runForWindow
    PROVE  ClientInv'
<1>1. /\ pass' = [NewPass EXCEPT !.pc = "fetch", !.expected = posted, !.batch = "open"]
      /\ posted' = posted /\ listed' = listed
  BY DEF runForWindow, books
<1>2. /\ pass' = [pc |-> "fetch", expected |-> posted, cursor |-> 0, pages |-> 0, seen |-> {},
                  findings |-> {}, reportedAmount |-> 0, batch |-> "open"]
  BY <1>1 DEF NewPass
<1>3. BooksType'
  BY <1>1, <1>2 DEF ClientInv, BooksType, PassType
<1>4. /\ pass'.cursor = 0 /\ pass'.seen = {} /\ pass'.batch = "open" /\ pass'.pc = "fetch"
  BY <1>2
<1> QED
  BY <1>3, <1>4 DEF ClientInv, BooksType, ReadToCursor, Classified, MissingListed, Verdict

\* A pass that is fetching pages has no verdict.
LEMMA OpenWhileReading ==
    ASSUME ClientInv, pass.pc \in {"fetch", "missing", "close"}
    PROVE  pass.batch # "matched"
BY DEF ClientInv, Verdict

\* nextPage only counts the page and says where the pass goes on.
LEMMA NextPageOnly ==
    ASSUME NEW p \in PassType,
           NEW more \in BOOLEAN, NEW q, q = nextPage(p, more)
    PROVE  /\ q.pc \in {"failed", "fetch", "missing"}
           /\ q.expected = p.expected /\ q.cursor = p.cursor /\ q.seen = p.seen
           /\ q.findings = p.findings /\ q.batch = p.batch
           /\ q \in PassType
<1>1. p.pages + 1 \in Nat
  BY DEF PassType
<1> DEFINE to == IF p.pages + 1 > MAX_RECONCILE_PAGES THEN "failed"
                 ELSE IF more THEN "fetch" ELSE "missing"
<1>2. to \in {"failed", "fetch", "missing"}
  OBVIOUS
<1>3. q = [p EXCEPT !.pages = p.pages + 1, !.pc = to]
  BY DEF nextPage
<1> HIDE DEF to
<1> QED
  BY <1>1, <1>2, <1>3 DEF PassType

\* An empty page, whatever its cursor says, changes nothing that was read.
LEMMA EmptyPageInv ==
    ASSUME ClientInv, pass.pc = "fetch", UNCHANGED <<posted, listed>>,
           NEW more \in BOOLEAN, pass' = nextPage(pass, more)
    PROVE  ClientInv'
<1>1. pass.batch # "matched"
  BY OpenWhileReading
<1>2. /\ pass'.pc \in {"failed", "fetch", "missing"}
      /\ pass'.expected = pass.expected /\ pass'.cursor = pass.cursor /\ pass'.seen = pass.seen
      /\ pass'.findings = pass.findings /\ pass'.batch = pass.batch
      /\ BooksType'
  BY NextPageOnly DEF ClientInv, BooksType
<1> QED
  BY <1>1, <1>2 DEF ClientInv, ReadToCursor, Classified, Agrees, MissingListed, Verdict

\* The line item of a transaction says "matched" only if it agrees with the books.
LEMMA LineItemTrue ==
    ASSUME BooksType, NEW i \in 1 .. Len(listed)
    PROVE  /\ buildLineItem(listed[i]) \in LineItem
           /\ buildLineItem(listed[i]).status = "matched" => Agrees(i)
<1>1. listed[i] \in Listing
  <2>1. listed \in Seq(Listing)
    BY DEF BooksType
  <2> QED
    BY <2>1
<1> DEFINE status == IF listed[i].ref \notin posted THEN "orphan"
                      ELSE IF listed[i].amount = Due[listed[i].ref] THEN "matched"
                      ELSE IF listed[i].amount > Due[listed[i].ref] THEN "overpaid" ELSE "underpaid"
<1>3. /\ status \in {"orphan", "matched", "overpaid", "underpaid", "missing_on_nomba"}
      /\ status = "matched" => Agrees(i)
  BY DEF Agrees
<1>4. buildLineItem(listed[i]) = [ref |-> listed[i].ref, status |-> status]
  BY DEF buildLineItem
<1> HIDE DEF status
<1> QED
  BY <1>1, <1>3, <1>4 DEF LineItem, Listing

\* A page: its transaction gets a line item made from the books as they are now.
LEMMA FetchInv ==
    ASSUME ClientInv, fetchTransactions
    PROVE  ClientInv'
<1>1. /\ pass.pc = "fetch" /\ posted' = posted /\ listed' = listed
  BY DEF fetchTransactions, books
<1>2. CASE ~(pass.cursor < Len(listed))
  BY <1>1, <1>2, EmptyPageInv DEF fetchTransactions
<1>3. CASE pass.cursor < Len(listed)
  <2> DEFINE tx == listed[pass.cursor + 1]
             p  == [pass EXCEPT !.cursor = @ + 1, !.seen = @ \union {tx.ref},
                                !.findings = @ \union {buildLineItem(tx)},
                                !.reportedAmount = @ + tx.amount]
             more == pass.cursor + 1 < Len(listed)
  <2>1. pass' = nextPage(p, more)
    BY <1>3 DEF fetchTransactions
  <2>2. /\ pass.cursor + 1 \in 1 .. Len(listed) /\ pass.cursor \in Nat
        /\ tx \in Listing
    <3>1. listed \in Seq(Listing) /\ pass.cursor \in Nat
      BY DEF ClientInv, BooksType, PassType
    <3> QED
      BY <1>3, <3>1
  <2>3. /\ buildLineItem(tx) \in LineItem
        /\ buildLineItem(tx).status = "matched" => Agrees(pass.cursor + 1)
    BY <2>2, LineItemTrue DEF ClientInv
  <2>4. /\ p.cursor = pass.cursor + 1 /\ p.seen = pass.seen \union {tx.ref}
        /\ p.findings = pass.findings \union {buildLineItem(tx)}
        /\ p.expected = pass.expected /\ p.batch = pass.batch
        /\ p \in PassType
    <3>1. /\ pass \in PassType /\ tx.ref \in Refs /\ tx.amount \in Nat
      BY <2>2 DEF ClientInv, BooksType, Listing
    <3> DEFINE ref == tx.ref
               item == buildLineItem(tx)
               amount == tx.amount
    <3>2. p = [pass EXCEPT !.cursor = @ + 1, !.seen = @ \union {ref}, !.findings = @ \union {item},
                           !.reportedAmount = @ + amount]
      OBVIOUS
    <3>3. ref \in Refs /\ item \in LineItem /\ amount \in Nat
      BY <2>3, <3>1
    <3> HIDE DEF ref, item, amount, p
    <3>4. /\ pass.seen \union {ref} \in SUBSET Refs
          /\ pass.findings \union {item} \in SUBSET LineItem
          /\ pass.cursor + 1 \in Nat /\ pass.reportedAmount + amount \in Nat
      BY <3>1, <3>3 DEF PassType
    <3>5. /\ p.cursor = pass.cursor + 1 /\ p.seen = pass.seen \union {ref}
          /\ p.findings = pass.findings \union {item}
          /\ p.expected = pass.expected /\ p.batch = pass.batch
      BY <3>1, <3>2 DEF PassType
    <3>6. p \in PassType
      BY <3>1, <3>2, <3>4 DEF PassType
    <3> QED
      BY <3>5, <3>6 DEF ref, item
  <2> HIDE DEF p
  <2>5. /\ pass'.pc \in {"failed", "fetch", "missing"}
        /\ pass'.expected = p.expected /\ pass'.cursor = p.cursor /\ pass'.seen = p.seen
        /\ pass'.findings = p.findings /\ pass'.batch = p.batch
        /\ BooksType'
    <3>1. more \in BOOLEAN
      OBVIOUS
    <3> HIDE DEF more
    <3>2. pass' \in PassType /\ BooksType
      BY <2>1, <2>4, <3>1, NextPageOnly DEF ClientInv
    <3> QED
      BY <1>1, <2>1, <2>4, <3>1, <3>2, NextPageOnly DEF BooksType
  <2>6. ReadToCursor'
    <3>1. pass.seen = {listed[i].ref : i \in 1 .. pass.cursor}
      BY DEF ClientInv, ReadToCursor
    <3>2. pass'.seen = {listed[i].ref : i \in 1 .. pass.cursor + 1}
      BY <2>2, <2>4, <2>5, <3>1
    <3> QED
      BY <1>1, <2>2, <2>4, <2>5, <3>2 DEF ReadToCursor
  <2>7. Classified'
    <3> SUFFICES ASSUME NEW i \in 1 .. pass'.cursor
                 PROVE  \E f \in pass'.findings : f.status = "matched" => Agrees(i)'
      BY DEF Classified
    <3>1. Agrees(i)' = Agrees(i)
      BY <1>1 DEF Agrees
    <3>2. CASE i = pass.cursor + 1
      BY <2>3, <2>4, <2>5, <3>1, <3>2
    <3>3. CASE i # pass.cursor + 1
      <4>1. i \in 1 .. pass.cursor
        BY <2>2, <2>4, <2>5, <3>3
      <4> QED
        BY <2>4, <2>5, <3>1, <4>1 DEF ClientInv, Classified
    <3> QED
      BY <3>2, <3>3
  <2>8. MissingListed' /\ Verdict'
    BY <1>1, <2>4, <2>5, OpenWhileReading DEF MissingListed, Verdict
  <2> QED
    BY <2>5, <2>6, <2>7, <2>8 DEF ClientInv
<1> QED
  BY <1>2, <1>3

\* After the pages: line items are added, none is taken away.
LEMMA MissingInv ==
    ASSUME ClientInv, listExpectedRefs
    PROVE  ClientInv'
<1> DEFINE missing == {[ref |-> r, status |-> "missing_on_nomba"] : r \in pass.expected \ pass.seen}
<1>1. /\ pass.pc = "missing" /\ posted' = posted /\ listed' = listed
      /\ pass' = [pass EXCEPT !.pc = "close", !.findings = @ \union missing]
  BY DEF listExpectedRefs, books
<1>2. missing \in SUBSET LineItem
  <2>1. pass.expected \subseteq Refs
    BY DEF ClientInv, BooksType, PassType
  <2> QED
    BY <2>1 DEF LineItem
<1>3. \A r \in pass.expected \ pass.seen :
          [ref |-> r, status |-> "missing_on_nomba"] \in missing
  OBVIOUS
<1> HIDE DEF missing
<1>4. /\ pass'.pc = "close" /\ pass'.expected = pass.expected /\ pass'.cursor = pass.cursor
      /\ pass'.seen = pass.seen /\ pass'.batch = pass.batch
      /\ pass'.findings = pass.findings \union missing
      /\ BooksType'
  BY <1>1, <1>2 DEF ClientInv, BooksType, PassType
<1>5. ReadToCursor' /\ Classified'
  BY <1>1, <1>4 DEF ClientInv, ReadToCursor, Classified, Agrees
<1>6. MissingListed' /\ Verdict'
  BY <1>1, <1>3, <1>4, OpenWhileReading DEF MissingListed, Verdict
<1> QED
  BY <1>4, <1>5, <1>6 DEF ClientInv

\* The verdict is taken over the line items there are.
LEMMA CloseInv ==
    ASSUME ClientInv, closeBatch
    PROVE  ClientInv'
<1>1. /\ pass.pc = "close" /\ posted' = posted /\ listed' = listed
      /\ pass' = [pass EXCEPT !.pc = "closed",
                              !.batch = IF \A f \in pass.findings : f.status = "matched"
                                        THEN "matched" ELSE "mismatched"]
  BY DEF closeBatch, books
<1>2. /\ pass'.pc = "closed" /\ pass'.expected = pass.expected /\ pass'.cursor = pass.cursor
      /\ pass'.seen = pass.seen /\ pass'.findings = pass.findings
      /\ pass'.batch = "matched" => \A f \in pass.findings : f.status = "matched"
      /\ BooksType'
  BY <1>1 DEF ClientInv, BooksType, PassType
<1> QED
  BY <1>1, <1>2 DEF ClientInv, ReadToCursor, Classified, Agrees, MissingListed, Verdict

\* A pass that fails leaves its batch open.
LEMMA PassFailsInv ==
    ASSUME ClientInv, passFails
    PROVE  ClientInv'
<1>1. /\ pass.pc = "fetch" /\ posted' = posted /\ listed' = listed
      /\ pass' = [pass EXCEPT !.pc = "failed"]
  BY DEF passFails, books
<1>2. /\ pass'.pc = "failed" /\ pass'.expected = pass.expected /\ pass'.cursor = pass.cursor
      /\ pass'.seen = pass.seen /\ pass'.findings = pass.findings /\ pass'.batch = pass.batch
      /\ BooksType'
  BY <1>1 DEF ClientInv, BooksType, PassType
<1> QED
  BY <1>1, <1>2, OpenWhileReading
  DEF ClientInv, ReadToCursor, Classified, Agrees, MissingListed, Verdict

\* Every step keeps the invariant.
LEMMA ClientNextInv == ClientInv /\ [ClientNext]_clientVars => ClientInv'
<1> SUFFICES ASSUME ClientInv, [ClientNext]_clientVars PROVE ClientInv'
  OBVIOUS
<1>1. ASSUME NEW c \in Callers, work(c) PROVE ClientInv'
  BY <1>1, OthersLeaveBooksAlone, BooksAlone, FetchInv, MissingInv, CloseInv, PassFailsInv DEF work
<1>2. ASSUME NEW c \in Callers, requestFails(c) PROVE ClientInv'
  BY <1>2, OthersLeaveBooksAlone, BooksAlone
<1>3. ASSUME NEW j \in Jobs, reserveFails(j) PROVE ClientInv'
  BY <1>3, OthersLeaveBooksAlone, BooksAlone
<1>4. CASE tokenArrives \/ refreshFails \/ issueFails \/ tokenAges \/ refreshTokenEnds \/ slide
  BY <1>4, OthersLeaveBooksAlone, BooksAlone
<1>5. CASE runForWindow
  BY <1>5, RunInv
<1>6. CASE endlessCursor
  BY <1>6, EmptyPageInv DEF endlessCursor, books
<1>7. ASSUME NEW r \in Refs, post(r) \/ settles(r) PROVE ClientInv'
  BY <1>7, PostInv, SettlesInv
<1>8. CASE UNCHANGED clientVars
  BY <1>8, BooksAlone DEF clientVars
<1> QED
  BY <1>1, <1>2, <1>3, <1>4, <1>5, <1>6, <1>7, <1>8 DEF ClientNext

\* What the invariant says of a matched batch.
LEMMA ClientInvMatched == ClientInv => MatchedIsAgreement
<1> SUFFICES ASSUME ClientInv, pass.batch = "matched"
             PROVE  /\ pass.expected \subseteq {listed[i].ref : i \in 1 .. pass.cursor}
                    /\ \A i \in 1 .. pass.cursor : Agrees(i)
  BY DEF MatchedIsAgreement, Agrees
<1>1. pass.pc = "closed" /\ \A f \in pass.findings : f.status = "matched"
  BY DEF ClientInv, Verdict
<1>2. \A i \in 1 .. pass.cursor : Agrees(i)
  BY <1>1 DEF ClientInv, Classified
<1>3. ASSUME NEW r \in pass.expected, r \notin pass.seen PROVE FALSE
  <2>1. [ref |-> r, status |-> "missing_on_nomba"] \in pass.findings
    BY <1>1, <1>3 DEF ClientInv, MissingListed
  <2>2. [ref |-> r, status |-> "missing_on_nomba"].status = "matched"
    BY <1>1, <2>1
  <2> QED
    BY <2>2
<1> QED
  BY <1>2, <1>3 DEF ClientInv, ReadToCursor

\* A reconciliation batch marked matched (reconciliation.worker.ts) agrees with Nomba's list in
\* reference and amount and saw every row it expected, whatever the lists, pages and faults are.
THEOREM MatchedBatchAgrees == ClientSpec => []MatchedIsAgreement
<1>1. ClientInit => ClientInv
  BY DEF ClientInit, NewPass, ClientInv, BooksType, PassType, ReadToCursor, Classified, MissingListed, Verdict
<1>2. ClientInv /\ [ClientNext]_clientVars => ClientInv'
  BY ClientNextInv
<1>3. ClientInv => MatchedIsAgreement
  BY ClientInvMatched
<1> QED
  BY <1>1, <1>2, <1>3, PTL DEF ClientSpec
-----------------------------------------------------------------------------
(* Sessions *)

Pair     == [at : Int, rt : Nat]
Code     == [epoch : Nat, consumed : BOOLEAN, left : Nat]
UserRow  == [registered : BOOLEAN, verified : BOOLEAN, password : Nat, refresh : Nat,
             expired : BOOLEAN, tokenVersion : Nat, epoch : Nat]
TabSteps == {"idle", "consume", "verify", "reset", "issue", "signed in", "sent", "refresh",
             "rotate", "rotated", "revoke", "refused"}
TabState == [device : Devices, page : {"login", "app"}, pc : TabSteps, purpose : Purposes,
             otp : Nat, epoch : Nat, version : Nat, pair : Pair]

\* A tab about to rotate carries a token; only a sign-up or a login ends in tokens; and
\* while no reset has met a login, a tab that signs in does so by a code that was asked
\* for under the present password.
TabFits(q, password, met) ==
    /\ q \in TabState
    /\ q.pc \in {"refresh", "rotate"} => q.pair.rt # NoToken
    /\ q.pc \in {"verify", "issue"} => q.purpose # "password_reset"
    /\ q.pc \in {"consume", "verify", "issue"} /\ q.purpose # "password_reset" =>
          met \/ q.epoch = password

\* The same of a code that can still be used for one.
CodeFits(c, p, password, met) ==
    /\ c \in Code
    /\ p # "password_reset" /\ ~c.consumed /\ c.left > 0 => met \/ c.epoch = password

TabsFit ==
    /\ tab \in [Tabs -> TabState]
    /\ \A t \in Tabs : TabFits(tab[t], user.password, crossed)

CodesFit ==
    /\ codes \in [Purposes -> Seq(Code)]
    /\ \A p \in Purposes : \A i \in DOMAIN codes[p] :
          CodeFits(codes[p][i], p, user.password, crossed)

\* The token on file has not been rotated, and no token was rotated twice.
TokensFit ==
    /\ exchanged \in [tokens : SUBSET Nat, twice : BOOLEAN]
    /\ ~exchanged.twice
    /\ user.refresh # NoToken => user.refresh \notin exchanged.tokens

SessionType ==
    /\ user \in UserRow
    /\ jar \in [Devices -> Pair]
    /\ crossed \in BOOLEAN

SessionInv == SessionType /\ TabsFit /\ CodesFit /\ TokensFit /\ ForcedToLogInAgain
-----------------------------------------------------------------------------
\* What a function takes a finite set to is finite.
LEMMA FiniteRange ==
    ASSUME NEW S, IsFiniteSet(S), NEW R, NEW f \in [S -> R], \A r \in R : \E x \in S : f[x] = r
    PROVE  IsFiniteSet(R)
<1>1. f \in Surjection(S, R)
  BY DEF Surjection
<1> QED
  BY <1>1, FS_Surjection

\* The tokens someone holds are finitely many,
LEMMA InUseFinite == IsFiniteSet(InUse)
<1> DEFINE J == {jar[d].rt : d \in Devices}
           T == {tab[t].pair.rt : t \in Tabs}
           f == [d \in Devices |-> jar[d].rt]
           g == [t \in Tabs |-> tab[t].pair.rt]
<1>1. f \in [Devices -> J] /\ \A r \in J : \E d \in Devices : f[d] = r
  OBVIOUS
<1>2. g \in [Tabs -> T] /\ \A r \in T : \E t \in Tabs : g[t] = r
  OBVIOUS
<1>3. InUse = ({user.refresh} \union J) \union T
  BY DEF InUse
<1> HIDE DEF J, T, f, g
<1>4. IsFiniteSet(J) /\ IsFiniteSet(T)
  BY <1>1, <1>2, FiniteRange, SessionsAssumption
<1>5. IsFiniteSet({user.refresh} \union J)
  BY <1>4, FS_Singleton, FS_Union
<1> QED
  BY <1>3, <1>4, <1>5, FS_Union

\* so that there is always a new one.
LEMMA FreshIsNew == Fresh \in Nat \ {0} /\ Fresh \notin InUse
<1> DEFINE n == Cardinality(InUse)
           T == (1 .. n + 1) \ InUse
<1>1. IsFiniteSet(InUse) /\ n \in Nat
  BY InUseFinite, FS_CardinalityType
<1> HIDE DEF n
<1>2. T # {}
  <2>1. SUFFICES ASSUME T = {} PROVE FALSE
    OBVIOUS
  <2>2. (1 .. n + 1) \in SUBSET InUse
    BY <2>1
  <2>3. Cardinality(1 .. n + 1) <= n
    BY <1>1, <2>2, FS_Subset DEF n
  <2>4. Cardinality(1 .. n + 1) = n + 1
    BY <1>1, FS_Interval
  <2> QED
    BY <1>1, <2>3, <2>4
<1>3. T \subseteq Nat
  BY <1>1
<1>4. PICK k \in T : \A l \in T : ~(<<l, k>> \in OpToRel(<, Nat))
  BY <1>2, <1>3, NatLessThanWellFounded, WFMin
<1>5. ASSUME NEW m \in 1 .. k - 1, m \notin InUse
      PROVE  FALSE
  <2>1. m \in T /\ m \in Nat /\ k \in Nat /\ m < k
    BY <1>1, <1>3, <1>5
  <2>2. <<m, k>> \in OpToRel(<, Nat)
    BY <2>1 DEF OpToRel
  <2> QED
    BY <2>1, <2>2, <1>4
<1>6. \E j \in 1 .. n + 1 : j \notin InUse /\ \A m \in 1 .. j - 1 : m \in InUse
  BY <1>4, <1>5
<1>7. Fresh \in 1 .. n + 1 /\ Fresh \notin InUse
  BY <1>6 DEF Fresh, n
<1> QED
  BY <1>1, <1>7
-----------------------------------------------------------------------------
\* One tab moves on.
LEMMA TabMoves ==
    ASSUME TabsFit, NEW t \in Tabs, NEW q, tab' = [tab EXCEPT ![t] = q],
           TabFits(q, user.password, crossed), UNCHANGED crossed, user'.password = user.password
    PROVE  TabsFit'
<1>1. q \in TabState
  BY DEF TabFits
<1>2. tab' \in [Tabs -> TabState]
  BY <1>1 DEF TabsFit
<1>3. ASSUME NEW s \in Tabs PROVE TabFits(tab'[s], user.password, crossed)
  BY DEF TabsFit
<1> QED
  BY <1>2, <1>3 DEF TabsFit

\* No tab does.
LEMMA TabsStay ==
    ASSUME TabsFit, UNCHANGED <<tab, crossed>>, user'.password = user.password
    PROVE  TabsFit'
BY DEF TabsFit

\* No code changes.
LEMMA CodesStay ==
    ASSUME CodesFit, UNCHANGED <<codes, crossed>>, user'.password = user.password
    PROVE  CodesFit'
BY DEF CodesFit

\* The row of users and the history of its tokens stay.
LEMMA UserStays ==
    ASSUME SessionInv, UNCHANGED <<user, exchanged, crossed>>, jar' \in [Devices -> Pair]
    PROVE  SessionType' /\ TokensFit' /\ ForcedToLogInAgain'
BY DEF SessionInv, SessionType, TokensFit, ForcedToLogInAgain

\* A step of one tab that touches neither the row of users nor its codes.
LEMMA TabOnly ==
    ASSUME SessionInv, NEW t \in Tabs, NEW q, tab' = [tab EXCEPT ![t] = q],
           TabFits(q, user.password, crossed), UNCHANGED <<user, codes, exchanged, crossed>>,
           jar' \in [Devices -> Pair]
    PROVE  SessionInv'
<1>1. TabsFit /\ CodesFit /\ user'.password = user.password
  BY DEF SessionInv
<1>2. TabsFit'
  BY <1>1, TabMoves
<1>3. CodesFit'
  BY <1>1, CodesStay
<1> QED
  BY <1>2, <1>3, UserStays DEF SessionInv

\* A tab that has nothing under way.
LEMMA IdleFits ==
    ASSUME NEW d \in Devices, NEW page \in {"login", "app"}
    PROVE  TabFits(Idle(d, page), user.password, crossed)
<1>1. NoPair \in Pair
  BY DEF NoPair, Pair, NoAccess, NoToken
<1>2. Idle(d, page) \in TabState
  BY <1>1 DEF Idle, TabState, TabSteps, Purposes
<1>3. Idle(d, page).pc = "idle"
  BY DEF Idle
<1> QED
  BY <1>2, <1>3 DEF TabFits

\* A tab keeps its type.
LEMMA TabTyped ==
    ASSUME SessionInv, NEW t \in Tabs
    PROVE  /\ tab[t] \in TabState /\ tab[t].device \in Devices /\ tab[t].page \in {"login", "app"}
           /\ TabFits(tab[t], user.password, crossed)
           /\ tab[t].pair \in Pair /\ jar[tab[t].device] \in Pair
           /\ tab[t].pair.rt \in Nat
BY DEF SessionInv, SessionType, TabsFit, TabState, Pair

\* Only the position of a tab changes, to one that asks for nothing.
LEMMA PcMoves ==
    ASSUME SessionInv, NEW t \in Tabs, NEW to \in TabSteps \ {"consume"},
           tab' = [tab EXCEPT ![t].pc = to],
           to \in {"verify", "issue"} => tab[t].pc \in {"consume", "verify"} /\ tab[t].purpose # "password_reset",
           to \in {"refresh", "rotate"} => tab[t].pair.rt # NoToken,
           UNCHANGED crossed, user'.password = user.password
    PROVE  TabsFit'
<1> DEFINE q == [tab[t] EXCEPT !.pc = to]
<1>1. /\ tab[t] \in TabState /\ TabFits(tab[t], user.password, crossed)
  BY TabTyped
<1>2. /\ q.pc = to /\ q.purpose = tab[t].purpose /\ q.epoch = tab[t].epoch
      /\ q.pair = tab[t].pair /\ q \in TabState
  BY <1>1 DEF TabState
<1>3. tab' = [tab EXCEPT ![t] = q]
  OBVIOUS
<1> HIDE DEF q
<1>4. TabFits(q, user.password, crossed)
  BY <1>1, <1>2 DEF TabFits
<1> QED
  BY <1>3, <1>4, TabMoves DEF SessionInv

\* A new code is asked for under the present password.
LEMMA CreateOtpFits ==
    ASSUME SessionInv, NEW p \in Purposes, createOtp(p), user'.password = user.password,
           UNCHANGED crossed
    PROVE  CodesFit'
<1> DEFINE c == [epoch |-> user.password, consumed |-> FALSE, left |-> maxAttempts]
<1>1. codes' = [codes EXCEPT ![p] = Append(codes[p], c)]
  BY DEF createOtp
<1>2. c \in Code /\ c.epoch = user.password
  BY SessionsAssumption DEF SessionInv, SessionType, UserRow, Code
<1> HIDE DEF c
<1>3. codes \in [Purposes -> Seq(Code)]
  BY DEF SessionInv, CodesFit
<1>4. codes' \in [Purposes -> Seq(Code)]
  BY <1>1, <1>2, <1>3
<1>5. ASSUME NEW r \in Purposes, NEW i \in DOMAIN codes'[r]
      PROVE  CodeFits(codes'[r][i], r, user.password, crossed)
  <2>1. CASE r = p /\ i = Len(codes[p]) + 1
    <3>1. codes'[r][i] = c
      BY <1>1, <1>2, <1>3, <2>1
    <3> QED
      BY <1>2, <3>1 DEF CodeFits
  <2>2. CASE ~(r = p /\ i = Len(codes[p]) + 1)
    <3>1. i \in DOMAIN codes[r] /\ codes'[r][i] = codes[r][i]
      BY <1>1, <1>2, <1>3, <2>2
    <3> QED
      BY <3>1 DEF SessionInv, CodesFit
  <2> QED
    BY <2>1, <2>2
<1> QED
  BY <1>4, <1>5 DEF CodesFit

\* A code that is used up, expires or is tried in vain fits no worse than before.
LEMMA CodesWorn ==
    ASSUME SessionInv, codes' \in [Purposes -> Seq(Code)], user'.password = user.password,
           UNCHANGED crossed,
           \A p \in Purposes : \A i \in DOMAIN codes'[p] :
              /\ i \in DOMAIN codes[p]
              /\ \/ codes'[p][i] = codes[p][i]
                 \/ codes'[p][i].left = 0
                 \/ /\ codes'[p][i].epoch = codes[p][i].epoch
                    /\ codes'[p][i].consumed = codes[p][i].consumed
                    /\ codes[p][i].left > 0
    PROVE  CodesFit'
<1> SUFFICES ASSUME NEW p \in Purposes, NEW i \in DOMAIN codes'[p]
             PROVE  CodeFits(codes'[p][i], p, user.password, crossed)
  BY DEF CodesFit
<1>1. CodeFits(codes[p][i], p, user.password, crossed)
  BY DEF SessionInv, CodesFit
<1>2. codes'[p][i] \in Code
  OBVIOUS
<1> QED
  BY <1>1, <1>2 DEF CodeFits
-----------------------------------------------------------------------------
\* The account is registered, and its code may be lost on the way.
LEMMA RegisterInv ==
    ASSUME SessionInv, register
    PROVE  SessionInv'
<1>1. /\ user' = [user EXCEPT !.registered = TRUE] /\ UNCHANGED <<exchanged, jar, tab, crossed>>
      /\ createOtp("signup_verification") \/ UNCHANGED codes
  BY DEF register
<1>2. /\ user' \in UserRow /\ user'.password = user.password /\ user'.refresh = user.refresh
      /\ user'.epoch = user.epoch
  BY <1>1 DEF SessionInv, SessionType, UserRow
<1>3. TabsFit'
  BY <1>1, <1>2, TabsStay DEF SessionInv
<1>4. CodesFit'
  BY <1>1, <1>2, CreateOtpFits, CodesStay DEF SessionInv, Purposes
<1> QED
  BY <1>1, <1>2, <1>3, <1>4 DEF SessionInv, SessionType, TokensFit, ForcedToLogInAgain

\* A code that is asked for bears the password there is.
LEMMA AskInv ==
    ASSUME SessionInv, NEW p \in Purposes, createOtp(p),
           UNCHANGED <<user, exchanged, jar, tab, crossed>>
    PROVE  SessionInv'
<1>1. TabsFit'
  BY TabsStay DEF SessionInv
<1>2. CodesFit'
  BY CreateOtpFits
<1> QED
  BY <1>1, <1>2, UserStays DEF SessionInv, SessionType

\* Codes that are worn, used up or expired leave the rest alone,
LEMMA CodesWornInv ==
    ASSUME SessionInv, CodesFit', UNCHANGED <<user, exchanged, jar, tab, crossed>>
    PROVE  SessionInv'
<1>1. TabsFit'
  BY TabsStay DEF SessionInv
<1> QED
  BY <1>1, UserStays DEF SessionInv, SessionType

\* as ten minutes do to all codes of a purpose,
LEMMA CodesExpireInv ==
    ASSUME SessionInv, NEW p \in Purposes, codesExpire(p)
    PROVE  SessionInv'
<1> DEFINE worn == [i \in DOMAIN codes[p] |-> IF i \in Usable(p)
                                              THEN [codes[p][i] EXCEPT !.left = 0] ELSE codes[p][i]]
<1>1. codes' = [codes EXCEPT ![p] = worn] /\ UNCHANGED <<user, exchanged, jar, tab, crossed>>
  BY DEF codesExpire
<1>2. codes \in [Purposes -> Seq(Code)]
  BY DEF SessionInv, CodesFit
<1>3. ASSUME NEW i \in DOMAIN codes[p] PROVE worn[i] \in Code /\ (worn[i] = codes[p][i] \/ worn[i].left = 0)
  <2>1. codes[p][i] \in Code
    BY <1>2
  <2> QED
    BY <2>1 DEF Code
<1>4. worn \in Seq(Code) /\ DOMAIN worn = DOMAIN codes[p]
  <2>1. DOMAIN codes[p] = 1 .. Len(codes[p]) /\ Len(codes[p]) \in Nat
    BY <1>2
  <2>2. worn \in [1 .. Len(codes[p]) -> Code]
    BY <1>3, <2>1
  <2> QED
    BY <2>1, <2>2
<1> HIDE DEF worn
<1>5. codes' \in [Purposes -> Seq(Code)]
  BY <1>1, <1>2, <1>4
<1>6. CodesFit'
  BY <1>1, <1>2, <1>3, <1>4, <1>5, CodesWorn
<1> QED
  BY <1>1, <1>6, CodesWornInv

\* The two outcomes of a code that is typed in: it is right and the tab remembers when it
\* was asked for, or one of its tries is gone.
LEMMA VerifyOtpInv ==
    ASSUME SessionInv, NEW t \in Tabs, NEW p \in Purposes, verifyOtp(t, p)
    PROVE  SessionInv'
<1> DEFINE i == CHOOSE j \in Unconsumed(p) : \A k \in Unconsumed(p) : k <= j
           q == [tab[t] EXCEPT !.pc = "consume", !.purpose = p, !.otp = i,
                               !.epoch = codes[p][i].epoch, !.version = user.tokenVersion]
<1>1. /\ i \in Usable(p) /\ UNCHANGED <<user, exchanged, jar, crossed>>
      /\ \/ tab' = [tab EXCEPT ![t] = q] /\ UNCHANGED codes
         \/ codes' = [codes EXCEPT ![p][i].left = @ - 1] /\ UNCHANGED tab
  BY DEF verifyOtp
<1> HIDE DEF i
<1>2. codes \in [Purposes -> Seq(Code)]
  BY DEF SessionInv, CodesFit
<1>3. /\ i \in DOMAIN codes[p] /\ i \in Nat /\ codes[p][i] \in Code
      /\ ~codes[p][i].consumed /\ codes[p][i].left > 0
      /\ CodeFits(codes[p][i], p, user.password, crossed)
  BY <1>1, <1>2 DEF Usable, Unconsumed, SessionInv, CodesFit
<1>4. CASE tab' = [tab EXCEPT ![t] = q] /\ UNCHANGED codes
  <2>1. codes[p][i].epoch \in Nat /\ user.tokenVersion \in Nat
    BY <1>3 DEF Code, SessionInv, SessionType, UserRow
  <2>2. /\ q \in TabState /\ q.pc = "consume" /\ q.purpose = p /\ q.epoch = codes[p][i].epoch
    BY <1>3, <2>1, TabTyped DEF TabState, TabSteps
  <2> HIDE DEF q
  <2>3. TabFits(q, user.password, crossed)
    BY <1>3, <2>2 DEF TabFits, CodeFits
  <2> QED
    BY <1>1, <1>4, <2>3, TabOnly DEF SessionInv, SessionType
<1>5. CASE codes' = [codes EXCEPT ![p][i].left = @ - 1] /\ UNCHANGED tab
  <2> DEFINE c == [codes[p][i] EXCEPT !.left = @ - 1]
  <2>1. /\ c \in Code /\ c.epoch = codes[p][i].epoch /\ c.consumed = codes[p][i].consumed
    BY <1>3 DEF Code
  <2>2. codes' = [codes EXCEPT ![p] = [codes[p] EXCEPT ![i] = c]]
    BY <1>5
  <2> HIDE DEF c
  <2>3. codes' \in [Purposes -> Seq(Code)]
    BY <1>2, <1>3, <2>1, <2>2
  <2>4. ASSUME NEW r \in Purposes, NEW k \in DOMAIN codes'[r]
        PROVE  /\ k \in DOMAIN codes[r]
               /\ codes'[r][k] = codes[r][k] \/ (r = p /\ k = i /\ codes'[r][k] = c)
    BY <1>2, <1>3, <2>1, <2>2
  <2>5. CodesFit'
    BY <1>1, <1>3, <2>1, <2>3, <2>4, CodesWorn
  <2> QED
    BY <1>1, <1>5, <2>5, CodesWornInv
<1> QED
  BY <1>1, <1>4, <1>5

\* A code is used up; what follows depends on what it was for.
LEMMA ConsumeInv ==
    ASSUME SessionInv, NEW t \in Tabs, consume(t)
    PROVE  SessionInv'
<1> DEFINE p == tab[t].purpose
           i == tab[t].otp
           spent == [epoch |-> 0, consumed |-> TRUE, left |-> 0]
           next == CASE p = "password_reset" -> "reset"
                     [] p = "login" -> "issue"
                     [] OTHER -> "verify"
<1>1. /\ tab[t].pc = "consume" /\ UNCHANGED <<user, exchanged, jar, crossed>>
      /\ codes' = [codes EXCEPT ![p] = [codes[p] EXCEPT ![i] = spent]]
      /\ tab' = [tab EXCEPT ![t].pc = next]
  BY DEF consume, At, Proceed
<1>2. codes \in [Purposes -> Seq(Code)] /\ p \in Purposes
  BY TabTyped DEF SessionInv, CodesFit, TabState
<1>3. next \in TabSteps \ {"consume", "refresh", "rotate"} /\ (next # "reset" => p # "password_reset")
  <2>1. CASE p = "password_reset"
    BY <2>1 DEF TabSteps
  <2>2. CASE p = "login"
    BY <2>2 DEF TabSteps
  <2>3. CASE p # "password_reset" /\ p # "login"
    BY <2>3 DEF TabSteps
  <2> QED
    BY <2>1, <2>2, <2>3
<1>4. spent \in Code /\ spent.left = 0
  BY DEF Code
<1>5. TabsFit'
  <2> HIDE DEF next
  <2> QED
    BY <1>1, <1>3, PcMoves
<1> HIDE DEF p, i, spent
<1>6. codes' \in [Purposes -> Seq(Code)]
  <2>1. codes[p] \in Seq(Code) /\ Len(codes[p]) \in Nat /\ codes[p] \in [1 .. Len(codes[p]) -> Code]
    BY <1>2
  <2>2. [codes[p] EXCEPT ![i] = spent] \in [1 .. Len(codes[p]) -> Code]
    BY <1>4, <2>1
  <2>3. [codes[p] EXCEPT ![i] = spent] \in Seq(Code)
    BY <2>1, <2>2
  <2> QED
    BY <1>1, <1>2, <2>3
<1>7. ASSUME NEW r \in Purposes, NEW k \in DOMAIN codes'[r]
      PROVE  k \in DOMAIN codes[r] /\ (codes'[r][k] = codes[r][k] \/ codes'[r][k] = spent)
  BY <1>1, <1>2, <1>4
<1>8. CodesFit'
  BY <1>1, <1>4, <1>6, <1>7, CodesWorn
<1> QED
  BY <1>1, <1>5, <1>8, UserStays DEF SessionInv, SessionType

\* Fields of the row that none of the invariants is about.
LEMMA RowTouched ==
    ASSUME SessionInv, user' \in UserRow, user'.password = user.password,
           \/ user'.refresh = NoToken
           \/ user'.refresh = user.refresh /\ user'.epoch = user.epoch,
           jar' \in [Devices -> Pair], UNCHANGED <<exchanged, crossed>>
    PROVE  SessionType' /\ TokensFit' /\ ForcedToLogInAgain'
BY DEF SessionInv, SessionType, TokensFit, ForcedToLogInAgain

\* The verified address changes nothing else.
LEMMA MarkVerifiedInv ==
    ASSUME SessionInv, NEW t \in Tabs, markVerified(t)
    PROVE  SessionInv'
<1>1. /\ tab[t].pc = "verify" /\ UNCHANGED <<codes, exchanged, jar, crossed>>
      /\ user' = [user EXCEPT !.verified = TRUE]
      /\ tab' = [tab EXCEPT ![t].pc = "issue"]
  BY DEF markVerified, At, Proceed
<1>2. /\ user' \in UserRow /\ user'.password = user.password /\ user'.refresh = user.refresh
      /\ user'.epoch = user.epoch
  BY <1>1 DEF SessionInv, SessionType, UserRow
<1>3. tab[t].purpose # "password_reset"
  BY <1>1, TabTyped DEF TabFits
<1>4. TabsFit'
  BY <1>1, <1>2, <1>3, PcMoves DEF TabSteps
<1>5. CodesFit'
  BY <1>1, <1>2, CodesStay DEF SessionInv
<1> QED
  BY <1>1, <1>2, <1>4, <1>5, RowTouched DEF SessionInv, SessionType

\* A session that is ended leaves no token on file.
LEMMA RevokedRow ==
    ASSUME SessionInv
    PROVE  /\ revoked(user) \in UserRow /\ revoked(user).refresh = NoToken
           /\ revoked(user).password = user.password
<1>1. user \in UserRow
  BY DEF SessionInv, SessionType
<1> DEFINE v == user.tokenVersion + 1
<1>2. v \in Nat
  BY <1>1 DEF UserRow
<1>3. revoked(user) = [user EXCEPT !.refresh = 0, !.expired = FALSE, !.epoch = 0, !.tokenVersion = v]
  BY DEF revoked, NoToken
<1> HIDE DEF v
<1>4. revoked(user) \in UserRow
  <2> DEFINE w == [user EXCEPT !.refresh = 0, !.expired = FALSE]
  <2>1. w \in UserRow
    BY <1>1 DEF UserRow
  <2>2. revoked(user) = [w EXCEPT !.epoch = 0, !.tokenVersion = v]
    BY <1>3
  <2> HIDE DEF w
  <2>3. [w EXCEPT !.epoch = 0, !.tokenVersion = v] \in UserRow
    BY <1>2, <2>1 DEF UserRow
  <2> QED
    BY <2>2, <2>3
<1>5. revoked(user).refresh = 0 /\ revoked(user).password = user.password
  BY <1>1, <1>3 DEF UserRow
<1> QED
  BY <1>4, <1>5 DEF NoToken

\* A reset: whatever was begun under the old password and is still under way is noted.
LEMMA ResetPasswordInv ==
    ASSUME SessionInv, NEW t \in Tabs, resetPassword(t)
    PROVE  SessionInv'
<1> DEFINE q == Idle(tab[t].device, "login")
<1>1. /\ tab[t].pc = "reset" /\ UNCHANGED <<codes, exchanged, jar>>
      /\ user' = [revoked(user) EXCEPT !.password = @ + 1]
      /\ crossed' = (crossed \/ Signing # {}
                       \/ \E p \in Purposes \ {"password_reset"} : Usable(p) # {})
      /\ tab' = [tab EXCEPT ![t] = q]
  BY DEF resetPassword, At, Page
<1>2. user' \in UserRow /\ user'.refresh = NoToken
  BY <1>1, RevokedRow DEF UserRow
<1>3. crossed' \in BOOLEAN
  BY <1>1
<1>4. /\ q \in TabState /\ q.pc = "idle"
  BY TabTyped, IdleFits DEF TabFits, Idle
<1> HIDE DEF q
<1>5. tab \in [Tabs -> TabState] /\ codes \in [Purposes -> Seq(Code)]
  BY DEF SessionInv, TabsFit, CodesFit
<1>6. TabsFit'
  <2>1. tab' \in [Tabs -> TabState]
    BY <1>1, <1>4, <1>5
  <2>2. ASSUME NEW s \in Tabs PROVE TabFits(tab'[s], user'.password, crossed')
    <3>1. CASE s = t
      BY <1>1, <1>4, <1>5, <3>1 DEF TabFits
    <3>2. CASE s # t
      <4>1. tab'[s] = tab[s]
        BY <1>1, <1>5, <3>2
      <4>2. TabFits(tab[s], user.password, crossed)
        BY TabTyped
      <4>3. tab[s].pc \in {"consume", "verify", "issue"} /\ tab[s].purpose # "password_reset"
              => crossed'
        BY <1>1 DEF Signing
      <4> QED
        BY <4>1, <4>2, <4>3 DEF TabFits
    <3> QED
      BY <3>1, <3>2
  <2> QED
    BY <2>1, <2>2 DEF TabsFit
<1>7. CodesFit'
  <2>1. ASSUME NEW p \in Purposes, NEW i \in DOMAIN codes[p]
        PROVE  CodeFits(codes[p][i], p, user'.password, crossed')
    <3>1. CodeFits(codes[p][i], p, user.password, crossed)
      BY DEF SessionInv, CodesFit
    <3>2. p # "password_reset" /\ ~codes[p][i].consumed /\ codes[p][i].left > 0 => crossed'
      BY <1>1 DEF Usable, Unconsumed
    <3> QED
      BY <3>1, <3>2 DEF CodeFits
  <2> QED
    BY <1>1, <1>5, <2>1 DEF CodesFit
<1> QED
  BY <1>1, <1>2, <1>3, <1>6, <1>7 DEF SessionInv, SessionType, TokensFit, ForcedToLogInAgain

\* A login or a sign-up gets a token nobody holds, under the password of its code.
LEMMA IssueTokenPairInv ==
    ASSUME SessionInv, NEW t \in Tabs, issueTokenPair(t)
    PROVE  SessionInv'
<1> DEFINE tokens == (exchanged.tokens \intersect InUse) \ {Fresh}
           pair == [at |-> tab[t].version, rt |-> Fresh]
           q == [Idle(tab[t].device, tab[t].page) EXCEPT !.pc = "signed in", !.pair = pair]
<1>1. /\ tab[t].pc = "issue" /\ UNCHANGED <<codes, jar, crossed>>
      /\ exchanged' = [exchanged EXCEPT !.tokens = tokens]
      /\ user' = [user EXCEPT !.refresh = Fresh, !.expired = FALSE, !.epoch = tab[t].epoch]
      /\ tab' = [tab EXCEPT ![t] = q]
  BY DEF issueTokenPair, At
<1>2. /\ Fresh \in Nat /\ Fresh \notin tokens /\ tokens \subseteq Nat
  BY FreshIsNew DEF SessionInv, TokensFit
<1>3. /\ tab[t].epoch \in Nat /\ tab[t].version \in Nat
      /\ crossed \/ tab[t].epoch = user.password
  BY <1>1, TabTyped DEF TabState, TabFits
<1>4. pair \in Pair
  BY <1>2, <1>3 DEF Pair
<1>5. Idle(tab[t].device, tab[t].page) \in TabState
  BY TabTyped, IdleFits DEF TabFits
<1> HIDE DEF pair, tokens
<1>6. q \in TabState /\ q.pc = "signed in"
  <2> DEFINE idle == Idle(tab[t].device, tab[t].page)
  <2>1. q = [idle EXCEPT !.pc = "signed in", !.pair = pair]
    OBVIOUS
  <2> HIDE DEF idle, q
  <2>2. idle \in TabState
    BY <1>5 DEF idle
  <2> QED
    BY <1>4, <2>1, <2>2 DEF TabState, TabSteps
<1> HIDE DEF q
<1>7. /\ user' \in UserRow /\ user'.password = user.password /\ user'.refresh = Fresh
      /\ user'.epoch = tab[t].epoch
  <2> DEFINE n == Fresh
             e == tab[t].epoch
  <2>1. user' = [user EXCEPT !.refresh = n, !.expired = FALSE, !.epoch = e]
    BY <1>1
  <2>2. n \in Nat /\ e \in Nat /\ user \in UserRow
    BY <1>2, <1>3 DEF SessionInv, SessionType
  <2> HIDE DEF n, e
  <2>3. user' \in UserRow
    BY <2>1, <2>2 DEF UserRow
  <2>4. user'.password = user.password /\ user'.refresh = n /\ user'.epoch = e
    BY <2>1, <2>2 DEF UserRow
  <2> QED
    BY <2>3, <2>4 DEF n, e
<1>8. /\ exchanged' \in [tokens : SUBSET Nat, twice : BOOLEAN]
      /\ exchanged'.tokens = tokens /\ exchanged'.twice = exchanged.twice
  BY <1>1, <1>2 DEF SessionInv, TokensFit
<1>9. TabsFit'
  BY <1>1, <1>6, <1>7, TabMoves DEF SessionInv, TabFits
<1>10. CodesFit'
  BY <1>1, <1>7, CodesStay DEF SessionInv
<1>11. SessionType'
  BY <1>1, <1>7 DEF SessionInv, SessionType
<1>12. TokensFit' /\ ForcedToLogInAgain'
  BY <1>1, <1>2, <1>3, <1>7, <1>8 DEF SessionInv, TokensFit, ForcedToLogInAgain
<1> QED
  BY <1>9, <1>10, <1>11, <1>12 DEF SessionInv

\* The route sends the cookies of the tab's browser on,
LEMMA ForwardInv ==
    ASSUME SessionInv, NEW t \in Tabs, forward(t)
    PROVE  SessionInv'
<1> DEFINE cookies == jar[tab[t].device]
           q == [tab[t] EXCEPT !.pc = "sent", !.pair = cookies]
<1>1. tab' = [tab EXCEPT ![t] = q] /\ UNCHANGED <<user, codes, exchanged, jar, crossed>>
  BY DEF forward, Jar
<1>2. cookies \in Pair /\ tab[t] \in TabState
  BY TabTyped
<1> HIDE DEF cookies
<1>3. q \in TabState /\ q.pc = "sent"
  BY <1>2 DEF TabState, TabSteps
<1> HIDE DEF q
<1> QED
  BY <1>1, <1>3, TabOnly DEF TabFits, SessionInv, SessionType

\* asks for new ones only if there is a refresh token among them,
LEMMA AuthenticateInv ==
    ASSUME SessionInv, NEW t \in Tabs, authenticate(t)
    PROVE  SessionInv'
<1> DEFINE rt   == tab[t].pair.rt
           to == IF rt = NoToken THEN "refused" ELSE "refresh"
           q    == [tab[t] EXCEPT !.pair.at = NoAccess, !.pc = to]
<1>1. /\ UNCHANGED <<user, codes, exchanged, jar, crossed>>
      /\ \/ tab' = [tab EXCEPT ![t] = Idle(tab[t].device, "app")]
         \/ tab' = [tab EXCEPT ![t] = q]
  BY DEF authenticate, At
<1>2. CASE tab' = [tab EXCEPT ![t] = Idle(tab[t].device, "app")]
  BY <1>1, <1>2, TabTyped, IdleFits, TabOnly DEF SessionInv, SessionType
<1>3. CASE tab' = [tab EXCEPT ![t] = q]
  <2> DEFINE pair == [tab[t].pair EXCEPT !.at = NoAccess]
  <2>1. tab[t] \in TabState /\ tab[t].pair \in Pair
    BY TabTyped
  <2>2. pair \in Pair /\ pair.rt = rt
    BY <2>1 DEF Pair, NoAccess
  <2>3. q = [tab[t] EXCEPT !.pair = pair, !.pc = to]
    BY <2>1 DEF TabState
  <2>4. to \in TabSteps /\ (to = "refresh" => rt # NoToken) /\ to \in {"refused", "refresh"}
    BY DEF TabSteps
  <2> HIDE DEF q, pair, to, rt
  <2>5. q \in TabState /\ q.pc = to /\ q.pair = pair
    BY <2>1, <2>2, <2>3, <2>4 DEF TabState
  <2>6. TabFits(q, user.password, crossed)
    BY <2>2, <2>4, <2>5 DEF TabFits
  <2> QED
    BY <1>1, <1>3, <2>6, TabOnly DEF SessionInv, SessionType
<1> QED
  BY <1>1, <1>2, <1>3

\* and a refresh goes on to the rotation only with a token.
LEMMA RefreshInv ==
    ASSUME SessionInv, NEW t \in Tabs, refresh(t)
    PROVE  SessionInv'
<1> DEFINE to == IF user.refresh = NoToken \/ user.expired THEN "refused" ELSE "rotate"
<1>1. /\ tab[t].pc = "refresh" /\ UNCHANGED <<user, codes, exchanged, jar, crossed>>
      /\ tab' = [tab EXCEPT ![t].pc = to]
  BY DEF refresh, At, Proceed
<1>2. to \in {"refused", "rotate"}
  OBVIOUS
<1> HIDE DEF to
<1>3. tab[t].pair.rt # NoToken
  BY <1>1, TabTyped DEF TabFits
<1>4. TabsFit'
  BY <1>1, <1>2, <1>3, PcMoves DEF TabSteps
<1>5. CodesFit'
  BY <1>1, CodesStay DEF SessionInv
<1> QED
  BY <1>1, <1>4, <1>5, UserStays DEF SessionInv, SessionType

\* The conditional UPDATE finds the token of the tab on file: it is rotated for the first
\* time, and the one on file now is none that anybody holds.
LEMMA RotateInv ==
    ASSUME SessionInv, NEW t \in Tabs, rotate(t)
    PROVE  SessionInv'
<1> DEFINE rt == tab[t].pair.rt
           tokens == (exchanged.tokens \intersect InUse) \union {rt}
           pair == [at |-> user.tokenVersion, rt |-> Fresh]
           q == [tab[t] EXCEPT !.pc = "rotated", !.pair = pair]
<1>1. /\ tab[t].pc = "rotate" /\ UNCHANGED <<codes, jar, crossed>>
      /\ \/ user.refresh = rt /\ Rotated(t)
         \/ tab' = [tab EXCEPT ![t].pc = "revoke"] /\ UNCHANGED <<user, exchanged>>
  BY DEF rotate, At, Proceed
<1>2. CASE tab' = [tab EXCEPT ![t].pc = "revoke"] /\ UNCHANGED <<user, exchanged>>
  <2>1. TabsFit'
    BY <1>1, <1>2, PcMoves DEF TabSteps
  <2>2. CodesFit'
    BY <1>1, <1>2, CodesStay DEF SessionInv
  <2> QED
    BY <1>1, <1>2, <2>1, <2>2, UserStays DEF SessionInv, SessionType
<1>3. CASE user.refresh = rt /\ Rotated(t)
  <2>1. /\ exchanged' = [tokens |-> tokens, twice |-> exchanged.twice \/ rt \in exchanged.tokens]
        /\ user' = [user EXCEPT !.refresh = Fresh, !.expired = FALSE]
        /\ tab' = [tab EXCEPT ![t] = q]
    BY <1>3 DEF Rotated
  <2>2. rt # NoToken /\ rt \in Nat /\ tab[t] \in TabState
    BY <1>1, TabTyped DEF TabFits
  <2>3. rt \notin exchanged.tokens /\ ~exchanged.twice
    BY <1>3, <2>2 DEF SessionInv, TokensFit
  <2>4. Fresh \in Nat /\ Fresh \notin tokens /\ tokens \subseteq Nat
    BY <2>2, FreshIsNew DEF SessionInv, TokensFit, InUse
  <2>5. pair \in Pair
    BY <2>4 DEF Pair, SessionInv, SessionType, UserRow
  <2>6. /\ exchanged' \in [tokens : SUBSET Nat, twice : BOOLEAN] /\ ~exchanged'.twice
        /\ exchanged'.tokens = tokens
    BY <2>1, <2>3, <2>4
  <2> HIDE DEF tokens, pair
  <2>7. q \in TabState /\ q.pc = "rotated"
    BY <2>2, <2>5 DEF TabState, TabSteps
  <2> HIDE DEF q
  <2>8. /\ user' \in UserRow /\ user'.password = user.password /\ user'.refresh = Fresh
        /\ user'.epoch = user.epoch
    <3> DEFINE n == Fresh
    <3>1. user' = [user EXCEPT !.refresh = n, !.expired = FALSE]
      BY <2>1
    <3>2. n \in Nat /\ user \in UserRow
      BY <2>4 DEF SessionInv, SessionType
    <3> HIDE DEF n
    <3>3. user' \in UserRow
      BY <3>1, <3>2 DEF UserRow
    <3>4. user'.password = user.password /\ user'.refresh = n /\ user'.epoch = user.epoch
      BY <3>1, <3>2 DEF UserRow
    <3> QED
      BY <3>3, <3>4 DEF n
  <2>9. TabsFit'
    BY <1>1, <2>1, <2>7, <2>8, TabMoves DEF SessionInv, TabFits
  <2>10. CodesFit'
    BY <1>1, <2>8, CodesStay DEF SessionInv
  <2>11. SessionType'
    BY <1>1, <2>8 DEF SessionInv, SessionType
  <2>12. TokensFit' /\ ForcedToLogInAgain'
    BY <1>1, <1>3, <2>2, <2>4, <2>6, <2>8 DEF SessionInv, TokensFit, ForcedToLogInAgain
  <2> QED
    BY <2>9, <2>10, <2>11, <2>12 DEF SessionInv
<1> QED
  BY <1>1, <1>2, <1>3

\* A session is ended by reuse of a token or by logout.
LEMMA EndedInv ==
    ASSUME SessionInv, NEW t \in Tabs, tab' = [tab EXCEPT ![t].pc = "refused"],
           user' = user \/ user' = revoked(user), UNCHANGED <<codes, exchanged, jar, crossed>>
    PROVE  SessionInv'
<1>1. /\ user' \in UserRow /\ user'.password = user.password
      /\ \/ user'.refresh = NoToken
         \/ user'.refresh = user.refresh /\ user'.epoch = user.epoch
  BY RevokedRow DEF SessionInv, SessionType
<1>2. TabsFit'
  BY <1>1, PcMoves DEF TabSteps
<1>3. CodesFit'
  BY <1>1, CodesStay DEF SessionInv
<1> QED
  BY <1>1, <1>2, <1>3, RowTouched DEF SessionInv, SessionType

\* The answers and the pages: cookies change, and a tab ends its request.
LEMMA AnswerInv ==
    ASSUME SessionInv, NEW t \in Tabs, NEW page \in {"login", "app"}, Page(t, page),
           jar' \in [Devices -> Pair], UNCHANGED <<user, codes, exchanged, crossed>>
    PROVE  SessionInv'
<1>1. tab' = [tab EXCEPT ![t] = Idle(tab[t].device, page)]
  BY DEF Page
<1>2. TabFits(Idle(tab[t].device, page), user.password, crossed)
  BY TabTyped, IdleFits
<1> QED
  BY <1>1, <1>2, TabOnly

\* What the pages do with an answer, or without one.
LEMMA PagesInv ==
    ASSUME SessionInv, NEW t \in Tabs, answer(t) \/ loseAnswer(t) \/ proxy(t)
    PROVE  SessionInv'
<1>1. /\ jar \in [Devices -> Pair] /\ tab[t].device \in Devices /\ tab[t].pair \in Pair
      /\ tab[t].page \in {"login", "app"} /\ NoPair \in Pair
  BY TabTyped DEF SessionInv, SessionType, NoPair, Pair, NoAccess, NoToken
<1>2. \A j : Landing(tab[t].device, j) \in {"login", "app"}
  BY DEF Landing
<1>3. CASE setSessionCookies(t)
  <2>1. jar' \in [Devices -> Pair]
    BY <1>1, <1>3 DEF setSessionCookies
  <2> QED
    BY <1>2, <1>3, <2>1, AnswerInv DEF setSessionCookies
<1>4. CASE clearSessionCookies(t)
  <2>1. jar' \in [Devices -> Pair]
    BY <1>1, <1>4 DEF clearSessionCookies
  <2> QED
    BY <1>2, <1>4, <2>1, AnswerInv DEF clearSessionCookies
<1>5. CASE loseAnswer(t)
  BY <1>1, <1>5, AnswerInv DEF loseAnswer
<1>6. CASE proxy(t)
  BY <1>1, <1>2, <1>6, AnswerInv DEF proxy
<1> QED
  BY <1>3, <1>4, <1>5, <1>6 DEF answer

\* Time: a cookie ends, or the token on file and the cookies that hold it.
LEMMA ExpiryInv ==
    ASSUME SessionInv, refreshExpires \/ \E d \in Devices : accessExpires(d)
    PROVE  SessionInv'
<1>1. /\ user' \in UserRow /\ user'.password = user.password /\ user'.refresh = user.refresh
      /\ user'.epoch = user.epoch /\ UNCHANGED <<codes, exchanged, tab, crossed>>
  BY DEF refreshExpires, accessExpires, SessionInv, SessionType, UserRow
<1>2. jar \in [Devices -> Pair] /\ NoPair \in Pair
  BY DEF SessionInv, SessionType, NoPair, Pair, NoAccess, NoToken
<1>3. jar' \in [Devices -> Pair]
  <2>1. CASE refreshExpires
    BY <1>2, <2>1 DEF refreshExpires
  <2>2. ASSUME NEW d \in Devices, accessExpires(d) PROVE jar' \in [Devices -> Pair]
    <3>1. jar' = [jar EXCEPT ![d] = [jar[d] EXCEPT !.at = NoAccess]]
      BY <2>2 DEF accessExpires
    <3>2. jar[d] \in Pair
      BY <1>2
    <3>3. [jar[d] EXCEPT !.at = NoAccess] \in Pair
      BY <3>2 DEF Pair, NoAccess
    <3> QED
      BY <1>2, <3>1, <3>3
  <2> QED
    BY <2>1, <2>2
<1>4. TabsFit'
  BY <1>1, TabsStay DEF SessionInv
<1>5. CodesFit'
  BY <1>1, CodesStay DEF SessionInv
<1> QED
  BY <1>1, <1>3, <1>4, <1>5, RowTouched DEF SessionInv, SessionType
-----------------------------------------------------------------------------
\* Every step keeps the invariant,
LEMMA SessionNextInv == SessionInv /\ [SessionNext]_sessionVars => SessionInv'
<1> SUFFICES ASSUME SessionInv, [SessionNext]_sessionVars PROVE SessionInv'
  OBVIOUS
<1>1. CASE SignupForm
  BY <1>1, RegisterInv DEF SignupForm
<1>2. CASE LoginForm \/ ForgotPasswordForm
  BY <1>2, AskInv DEF LoginForm, ForgotPasswordForm, login, resendOtp, Purposes
<1>3. ASSUME NEW p \in Purposes, codesExpire(p) PROVE SessionInv'
  BY <1>3, CodesExpireInv
<1>4. ASSUME NEW t \in Tabs, OtpVerifyForm(t) \/ ResetPasswordForm(t) PROVE SessionInv'
  <2>1. \E p \in Purposes : verifyOtp(t, p) \/ resendOtp(p)
    BY <1>4 DEF OtpVerifyForm, ResetPasswordForm, Purposes
  <2> QED
    BY <2>1, VerifyOtpInv, AskInv DEF resendOtp
<1>5. ASSUME NEW t \in Tabs, backend(t) PROVE SessionInv'
  <2>1. CASE consume(t) \/ markVerified(t) \/ resetPassword(t)
    BY <2>1, ConsumeInv, MarkVerifiedInv, ResetPasswordInv
  <2>2. CASE issueTokenPair(t) \/ authenticate(t) \/ refresh(t) \/ rotate(t)
    BY <2>2, IssueTokenPairInv, AuthenticateInv, RefreshInv, RotateInv
  <2>3. CASE revoke(t)
    BY <2>3, EndedInv DEF revoke, Proceed
  <2> QED
    BY <1>5, <2>1, <2>2, <2>3 DEF backend
<1>6. ASSUME NEW t \in Tabs, answer(t) \/ loseAnswer(t) \/ proxy(t) PROVE SessionInv'
  BY <1>6, PagesInv
<1>7. ASSUME NEW t \in Tabs, forward(t) PROVE SessionInv'
  BY <1>7, ForwardInv
<1>8. ASSUME NEW t \in Tabs, logout(t) PROVE SessionInv'
  BY <1>8, EndedInv DEF logout, Proceed
<1>9. CASE refreshExpires \/ \E d \in Devices : accessExpires(d)
  BY <1>9, ExpiryInv
<1>10. CASE UNCHANGED sessionVars
  BY <1>10 DEF sessionVars, SessionInv, SessionType, TabsFit, CodesFit, TokensFit,
               ForcedToLogInAgain
<1> QED
  BY <1>1, <1>2, <1>3, <1>4, <1>5, <1>6, <1>7, <1>8, <1>9, <1>10 DEF SessionNext

\* which holds at first,
LEMMA SessionInitInv == SessionInit => SessionInv
<1> SUFFICES ASSUME SessionInit PROVE SessionInv
  OBVIOUS
<1>1. NoPair \in Pair
  BY DEF NoPair, Pair, NoAccess, NoToken
<1>2. user \in UserRow /\ user.refresh = NoToken
  BY DEF SessionInit, UserRow, NoToken
<1>3. SessionType
  BY <1>1, <1>2 DEF SessionInit, SessionType
<1>4. PICK device \in Openings : tab = [t \in Tabs |-> Idle(device[t], "login")]
  BY DEF SessionInit
<1>5. \A t \in Tabs : device[t] \in Devices
  BY SessionsAssumption
<1>6. \A t \in Tabs : TabFits(tab[t], user.password, crossed)
  BY <1>4, <1>5, IdleFits
<1>7. TabsFit
  BY <1>4, <1>6 DEF TabsFit, TabFits
<1>8. CodesFit
  BY DEF SessionInit, CodesFit
<1>9. TokensFit /\ ForcedToLogInAgain
  BY <1>2 DEF SessionInit, TokensFit, ForcedToLogInAgain
<1> QED
  BY <1>3, <1>7, <1>8, <1>9 DEF SessionInv

\* and so at any time.
LEMMA SessionInvariance == SessionSpec => []SessionInv
BY SessionInitInv, SessionNextInv, PTL DEF SessionSpec

\* AuthService.refresh gives out one pair for a refresh token, with any number of tabs and
\* devices that refresh at once and any answers lost: the conditional update of the row lets
\* one of them through.
THEOREM RotatedOnce == SessionSpec => []OnePairPerRotation
<1>1. SessionInv => OnePairPerRotation
  BY DEF SessionInv, TokensFit, OnePairPerRotation
<1> QED
  BY <1>1, SessionInvariance, PTL

\* After a password reset (AuthService.resetPassword) no session on file began under an older
\* password, unless a login was under way when it came.
THEOREM ResetForcesLogin == SessionSpec => []ForcedToLogInAgain
<1>1. SessionInv => ForcedToLogInAgain
  BY DEF SessionInv
<1> QED
  BY <1>1, SessionInvariance, PTL
-----------------------------------------------------------------------------
(* PotWizard *)

Day    == Dates \union {None}
Name   == Destinations \union {None}
Amount == [tenths : Nat, point : BOOLEAN, blank : BOOLEAN]
Slot   == [d : Destinations, name : Name]
Leg    == [d : Destinations, name : Name, seq : Nat, amount : Amount, date : Day]
Form   == [titled : BOOLEAN, min : Amount, mode : Modes \union {None}, dest : [Singles -> Slot],
           date : [Singles -> Day], amount : [Singles -> Amount], interval : Nat,
           ordered : BOOLEAN, legs : Seq(Leg)]
Card   == [at : Destinations, confirmed : Accounts \union {None}, looking : BOOLEAN,
           landed : Accounts \union {None, "error"}]

\* The name of a single destination is there only if a lookup of just that account, or the
\* stored draft, has brought it; the name of a leg may also be one that was kept.
SlotNamed(slot, known) == slot.name = None \/ (slot.name = slot.d /\ slot.d \in known)
LegNamed(leg, known, old) == leg.name \in old \union {None} \/ (leg.name = leg.d /\ leg.d \in known)

\* A lookup answers for the destination its card shows, and confirms only what it was
\* told.
CardTrue(card, known) ==
    /\ card \in Card
    /\ card.looking => card.at \in Accounts
    /\ card.landed \in {None, "error"} \/ (card.landed = card.at /\ card.landed \in known)
    /\ card.confirmed = None \/ card.confirmed \in known

FormFits(f, known, old) ==
    /\ f \in Form
    /\ Numbered(f.legs)
    /\ \A m \in Singles : SlotNamed(f.dest[m], known)
    /\ \A i \in DOMAIN f.legs : LegNamed(f.legs[i], known, old)

\* A card shows its slot.  That of a single destination has the name the card has; a leg
\* whose card has none has none itself, or one that was kept.
CardShows(card, f, i, old) ==
    /\ card.at = slotAt(f, i).d
    /\ f.mode \in Singles => slotAt(f, i).name = confirmedName(card)
    /\ confirmedName(card) = None => slotAt(f, i).name \in old \union {None}

CardsFit ==
    /\ cards = [i \in Cards(form, step) |-> cards[i]]
    /\ \A i \in Cards(form, step) : CardTrue(cards[i], vouched) /\ CardShows(cards[i], form, i, kept)
-----------------------------------------------------------------------------
\* There is a highest number in a set of numbers up to n.
LEMMA MaxIsOne ==
    ASSUME NEW n \in Nat, NEW S \in SUBSET (1 .. n), S # {}
    PROVE  Max(S) \in S
<1> DEFINE T == {k \in Nat : n - k \in S}
<1>1. T # {}
  <2>1. PICK i \in S : TRUE
    OBVIOUS
  <2>2. n - i \in Nat /\ n - (n - i) = i
    OBVIOUS
  <2> QED
    BY <2>2
<1>2. PICK k \in T : \A l \in T : ~(<<l, k>> \in OpToRel(<, Nat))
  BY <1>1, NatLessThanWellFounded, WFMin
<1>3. ASSUME NEW l \in T, ~(k <= l)
      PROVE  FALSE
  <2>1. l < k /\ <<l, k>> \in Nat \X Nat
    BY <1>3
  <2>2. <<l, k>> \in OpToRel(<, Nat)
    BY <2>1 DEF OpToRel
  <2> QED
    BY <2>2, <1>2
<1>4. ASSUME NEW j \in S
      PROVE  n - k >= j
  <2>1. n - j \in Nat /\ n - (n - j) = j
    OBVIOUS
  <2>2. k <= n - j
    BY <2>1, <1>3
  <2> QED
    BY <2>2
<1>5. n - k \in S
  OBVIOUS
<1> QED
  BY <1>4, <1>5 DEF Max

\* The cards on the screen are numbered.
LEMMA CardsNumbered ==
    ASSUME NEW f \in Form, NEW s
    PROVE  /\ \E n \in Nat : Cards(f, s) \subseteq 1 .. n
           /\ f.mode \in Singles => Cards(f, s) \subseteq {1}
           /\ f.mode \notin Singles =>
                 \A i \in Cards(f, s) : i \in DOMAIN f.legs \/ (i = 1 /\ f.legs = <<>>)
           /\ f.mode = "scheduled" /\ s \in {"config", "edit"} => DOMAIN f.legs \subseteq Cards(f, s)
           /\ s \notin {"config", "edit"} => Cards(f, s) = {}
           /\ f.mode \in Singles /\ s \in {"config", "edit"} => Cards(f, s) = {1}
<1> DEFINE n == Len(f.legs)
<1>1. f.legs \in Seq(Leg) /\ n \in Nat /\ DOMAIN f.legs = 1 .. n /\ f.mode \in Modes \union {None}
  BY DEF Form
<1> DEFINE top == Max({1, n})
<1>2. CASE n = 0
  <2>1. top = 1
    BY <1>2 DEF Max
  <2>2. f.legs = <<>>
    BY <1>1, <1>2
  <2> HIDE DEF top
  <2> QED
    BY <1>1, <1>2, <2>1, <2>2 DEF Cards, Modes, Singles, None, top
<1>3. CASE n # 0
  <2>1. n >= 1 /\ n >= n /\ 1 \in Nat
    BY <1>1, <1>3
  <2>2. \A x \in {1, n} : (\A y \in {1, n} : x >= y) => x = n
    BY <1>1, <1>3
  <2>3. top = n
    BY <2>1, <2>2 DEF Max
  <2>4. Cards(f, s) = IF s \notin {"config", "edit"} \/ f.mode = None THEN {}
                       ELSE IF f.mode \in Singles THEN {1} ELSE 1 .. n
    BY <2>3 DEF Cards
  <2> HIDE DEF n, top
  <2>5. n >= 1
    BY <2>1
  <2>6. Cards(f, s) \subseteq 1 .. n
    BY <1>1, <2>4, <2>5
  <2> QED
    BY <1>1, <2>4, <2>6 DEF Modes, Singles, None
<1> QED
  BY <1>2, <1>3

\* One slot of the single destinations is replaced.
LEMMA DestReplaced ==
    ASSUME NEW f \in Form, f.mode \in Singles, NEW q \in Slot, NEW g,
           g = [f EXCEPT !.dest[f.mode] = q]
    PROVE  /\ g \in Form /\ g.mode = f.mode /\ g.legs = f.legs
           /\ g.dest[f.mode] = q /\ \A m \in Singles \ {f.mode} : g.dest[m] = f.dest[m]
<1> DEFINE m == f.mode
           dest == [f.dest EXCEPT ![m] = q]
<1>1. f.dest \in [Singles -> Slot]
  BY DEF Form
<1>2. /\ dest \in [Singles -> Slot] /\ dest[m] = q
      /\ \A k \in Singles \ {m} : dest[k] = f.dest[k]
  BY <1>1
<1>3. g = [f EXCEPT !.dest = dest]
  OBVIOUS
<1> HIDE DEF m, dest
<1>4. g \in Form
  BY <1>2, <1>3 DEF Form
<1>5. g.mode = f.mode /\ g.legs = f.legs /\ g.dest = dest
  BY <1>3 DEF Form
<1> QED
  BY <1>2, <1>4, <1>5 DEF m

\* The legs are replaced.
LEMMA LegsReplaced ==
    ASSUME NEW f \in Form, NEW legs \in Seq(Leg), NEW g, g = [f EXCEPT !.legs = legs]
    PROVE  g \in Form /\ g.mode = f.mode /\ g.legs = legs /\ g.dest = f.dest
BY DEF Form

\* The legs of the form, or the placeholder the page shows instead.
ShownLegs(f) == IF f.legs = <<>> THEN <<emptyLeg(0)>> ELSE f.legs

\* A new leg is a leg, without a name.
LEMMA EmptyLegTyped ==
    ASSUME NEW n \in Nat
    PROVE  emptyLeg(n) \in Leg /\ emptyLeg(n).seq = n /\ emptyLeg(n).name = None /\ emptyLeg(n).d = "blank"
BY DEF emptyLeg, Leg, Destinations, Name, Day, Amount, Blank

\* They are legs in order, and what the cards of a scheduled pot show.
LEMMA ShownLegsTyped ==
    ASSUME NEW f \in Form, Numbered(f.legs)
    PROVE  /\ ShownLegs(f) \in Seq(Leg) /\ Numbered(ShownLegs(f))
           /\ f.mode \notin Singles => \A i \in DOMAIN ShownLegs(f) : slotAt(f, i) = ShownLegs(f)[i]
           /\ f.mode \notin Singles => \A s : Cards(f, s) \subseteq DOMAIN ShownLegs(f)
<1>1. f.legs \in Seq(Leg)
  BY DEF Form
<1>2. CASE f.legs = <<>>
  <2> DEFINE e == emptyLeg(0)
  <2>1. e \in Leg /\ e.seq = 0 
    BY EmptyLegTyped
  <2>2. ShownLegs(f) = <<e>> /\ (f.mode \notin Singles => slotAt(f, 1) = e)
    BY <1>2 DEF ShownLegs, slotAt
  <2> HIDE DEF e
  <2>3. \A s : f.mode \notin Singles => Cards(f, s) \subseteq {1}
    BY <1>2, CardsNumbered
  <2> QED
    BY <2>1, <2>2, <2>3 DEF Numbered
<1>3. CASE f.legs # <<>>
  <2>1. ShownLegs(f) = f.legs
    BY <1>3 DEF ShownLegs
  <2>2. f.mode \notin Singles => \A i \in DOMAIN f.legs : slotAt(f, i) = f.legs[i]
    BY DEF slotAt
  <2>3. \A s : f.mode \notin Singles => Cards(f, s) \subseteq DOMAIN f.legs
    BY <1>3, CardsNumbered
  <2> QED
    BY <1>1, <2>1, <2>2, <2>3
<1> QED
  BY <1>2, <1>3

\* A field of one of them is written.
LEMMA LegWritten ==
    ASSUME NEW f \in Form, Numbered(f.legs), NEW i \in DOMAIN ShownLegs(f), NEW q \in Leg,
           q.seq = ShownLegs(f)[i].seq, NEW g, g = [f EXCEPT !.legs = [ShownLegs(f) EXCEPT ![i] = q]]
    PROVE  /\ g \in Form /\ g.mode = f.mode /\ g.dest = f.dest /\ Numbered(g.legs)
           /\ DOMAIN g.legs = DOMAIN ShownLegs(f) /\ g.legs[i] = q
           /\ \A j \in DOMAIN g.legs : j # i => g.legs[j] = ShownLegs(f)[j]
<1> DEFINE old  == ShownLegs(f)
           legs == [old EXCEPT ![i] = q]
<1>1. old \in Seq(Leg) /\ Numbered(old)
  BY ShownLegsTyped
<1> HIDE DEF old
<1>2. legs \in Seq(Leg) /\ DOMAIN legs = DOMAIN old /\ legs[i] = q
  BY <1>1 DEF old
<1>3. \A j \in DOMAIN old : j # i => legs[j] = old[j]
  BY <1>1
<1>4. Numbered(legs)
  <2>1. q.seq = i - 1 /\ \A j \in DOMAIN old : old[j].seq = j - 1
    BY <1>1 DEF Numbered, old
  <2> HIDE DEF legs
  <2> QED
    BY <1>2, <1>3, <2>1 DEF Numbered
<1>5. g = [f EXCEPT !.legs = legs]
  BY DEF old
<1> HIDE DEF legs
<1>6. g \in Form /\ g.mode = f.mode /\ g.legs = legs /\ g.dest = f.dest
  <2>1. legs \in Seq(Leg)
    BY <1>2
  <2>2. \A h : h = [f EXCEPT !.legs = legs] =>
                h \in Form /\ h.mode = f.mode /\ h.legs = legs /\ h.dest = f.dest
    BY <2>1, LegsReplaced
  <2> QED
    BY <1>5, <2>2, Zenon
<1>7. /\ Numbered(g.legs) /\ DOMAIN g.legs = DOMAIN old /\ g.legs[i] = q
      /\ \A j \in DOMAIN g.legs : j # i => g.legs[j] = old[j]
  BY <1>2, <1>3, <1>4, <1>6
<1> QED
  BY <1>6, <1>7 DEF old
-----------------------------------------------------------------------------
(* One commit of the page *)

\* A destination is not one of the marks the page uses.
LEMMA Marks ==
    /\ None \notin Destinations /\ "error" \notin Accounts /\ None \notin Accounts
    /\ "blank" \notin Accounts /\ Accounts \subseteq Destinations /\ "blank" \in Destinations
BY WizardAssumption DEF Destinations, None

\* The name a card has is that of the account it shows, and was brought by a lookup.
LEMMA NameIsTrue ==
    ASSUME NEW card, NEW known, CardTrue(card, known), confirmedName(card) # None
    PROVE  confirmedName(card) = card.at /\ card.at \in known /\ card.at \in Accounts
BY DEF CardTrue, Card, confirmedName

\* A new card has no name yet.
LEMMA MountTrue ==
    ASSUME NEW d \in Destinations, NEW known
    PROVE  /\ CardTrue(mountCard(d), known) /\ mountCard(d).at = d
           /\ confirmedName(mountCard(d)) = None
<1>1. (d \in Accounts) \in BOOLEAN
  OBVIOUS
<1> QED
  BY <1>1 DEF CardTrue, Card, mountCard, confirmedName

\* A card that is rendered again: what it confirms now it confirmed before, or is what it
\* was looking up.
LEMMA RerenderTrue ==
    ASSUME NEW card, NEW known, CardTrue(card, known), NEW d \in Destinations
    PROVE  LET c == rerenderCard(card, d) IN
           /\ CardTrue(c, known) /\ c.at = d
           /\ confirmedName(card) # None /\ confirmedName(c) # None =>
                 confirmedName(c) = confirmedName(card)
<1> DEFINE c == rerenderCard(card, d)
           confirmed == IF card.landed \in Accounts THEN card.landed ELSE card.confirmed
           looking == IF d = card.at THEN card.looking /\ card.landed = None ELSE d \in Accounts
<1>1. card \in Card
  BY DEF CardTrue
<1>2. confirmed \in Accounts \union {None} /\ (confirmed # None => confirmed \in known)
      /\ confirmed \in {card.confirmed, card.at}
  BY <1>1, Marks DEF CardTrue, Card
<1>3. looking => d \in Accounts
  <2>1. card.looking => card.at \in Accounts
    BY DEF CardTrue
  <2> QED
    BY <2>1, Zenon
<1> DEFINE still == card.looking /\ card.landed = None
           anew == d \in Accounts
           taken == [card EXCEPT !.confirmed = confirmed, !.landed = None, !.looking = still]
<1>4. c = IF d = card.at THEN taken ELSE [taken EXCEPT !.at = d, !.looking = anew]
  BY DEF rerenderCard
<1>a. still \in BOOLEAN /\ anew \in BOOLEAN /\ looking = IF d = card.at THEN still ELSE anew
  BY <1>1 DEF Card
<1> HIDE DEF c, looking, confirmed, still, anew
<1>b. /\ taken \in Card /\ taken.at = card.at /\ taken.confirmed = confirmed
      /\ taken.looking = still /\ taken.landed = None
  BY <1>1, <1>2, <1>a DEF Card
<1> HIDE DEF taken
<1>5. c \in Card /\ c.at = d /\ c.confirmed = confirmed /\ c.looking = looking /\ c.landed = None
  BY <1>4, <1>a, <1>b DEF Card
<1>6. CardTrue(c, known)
  BY <1>2, <1>3, <1>5 DEF CardTrue
<1>7. confirmedName(card) # None /\ confirmedName(c) # None => confirmedName(c) = confirmedName(card)
  BY <1>2, <1>5 DEF confirmedName
<1> QED
  BY <1>5, <1>6, <1>7 DEF c

\* A card's effect writes the name into the slot the card shows, and nothing else.
LEMMA NameWritten ==
    ASSUME NEW f \in Form, Numbered(f.legs), NEW i, NEW n \in Name,
           IF f.mode \in Singles THEN i = 1 ELSE i \in DOMAIN f.legs,
           NEW g, g = setSlot(f, i, "name", n)
    PROVE  /\ g \in Form /\ g.mode = f.mode /\ Numbered(g.legs)
           /\ DOMAIN g.legs = DOMAIN f.legs
           /\ f.mode \in Singles =>
                 /\ g.legs = f.legs /\ \A m \in Singles \ {f.mode} : g.dest[m] = f.dest[m]
                 /\ g.dest[f.mode].d = f.dest[f.mode].d /\ g.dest[f.mode].name = n
           /\ f.mode \notin Singles =>
                 /\ g.dest = f.dest /\ g.legs[i].d = f.legs[i].d /\ g.legs[i].name = n
                 /\ \A j \in DOMAIN f.legs : j # i => g.legs[j] = f.legs[j]
<1>1. f.dest \in [Singles -> Slot] /\ f.legs \in Seq(Leg)
  BY DEF Form
<1>2. CASE f.mode \in Singles
  <2> DEFINE slot == f.dest[f.mode]
             q == [slot EXCEPT !["name"] = n]
  <2>1. slot \in Slot
    BY <1>1, <1>2
  <2>2. q \in Slot /\ q.d = slot.d /\ q.name = n
    BY <2>1 DEF Slot
  <2>3. g = [f EXCEPT !.dest[f.mode] = q]
    BY <1>2 DEF setSlot
  <2> HIDE DEF q
  <2>4. /\ g \in Form /\ g.mode = f.mode /\ g.legs = f.legs
        /\ g.dest[f.mode] = q /\ \A m \in Singles \ {f.mode} : g.dest[m] = f.dest[m]
    <3>1. \A h : h = [f EXCEPT !.dest[f.mode] = q] =>
                   /\ h \in Form /\ h.mode = f.mode /\ h.legs = f.legs
                   /\ h.dest[f.mode] = q /\ \A m \in Singles \ {f.mode} : h.dest[m] = f.dest[m]
      BY <1>2, <2>2, DestReplaced
    <3> QED
      BY <2>3, <3>1, Zenon
  <2> QED
    BY <1>2, <2>2, <2>4
<1>3. CASE f.mode \notin Singles
  <2> DEFINE leg == f.legs[i]
             q == [leg EXCEPT !["name"] = n]
  <2>1. f.legs # <<>> /\ i \in DOMAIN f.legs /\ leg \in Leg
    BY <1>1, <1>3
  <2>2. ShownLegs(f) = f.legs
    BY <2>1 DEF ShownLegs
  <2>3. q \in Leg /\ q.d = leg.d /\ q.name = n /\ q.seq = leg.seq
    BY <2>1 DEF Leg
  <2>4. g = [f EXCEPT !.legs = [ShownLegs(f) EXCEPT ![i] = q]]
    BY <1>3, <2>1, <2>2 DEF setSlot, updateLeg
  <2> HIDE DEF q
  <2>5. /\ g \in Form /\ g.mode = f.mode /\ g.dest = f.dest /\ Numbered(g.legs)
        /\ DOMAIN g.legs = DOMAIN f.legs /\ g.legs[i] = q
        /\ \A j \in DOMAIN g.legs : j # i => g.legs[j] = f.legs[j]
    <3>0. i \in DOMAIN ShownLegs(f) /\ q \in Leg /\ q.seq = ShownLegs(f)[i].seq
      BY <2>1, <2>2, <2>3
    <3>1. \A h : h = [f EXCEPT !.legs = [ShownLegs(f) EXCEPT ![i] = q]] =>
                   /\ h \in Form /\ h.mode = f.mode /\ h.dest = f.dest /\ Numbered(h.legs)
                   /\ DOMAIN h.legs = DOMAIN ShownLegs(f) /\ h.legs[i] = q
                   /\ \A j \in DOMAIN h.legs : j # i => h.legs[j] = ShownLegs(f)[j]
      BY <3>0, LegWritten
    <3>2. /\ g \in Form /\ g.mode = f.mode /\ g.dest = f.dest /\ Numbered(g.legs)
          /\ DOMAIN g.legs = DOMAIN ShownLegs(f) /\ g.legs[i] = q
          /\ \A j \in DOMAIN g.legs : j # i => g.legs[j] = ShownLegs(f)[j]
      BY <2>4, <3>1, Zenon
    <3> QED
      BY <2>2, <3>2
  <2> QED
    BY <1>3, <2>3, <2>5
<1> QED
  BY <1>2, <1>3

\* The cards of a form depend on its mode and the number of its legs.
LEMMA SameCards ==
    ASSUME NEW f \in Form, NEW g \in Form, g.mode = f.mode, DOMAIN g.legs = DOMAIN f.legs, NEW s
    PROVE  Cards(g, s) = Cards(f, s)
<1>1. f.legs \in Seq(Leg) /\ g.legs \in Seq(Leg)
  BY DEF Form
<1>2. Len(g.legs) = Len(f.legs)
  BY <1>1
<1> QED
  BY <1>2 DEF Cards

\* A slot of the form is a slot.
LEMMA SlotTyped ==
    ASSUME NEW f \in Form, f.mode # None, NEW i
    PROVE  slotAt(f, i).d \in Destinations /\ slotAt(f, i).name \in Name
<1>1. f.dest \in [Singles -> Slot] /\ f.legs \in Seq(Leg)
  BY DEF Form
<1>2. CASE f.mode \in Singles
  <2>1. f.dest[f.mode] \in Slot
    BY <1>1, <1>2
  <2> QED
    BY <1>2, <2>1 DEF slotAt, Slot
<1>3. CASE f.mode \notin Singles /\ i \in DOMAIN f.legs
  <2>1. f.legs[i] \in Leg
    BY <1>1, <1>3
  <2> QED
    BY <1>3, <2>1 DEF slotAt, Leg
<1>4. CASE f.mode \notin Singles /\ i \notin DOMAIN f.legs
  <2>1. slotAt(f, i) = emptyLeg(0)
    BY <1>4 DEF slotAt
  <2> QED
    BY <2>1, EmptyLegTyped DEF Leg
<1> QED
  BY <1>2, <1>3, <1>4

\* What the form must be like when it is committed.  New cards clear the names; cards that
\* stay need to be in step with the form but for the field that is edited.
Prepared(f, s, remount, known) ==
    /\ f \in Form /\ Numbered(f.legs)
    /\ \A m \in Singles :
          SlotNamed(f.dest[m], known) \/ (m = f.mode /\ ~remount /\ Cards(f, s) # {})
    /\ \A i \in DOMAIN f.legs :
          \/ LegNamed(f.legs[i], known, kept)
          \/ /\ ~remount /\ i \in Cards(f, s) /\ f.mode \notin Singles /\ i \in DOMAIN cards
             /\ f.legs[i].name = confirmedName(cards[i]) /\ f.legs[i].name # None
    /\ ~remount =>
          /\ known = vouched
          /\ \A i \in DOMAIN cards : CardTrue(cards[i], vouched)
          /\ f.mode \in Singles => \A i \in Cards(f, s) :
                i \in DOMAIN cards /\ f.dest[f.mode].name = confirmedName(cards[i])

\* After a commit the form fits again and every card is in step with it: the effect that
\* writes last has the form of this render, so that a leg may keep a name its card has lost,
\* and it is then among the kept ones.
LEMMA CommitFits ==
    ASSUME NEW f, NEW s, NEW remount \in BOOLEAN, NEW known, Prepared(f, s, remount, known),
           Commit(f, s, remount), vouched' = known
    PROVE  /\ FormFits(form', vouched', kept') /\ CardsFit'
           /\ form'.mode = f.mode /\ step' = s /\ kept \subseteq kept'
           /\ Cards(f, s) = {} => form' = f
<1> DEFINE old(i) == ~remount /\ i \in DOMAIN cards
           shown  == [i \in Cards(f, s) |->
                        IF old(i) THEN rerenderCard(cards[i], slotAt(f, i).d)
                        ELSE mountCard(slotAt(f, i).d)]
           changed == {i \in Cards(f, s) :
                         ~old(i) \/ confirmedName(shown[i]) # confirmedName(cards[i])}
           writers == syncWriters(f, shown, changed)
           Nameless == {j \in Cards(f, s) : confirmedName(shown[j]) = None}
<1>1. /\ cards' = shown
      /\ form' = syncEffects(f, shown, writers)
      /\ step' = s
      /\ kept' = kept \union ({slotAt(form', i).name : i \in Nameless} \ {None})
  BY DEF Commit
<1>2. f \in Form /\ Numbered(f.legs)
  BY DEF Prepared
<1>3. Cards(f, s) # {} => f.mode # None
  BY DEF Cards
<1>4. ASSUME NEW i \in Cards(f, s)
      PROVE  /\ CardTrue(shown[i], known) /\ shown[i].at = slotAt(f, i).d
             /\ ~old(i) => confirmedName(shown[i]) = None
             /\ old(i) /\ confirmedName(cards[i]) # None /\ confirmedName(shown[i]) # None =>
                   confirmedName(shown[i]) = confirmedName(cards[i])
  <2>1. slotAt(f, i).d \in Destinations
    BY <1>2, <1>3, SlotTyped
  <2>2. CASE old(i)
    <3>1. shown[i] = rerenderCard(cards[i], slotAt(f, i).d)
      BY <2>2
    <3>2. CardTrue(cards[i], known)
      BY <2>2 DEF Prepared
    <3> QED
      BY <2>1, <2>2, <3>1, <3>2, RerenderTrue
  <2>3. CASE ~old(i)
    <3>1. shown[i] = mountCard(slotAt(f, i).d)
      BY <2>3
    <3> QED
      BY <2>1, <2>3, <3>1, MountTrue
  <2> QED
    BY <2>2, <2>3
<1>5. ASSUME NEW i \in Cards(f, s), confirmedName(shown[i]) # None
      PROVE  /\ confirmedName(shown[i]) = slotAt(f, i).d /\ slotAt(f, i).d \in known
             /\ slotAt(f, i).d \in Accounts
  BY <1>4, <1>5, NameIsTrue
<1>6. writers \subseteq Cards(f, s) /\ \A w \in writers : slotAt(f, w).name # confirmedName(shown[w])
  BY DEF syncWriters
<1>7. ASSUME NEW w \in writers
      PROVE  /\ IF f.mode \in Singles THEN w = 1 ELSE w \in DOMAIN f.legs
             /\ confirmedName(shown[w]) \in Name
  <2>1. w \in Cards(f, s) /\ slotAt(f, w).name # confirmedName(shown[w])
    BY <1>6
  <2>2. confirmedName(shown[w]) \in Name
    BY <1>5, <2>1, Marks DEF Name
  <2>3. CASE f.mode \in Singles
    BY <1>2, <2>1, <2>2, <2>3, CardsNumbered
  <2>4. CASE f.mode \notin Singles
    <3>1. w \in DOMAIN f.legs \/ (w = 1 /\ f.legs = <<>>)
      BY <1>2, <2>1, <2>4, CardsNumbered
    <3>2. ASSUME f.legs = <<>> PROVE FALSE
      <4>1. slotAt(f, w) = emptyLeg(0)
        BY <2>4, <3>2 DEF slotAt
      <4>2. slotAt(f, w).name = None /\ slotAt(f, w).d = "blank"
        BY <4>1, EmptyLegTyped
      <4> QED
        BY <1>5, <2>1, <4>2, Marks
    <3> QED
      BY <2>2, <2>4, <3>1, <3>2
  <2> QED
    BY <2>3, <2>4
<1> HIDE DEF shown, changed, writers
<1>9. writers # {} => Max(writers) \in writers
  BY <1>2, <1>6, CardsNumbered, MaxIsOne
<1>10. /\ form' \in Form /\ form'.mode = f.mode /\ Numbered(form'.legs)
       /\ DOMAIN form'.legs = DOMAIN f.legs
       /\ writers = {} => form' = f
       /\ \A m \in Singles : m # f.mode => form'.dest[m] = f.dest[m]
       /\ f.mode \in Singles =>
             /\ form'.legs = f.legs /\ form'.dest[f.mode].d = f.dest[f.mode].d
             /\ IF 1 \in writers THEN form'.dest[f.mode].name = confirmedName(shown[1])
                ELSE form'.dest[f.mode].name = f.dest[f.mode].name
       /\ f.mode \notin Singles => \A j \in DOMAIN f.legs :
             /\ form'.legs[j].d = f.legs[j].d
             /\ \/ form'.legs[j].name = f.legs[j].name
                \/ j \in writers /\ form'.legs[j].name = confirmedName(shown[j])
  <2>1. CASE writers = {}
    <3>1. form' = f
      BY <1>1, <2>1 DEF syncEffects
    <3> QED
      BY <1>2, <2>1, <3>1
  <2>2. CASE writers # {}
    <3> DEFINE w == Max(writers)
    <3>1. w \in writers
      BY <1>9, <2>2
    <3>2. form' = setSlot(f, w, "name", confirmedName(shown[w]))
      BY <1>1, <2>2 DEF syncEffects
    <3> HIDE DEF w
    <3>3. /\ IF f.mode \in Singles THEN w = 1 ELSE w \in DOMAIN f.legs
          /\ confirmedName(shown[w]) \in Name
      BY <1>7, <3>1
    <3> DEFINE n == confirmedName(shown[w])
    <3>4. /\ form' \in Form /\ form'.mode = f.mode /\ Numbered(form'.legs)
          /\ DOMAIN form'.legs = DOMAIN f.legs
          /\ f.mode \in Singles =>
                 /\ form'.legs = f.legs /\ \A m \in Singles \ {f.mode} : form'.dest[m] = f.dest[m]
                 /\ form'.dest[f.mode].d = f.dest[f.mode].d /\ form'.dest[f.mode].name = n
          /\ f.mode \notin Singles =>
                 /\ form'.dest = f.dest /\ form'.legs[w].d = f.legs[w].d /\ form'.legs[w].name = n
                 /\ \A j \in DOMAIN f.legs : j # w => form'.legs[j] = f.legs[j]
      BY <1>2, <3>2, <3>3, NameWritten
    <3> QED
      BY <2>2, <3>1, <3>3, <3>4
  <2> QED
    BY <2>1, <2>2
<1>11. Cards(form', s) = Cards(f, s)
  BY <1>2, <1>10, SameCards
<1>12. ASSUME NEW i \in Cards(f, s)
       PROVE  slotAt(form', i).d = slotAt(f, i).d
  BY <1>2, <1>10 DEF slotAt
<1>13. Nameless \subseteq Cards(f, s) /\ \A i \in Nameless : slotAt(form', i).name \in kept' \union {None}
  BY <1>1
<1>14. ASSUME NEW i \in Cards(f, s)
       PROVE  CardShows(cards'[i], form', i, kept')
  <2>1. cards'[i] = shown[i]
    BY <1>1
  <2>2. shown[i].at = slotAt(form', i).d
    BY <1>4, <1>12
  <2>3. confirmedName(shown[i]) = None => slotAt(form', i).name \in kept' \union {None}
    BY <1>13
  <2>4. ASSUME f.mode \in Singles PROVE slotAt(form', i).name = confirmedName(shown[i])
    <3>1. i = 1 /\ slotAt(form', i) = form'.dest[f.mode] /\ slotAt(f, i) = f.dest[f.mode]
      BY <1>2, <1>10, <2>4, CardsNumbered DEF slotAt
    <3>2. CASE i \in writers
      BY <1>10, <2>4, <3>1, <3>2
    <3>3. CASE i \notin writers
      <4>1. slotAt(form', i).name = f.dest[f.mode].name
        BY <1>10, <2>4, <3>1, <3>3
      <4>2. i \notin changed \/ slotAt(f, i).name = confirmedName(shown[i])
        BY <3>3 DEF writers, syncWriters
      <4>3. CASE i \notin changed
        <5>1. old(i) /\ confirmedName(shown[i]) = confirmedName(cards[i])
          BY <4>3 DEF changed
        <5>2. f.dest[f.mode].name = confirmedName(cards[i])
          BY <2>4, <5>1 DEF Prepared
        <5> QED
          BY <4>1, <5>1, <5>2
      <4> QED
        BY <3>1, <4>1, <4>2, <4>3
    <3> QED
      BY <3>2, <3>3
  <2> QED
    BY <1>10, <2>1, <2>2, <2>3, <2>4 DEF CardShows
<1>15. CardsFit'
  <2>1. \A i \in Cards(f, s) : CardTrue(cards'[i], known)
    BY <1>1, <1>4
  <2>2. cards' = [i \in Cards(f, s) |-> cards'[i]]
    BY <1>1 DEF shown
  <2> QED
    BY <1>1, <1>11, <1>14, <2>1, <2>2 DEF CardsFit
<1>16. ASSUME NEW m \in Singles
       PROVE  SlotNamed(form'.dest[m], known)
  <2>1. CASE m # f.mode \/ Cards(f, s) = {}
    <3>1. SlotNamed(f.dest[m], known)
      BY <2>1 DEF Prepared
    <3>2. form'.dest[m] = f.dest[m]
      BY <1>6, <1>10, <2>1
    <3> QED
      BY <3>1, <3>2
  <2>2. CASE m = f.mode /\ Cards(f, s) # {}
    <3>1. 1 \in Cards(f, s)
      BY <1>2, <2>2, CardsNumbered
    <3>2. form'.dest[m].name = confirmedName(cards'[1]) /\ cards'[1] = shown[1]
      BY <1>1, <1>10, <1>14, <2>2, <3>1 DEF CardShows, slotAt
    <3>3. form'.dest[m].d = slotAt(f, 1).d
      BY <1>10, <2>2 DEF slotAt
    <3> QED
      BY <1>5, <3>1, <3>2, <3>3 DEF SlotNamed
  <2> QED
    BY <2>1, <2>2
<1>17. kept \subseteq kept'
  BY <1>1
<1>18. ASSUME NEW i \in DOMAIN f.legs
       PROVE  LegNamed(form'.legs[i], known, kept')
  <2>1. CASE f.mode \in Singles \/ i \notin Cards(f, s)
    <3>1. LegNamed(f.legs[i], known, kept)
      BY <2>1 DEF Prepared
    <3>2. form'.legs[i].name = f.legs[i].name /\ form'.legs[i].d = f.legs[i].d
      BY <1>6, <1>10, <2>1
    <3> QED
      BY <1>17, <3>1, <3>2 DEF LegNamed
  <2>2. CASE f.mode \notin Singles /\ i \in Cards(f, s)
    <3>1. slotAt(form', i) = form'.legs[i] /\ slotAt(f, i) = f.legs[i]
      BY <1>10, <2>2 DEF slotAt
    <3>2. CASE confirmedName(shown[i]) = None
      BY <1>13, <2>2, <3>1, <3>2 DEF LegNamed
    <3>3. CASE confirmedName(shown[i]) # None
      <4>1. confirmedName(shown[i]) = form'.legs[i].d /\ form'.legs[i].d \in known
        BY <1>5, <1>12, <2>2, <3>1, <3>3
      <4>2. CASE form'.legs[i].name = confirmedName(shown[i])
        BY <4>1, <4>2 DEF LegNamed
      <4>3. CASE form'.legs[i].name = f.legs[i].name
        <5>1. CASE LegNamed(f.legs[i], known, kept)
          BY <1>10, <1>17, <2>2, <4>3, <5>1 DEF LegNamed
        <5>2. CASE ~LegNamed(f.legs[i], known, kept)
          <6>1. /\ old(i) /\ f.legs[i].name = confirmedName(cards[i]) /\ f.legs[i].name # None
            BY <5>2 DEF Prepared
          <6>2. confirmedName(shown[i]) = confirmedName(cards[i])
            BY <1>4, <2>2, <3>3, <6>1
          <6> QED
            BY <4>1, <4>3, <6>1, <6>2 DEF LegNamed
        <5> QED
          BY <5>1, <5>2
      <4> QED
        BY <1>10, <2>2, <4>2, <4>3
    <3> QED
      BY <3>2, <3>3
  <2> QED
    BY <2>1, <2>2
<1>19. FormFits(form', known, kept')
  BY <1>10, <1>16, <1>18 DEF FormFits
<1> QED
  BY <1>1, <1>6, <1>10, <1>15, <1>17, <1>19
-----------------------------------------------------------------------------
(* The invariant *)

\* A request is made from a form that was valid when it was sent.
MadeFrom(s) ==
    /\ s = [pc |-> s.pc, call |-> s.call, mode |-> s.mode, min |-> s.min, config |-> s.config,
            form |-> s.form]
    /\ s.form \in Form /\ Numbered(s.form.legs) /\ isConfigStepValid(s.form)
    /\ s.mode = s.form.mode /\ s.min = limitInput(s.form.min)
    /\ s.config = buildPayoutConfig(s.form)

\* An update is of a draft that is there.
RequestFits ==
    /\ sub.pc \in {"idle", "sent", "ok", "failed"}
    /\ sub.pc # "idle" => MadeFrom(sub) /\ (sub.call # "create" => isDraft(pot))

\* The review shows a valid form, the edit page a draft that is there, and the page of the
\* pot is reached when the request has been answered.
StepFits ==
    /\ step = "review" => isConfigStepValid(form)
    /\ step \in {"edit", "preview"} => isDraft(pot)
    /\ step = "pot" => sub.pc = "idle"

\* The inductive invariant of the pages.
WizardInv ==
    /\ FormFits(form, vouched, kept) /\ CardsFit
    /\ RequestFits /\ StepFits /\ (pot = NoPot \/ isDraft(pot))
    /\ SubmittedWasConfirmed /\ SavedAsShown

\* What a request was confirmed by stays.
LEMMA StaysConfirmed ==
    ASSUME SubmittedWasConfirmed, UNCHANGED sub, vouched \subseteq vouched' \/ sub.pc # "sent",
           kept \subseteq kept'
    PROVE  SubmittedWasConfirmed'
BY DEF SubmittedWasConfirmed

\* What was saved stays what it is shown as.
LEMMA StaysSaved ==
    ASSUME SavedAsShown, UNCHANGED <<sub, pot>>, saved' = saved \/ sub.pc # "ok"
    PROVE  SavedAsShown'
BY DEF SavedAsShown

\* A commit of the page while the request, if there is one, waits.
LEMMA PageCommits ==
    ASSUME WizardInv, NEW f, NEW s, NEW remount \in BOOLEAN, NEW known,
           Prepared(f, s, remount, known), Commit(f, s, remount), vouched' = known,
           vouched \subseteq known \/ sub.pc = "idle",
           UNCHANGED <<sub, pot>>, saved' = saved \/ sub.pc = "idle",
           s = "review" => isConfigStepValid(f),
           s \in {"edit", "preview"} => isDraft(pot),
           s = "pot" => sub.pc = "idle"
    PROVE  WizardInv'
<1>1. /\ FormFits(form', vouched', kept') /\ CardsFit'
      /\ form'.mode = f.mode /\ step' = s /\ kept \subseteq kept'
      /\ Cards(f, s) = {} => form' = f
  BY CommitFits
<1>2. s = "review" => form' = f
  BY <1>1 DEF Cards
<1>3. StepFits' /\ RequestFits'
  BY <1>1, <1>2 DEF WizardInv, StepFits, RequestFits
<1>4. SubmittedWasConfirmed'
  BY <1>1, StaysConfirmed DEF WizardInv
<1>5. SavedAsShown'
  BY StaysSaved DEF WizardInv
<1> QED
  BY <1>1, <1>3, <1>4, <1>5 DEF WizardInv

\* A form that fits may be committed with new cards,
LEMMA PreparedToMount ==
    ASSUME NEW f, NEW s, NEW known, FormFits(f, known, kept)
    PROVE  Prepared(f, s, TRUE, known)
BY DEF FormFits, Prepared

\* and one whose cards stay may be committed if they are in step with it.
LEMMA InStep ==
    ASSUME WizardInv
    PROVE  /\ form \in Form /\ Numbered(form.legs) /\ form.mode \in Modes \union {None}
           /\ form.legs \in Seq(Leg) /\ form.dest \in [Singles -> Slot]
           /\ DOMAIN cards = Cards(form, step)
           /\ \A i \in DOMAIN cards : CardTrue(cards[i], vouched) /\ CardShows(cards[i], form, i, kept)
<1>1. form \in Form /\ CardsFit /\ Numbered(form.legs)
  BY DEF WizardInv, FormFits
<1>2. DOMAIN cards = Cards(form, step)
  BY <1>1 DEF CardsFit
<1> QED
  BY <1>1, <1>2 DEF CardsFit, Form

\* The name of a leg on the screen was kept, or is the one its card has.
LEMMA LegInStep ==
    ASSUME WizardInv, form.mode \notin Singles, NEW i \in DOMAIN form.legs, i \in DOMAIN cards
    PROVE  \/ form.legs[i].name \in kept \union {None}
           \/ /\ form.legs[i].name = confirmedName(cards[i]) /\ form.legs[i].name # None
              /\ cards[i].at = form.legs[i].d /\ form.legs[i].name = form.legs[i].d
              /\ form.legs[i].d \in vouched
<1>1. CardTrue(cards[i], vouched) /\ CardShows(cards[i], form, i, kept)
  BY InStep
<1>2. slotAt(form, i) = form.legs[i]
  BY DEF slotAt
<1>3. LegNamed(form.legs[i], vouched, kept)
  BY DEF WizardInv, FormFits
<1>4. CASE confirmedName(cards[i]) = None
  BY <1>1, <1>2, <1>4 DEF CardShows
<1>5. CASE confirmedName(cards[i]) # None
  <2>1. confirmedName(cards[i]) = form.legs[i].d
    BY <1>1, <1>2, <1>5, NameIsTrue DEF CardShows
  <2> QED
    BY <1>1, <1>2, <1>3, <1>5, <2>1 DEF LegNamed, CardShows
<1> QED
  BY <1>4, <1>5

\* The name of a single destination on the screen is the one its card has.
LEMMA SlotInStep ==
    ASSUME WizardInv, form.mode \in Singles, NEW i \in Cards(form, step)
    PROVE  i \in DOMAIN cards /\ form.dest[form.mode].name = confirmedName(cards[i])
<1>1. i \in DOMAIN cards /\ CardShows(cards[i], form, i, kept)
  BY InStep
<1> QED
  BY <1>1 DEF CardShows, slotAt

\* Fields that no card is about.
LEMMA PreparedOther ==
    ASSUME WizardInv, NEW f \in Form, f.mode = form.mode, f.dest = form.dest, f.legs = form.legs
    PROVE  Prepared(f, step, FALSE, vouched)
<1>1. Cards(f, step) = Cards(form, step)
  BY DEF Cards
<1>2. Numbered(f.legs) /\ \A m \in Singles : SlotNamed(f.dest[m], vouched)
  BY DEF WizardInv, FormFits
<1>3. \A i \in DOMAIN f.legs : LegNamed(f.legs[i], vouched, kept)
  BY DEF WizardInv, FormFits
<1>4. \A i \in DOMAIN cards : CardTrue(cards[i], vouched)
  BY InStep
<1>5. f.mode \in Singles => \A i \in Cards(f, step) :
                i \in DOMAIN cards /\ f.dest[f.mode].name = confirmedName(cards[i])
  BY <1>1, SlotInStep
<1> QED
  BY <1>2, <1>3, <1>4, <1>5 DEF Prepared

\* The destination of a single card is edited: the card has the name still.
LEMMA PreparedDest ==
    ASSUME WizardInv, form.mode \in Singles, step \in {"config", "edit"}, NEW d \in Destinations,
           NEW f, f = setSlot(form, 1, "d", d)
    PROVE  Prepared(f, step, FALSE, vouched) /\ f.mode = form.mode
<1> DEFINE slot == form.dest[form.mode]
           q == [slot EXCEPT !["d"] = d]
<1>1. slot \in Slot /\ form \in Form
  BY InStep
<1>2. q \in Slot /\ q.name = slot.name
  BY <1>1 DEF Slot
<1>3. f = [form EXCEPT !.dest[form.mode] = q]
  BY DEF setSlot
<1> HIDE DEF q
<1>4. \A h : h = [form EXCEPT !.dest[form.mode] = q] =>
               /\ h \in Form /\ h.mode = form.mode /\ h.legs = form.legs
               /\ h.dest[form.mode] = q /\ \A m \in Singles \ {form.mode} : h.dest[m] = form.dest[m]
  BY <1>1, <1>2, DestReplaced
<1>5. /\ f \in Form /\ f.mode = form.mode /\ f.legs = form.legs
      /\ f.dest[form.mode] = q /\ \A m \in Singles \ {form.mode} : f.dest[m] = form.dest[m]
  BY <1>3, <1>4, Zenon
<1> HIDE DEF slot
<1>6. Cards(f, step) = {1} /\ Cards(form, step) = {1}
  BY <1>1, <1>5, CardsNumbered
<1>7. /\ Numbered(f.legs) /\ \A i \in DOMAIN f.legs : LegNamed(f.legs[i], vouched, kept)
      /\ \A m \in Singles \ {form.mode} : SlotNamed(f.dest[m], vouched)
  BY <1>5 DEF WizardInv, FormFits
<1>8. \A i \in DOMAIN cards : CardTrue(cards[i], vouched)
  BY InStep
<1>9. \A i \in {1} : i \in DOMAIN cards /\ form.dest[form.mode].name = confirmedName(cards[i])
  BY <1>6, SlotInStep
<1>10. \A i \in Cards(f, step) : i \in DOMAIN cards /\ f.dest[f.mode].name = confirmedName(cards[i])
  BY <1>2, <1>5, <1>6, <1>9 DEF slot
<1> QED
  BY <1>5, <1>6, <1>7, <1>8, <1>10 DEF Prepared

\* Of the legs, all are named as they were but for the one that is edited, and that one
\* keeps its name.
LEMMA PreparedLegs ==
    ASSUME WizardInv, form.mode \notin Singles, step \in {"config", "edit"}, NEW f \in Form,
           f.mode = form.mode, f.dest = form.dest, form.mode # None, Numbered(f.legs),
           \A j \in DOMAIN f.legs :
              \/ LegNamed(f.legs[j], vouched, kept)
              \/ /\ j \in DOMAIN form.legs /\ f.legs[j].name = form.legs[j].name
    PROVE  Prepared(f, step, FALSE, vouched)
<1>1. \A m \in Singles : SlotNamed(f.dest[m], vouched)
  BY DEF WizardInv, FormFits
<1>2. \A i \in DOMAIN cards : CardTrue(cards[i], vouched)
  BY InStep
<1>3. form.mode = "scheduled" /\ form \in Form
  BY InStep DEF Modes
<1>4. DOMAIN f.legs \subseteq Cards(f, step) /\ DOMAIN form.legs \subseteq DOMAIN cards
  BY <1>3, InStep, CardsNumbered
<1>5. ASSUME NEW j \in DOMAIN f.legs, ~LegNamed(f.legs[j], vouched, kept)
      PROVE  /\ j \in Cards(f, step) /\ j \in DOMAIN cards
             /\ f.legs[j].name = confirmedName(cards[j]) /\ f.legs[j].name # None
  <2>1. j \in DOMAIN form.legs /\ f.legs[j].name = form.legs[j].name
    BY <1>5
  <2>2. form.legs[j].name \notin kept \union {None}
    BY <1>5, <2>1 DEF LegNamed
  <2> QED
    BY <1>4, <2>1, <2>2, LegInStep
<1> QED
  BY <1>1, <1>2, <1>5 DEF Prepared

\* A field of a leg, or of the placeholder, is edited.
LEMMA PreparedLeg ==
    ASSUME WizardInv, form.mode = "scheduled", step \in {"config", "edit"}, NEW i \in DOMAIN cards,
           NEW field, NEW value,
           \/ field = "d" /\ value \in Destinations
           \/ field = "amount" /\ value \in Amount
           \/ field = "date" /\ value \in Day,
           NEW f, f = updateLeg(form, i, field, value)
    PROVE  Prepared(f, step, FALSE, vouched) /\ f.mode = form.mode
<1> DEFINE leg == ShownLegs(form)[i]
           q == [leg EXCEPT ![field] = value]
<1>0. form.mode \notin Singles /\ form.mode # None
  BY DEF Singles, None
<1>1. form \in Form /\ Numbered(form.legs) /\ i \in DOMAIN ShownLegs(form)
  BY <1>0, InStep, ShownLegsTyped
<1>2. leg \in Leg
  BY <1>1, ShownLegsTyped
<1>3. q \in Leg /\ q.seq = leg.seq /\ q.name = leg.name
  BY <1>2 DEF Leg
<1>4. f = [form EXCEPT !.legs = [ShownLegs(form) EXCEPT ![i] = q]]
  BY DEF updateLeg, ShownLegs
<1> HIDE DEF q
<1>5. \A h : h = [form EXCEPT !.legs = [ShownLegs(form) EXCEPT ![i] = q]] =>
               /\ h \in Form /\ h.mode = form.mode /\ h.dest = form.dest /\ Numbered(h.legs)
               /\ DOMAIN h.legs = DOMAIN ShownLegs(form) /\ h.legs[i] = q
               /\ \A j \in DOMAIN h.legs : j # i => h.legs[j] = ShownLegs(form)[j]
  BY <1>1, <1>3, LegWritten
<1>6. /\ f \in Form /\ f.mode = form.mode /\ f.dest = form.dest /\ Numbered(f.legs)
      /\ DOMAIN f.legs = DOMAIN ShownLegs(form) /\ f.legs[i] = q
      /\ \A j \in DOMAIN f.legs : j # i => f.legs[j] = ShownLegs(form)[j]
  BY <1>4, <1>5, Zenon
<1>7. ASSUME NEW j \in DOMAIN f.legs
      PROVE  f.legs[j].name = ShownLegs(form)[j].name
  BY <1>3, <1>6
<1>8. ASSUME NEW j \in DOMAIN f.legs
      PROVE  \/ LegNamed(f.legs[j], vouched, kept)
             \/ j \in DOMAIN form.legs /\ f.legs[j].name = form.legs[j].name
  <2>1. CASE form.legs = <<>>
    <3>1. ShownLegs(form) = <<emptyLeg(0)>>
      BY <2>1 DEF ShownLegs
    <3>2. j = 1 /\ ShownLegs(form)[j].name = None
      BY <1>6, <3>1, EmptyLegTyped
    <3> QED
      BY <1>7, <3>2 DEF LegNamed
  <2>2. CASE form.legs # <<>>
    BY <1>6, <1>7, <2>2 DEF ShownLegs
  <2> QED
    BY <2>1, <2>2
<1> QED
  BY <1>0, <1>6, <1>8, PreparedLegs

\* A leg is added behind those shown.
LEMMA PreparedAdd ==
    ASSUME WizardInv, form.mode = "scheduled", step \in {"config", "edit"}, NEW f,
           f = [form EXCEPT !.legs = Append(ShownLegs(form), emptyLeg(Len(ShownLegs(form))))]
    PROVE  Prepared(f, step, FALSE, vouched) /\ f.mode = form.mode
<1> DEFINE old == ShownLegs(form)
           e == emptyLeg(Len(old))
           legs == Append(old, e)
<1>0. form.mode \notin Singles /\ form.mode # None
  BY DEF Singles, None
<1>1. form \in Form /\ old \in Seq(Leg) /\ Numbered(old) /\ Len(old) \in Nat
  BY InStep, ShownLegsTyped
<1>2. f = [form EXCEPT !.legs = legs]
  OBVIOUS
<1> HIDE DEF old
<1>3. e \in Leg /\ e.seq = Len(old) /\ e.name = None
  BY <1>1, EmptyLegTyped
<1> HIDE DEF e
<1>4. /\ legs \in Seq(Leg) /\ DOMAIN legs = 1 .. Len(old) + 1 /\ legs[Len(old) + 1] = e
      /\ \A j \in 1 .. Len(old) : legs[j] = old[j]
  BY <1>1, <1>3
<1> HIDE DEF legs
<1>5. Numbered(legs)
  BY <1>1, <1>3, <1>4 DEF Numbered
<1>6. \A h : h = [form EXCEPT !.legs = legs] =>
               h \in Form /\ h.mode = form.mode /\ h.legs = legs /\ h.dest = form.dest
  BY <1>1, <1>4, LegsReplaced
<1>7. f \in Form /\ f.mode = form.mode /\ f.legs = legs /\ f.dest = form.dest
  BY <1>2, <1>6, Zenon
<1>8. ASSUME NEW j \in 1 .. Len(old)
      PROVE  LegNamed(old[j], vouched, kept)
  <2>1. CASE form.legs = <<>>
    <3>1. old = <<emptyLeg(0)>>
      BY <2>1 DEF old, ShownLegs
    <3>2. j = 1 /\ old[j].name = None
      BY <3>1, EmptyLegTyped
    <3> QED
      BY <3>2 DEF LegNamed
  <2>2. CASE form.legs # <<>>
    BY <1>1, <2>2 DEF old, ShownLegs, WizardInv, FormFits
  <2> QED
    BY <2>1, <2>2
<1>9. ASSUME NEW j \in DOMAIN f.legs
      PROVE  LegNamed(f.legs[j], vouched, kept)
  <2>1. CASE j = Len(old) + 1
    BY <1>3, <1>4, <1>7, <2>1 DEF LegNamed
  <2>2. CASE j # Len(old) + 1
    BY <1>1, <1>4, <1>7, <1>8, <2>2
  <2> QED
    BY <2>1, <2>2
<1> QED
  BY <1>0, <1>5, <1>7, <1>9, PreparedLegs

\* A leg is removed: the rest move up, are numbered again and keep what they have.
LEMMA PreparedRemove ==
    ASSUME WizardInv, form.mode = "scheduled", step \in {"config", "edit"},
           NEW i \in DOMAIN form.legs, NEW f, f = [form EXCEPT !.legs = legsWithout(@, i)]
    PROVE  Prepared(f, step, FALSE, vouched) /\ f.mode = form.mode
<1> DEFINE old  == form.legs
           rest == RemoveAt(old, i)
           from(j) == IF j < i THEN j ELSE j + 1
           legs == legsWithout(old, i)
<1>0. form.mode \notin Singles /\ form.mode # None
  BY DEF Singles, None
<1>1. form \in Form /\ old \in Seq(Leg) /\ i \in 1 .. Len(old) /\ Len(old) \in Nat
  BY InStep
<1>2. f = [form EXCEPT !.legs = legs]
  OBVIOUS
<1> HIDE DEF old
<1>3. /\ rest \in Seq(Leg) /\ DOMAIN rest = 1 .. Len(old) - 1
      /\ \A j \in 1 .. Len(old) - 1 : rest[j] = old[from(j)]
  <2>1. /\ SubSeq(old, 1, i - 1) \in Seq(Leg) /\ Len(SubSeq(old, 1, i - 1)) = i - 1
        /\ \A j \in 1 .. i - 1 : SubSeq(old, 1, i - 1)[j] = old[j]
    BY <1>1
  <2>2. /\ SubSeq(old, i + 1, Len(old)) \in Seq(Leg)
        /\ Len(SubSeq(old, i + 1, Len(old))) = Len(old) - i
        /\ \A j \in 1 .. Len(old) - i : SubSeq(old, i + 1, Len(old))[j] = old[j + i]
    BY <1>1
  <2> DEFINE a == SubSeq(old, 1, i - 1)
             b == SubSeq(old, i + 1, Len(old))
  <2>3. rest = a \o b
    BY DEF RemoveAt
  <2> HIDE DEF a, b, rest
  <2>4. a \in Seq(Leg) /\ b \in Seq(Leg) /\ Len(a) = i - 1 /\ Len(b) = Len(old) - i
    BY <2>1, <2>2 DEF a, b
  <2>5. rest \in Seq(Leg) /\ Len(rest) = Len(old) - 1
    BY <1>1, <2>3, <2>4
  <2>6. ASSUME NEW j \in 1 .. Len(old) - 1 PROVE rest[j] = old[from(j)]
    <3>1. CASE j < i
      <4>1. j \in 1 .. Len(a) /\ rest[j] = a[j]
        BY <1>1, <2>3, <2>4, <3>1
      <4> QED
        BY <2>1, <2>4, <3>1, <4>1 DEF a
    <3>2. CASE ~(j < i)
      <4>1. j - Len(a) \in 1 .. Len(b) /\ rest[j] = b[j - Len(a)] /\ j - Len(a) + i = j + 1
        BY <1>1, <2>3, <2>4, <3>2
      <4> QED
        BY <2>2, <2>4, <3>2, <4>1 DEF b
    <3> QED
      BY <3>1, <3>2
  <2> QED
    BY <2>5, <2>6
<1>4. ASSUME NEW j \in 1 .. Len(old) - 1
      PROVE  from(j) \in DOMAIN old
  BY <1>1
<1>5. legs = [j \in DOMAIN rest |-> [rest[j] EXCEPT !.seq = j - 1]]
  BY DEF legsWithout
<1> HIDE DEF rest, legs, from
<1>6. ASSUME NEW j \in 1 .. Len(old) - 1
      PROVE  /\ legs[j] \in Leg /\ legs[j].seq = j - 1
             /\ legs[j].name = old[from(j)].name /\ legs[j].d = old[from(j)].d
  <2> DEFINE leg == rest[j]
  <2>1. leg \in Leg /\ j - 1 \in Nat /\ legs[j] = [leg EXCEPT !.seq = j - 1]
    BY <1>1, <1>3, <1>5
  <2> HIDE DEF leg
  <2>2. legs[j] \in Leg /\ legs[j].seq = j - 1 /\ legs[j].name = leg.name /\ legs[j].d = leg.d
    BY <2>1 DEF Leg
  <2> QED
    BY <1>3, <2>2 DEF leg
<1>7. legs \in Seq(Leg) /\ DOMAIN legs = 1 .. Len(old) - 1 /\ Numbered(legs)
  <2>1. Len(old) - 1 \in Nat /\ DOMAIN legs = 1 .. Len(old) - 1
    BY <1>1, <1>3, <1>5
  <2>2. legs \in [1 .. Len(old) - 1 -> Leg]
    BY <1>3, <1>5, <1>6
  <2> QED
    BY <1>6, <2>1, <2>2 DEF Numbered
<1>8. \A h : h = [form EXCEPT !.legs = legs] =>
               h \in Form /\ h.mode = form.mode /\ h.legs = legs /\ h.dest = form.dest
  BY <1>1, <1>7, LegsReplaced
<1>9. f \in Form /\ f.mode = form.mode /\ f.legs = legs /\ f.dest = form.dest
  BY <1>2, <1>8, Zenon
<1>10. ASSUME NEW j \in DOMAIN f.legs
       PROVE  LegNamed(f.legs[j], vouched, kept)
  <2>1. j \in 1 .. Len(old) - 1
    BY <1>7, <1>9
  <2>2. LegNamed(old[from(j)], vouched, kept)
    BY <1>4, <2>1 DEF old, WizardInv, FormFits
  <2> QED
    BY <1>6, <1>9, <2>1, <2>2 DEF LegNamed
<1> QED
  BY <1>0, <1>7, <1>9, <1>10, PreparedLegs

\* A lookup's answer waits for a render, and what is known grows.
LEMMA LookupInv ==
    ASSUME WizardInv, NEW i \in DOMAIN cards, lookupAnswers(i)
    PROVE  WizardInv'
<1>1. PICK ok \in BOOLEAN :
         /\ cards' = [cards EXCEPT ![i].landed = IF ok THEN cards[i].at ELSE "error"]
         /\ vouched' = IF ok THEN vouched \union {cards[i].at} ELSE vouched
  BY DEF lookupAnswers
<1>2. /\ cards[i].looking /\ UNCHANGED <<step, form, sub, pot, edits, submits, kept, saved>>
  BY DEF lookupAnswers
<1> DEFINE land == IF ok THEN cards[i].at ELSE "error"
           card == cards[i]
<1>3. card \in Card /\ card.at \in Accounts /\ CardTrue(card, vouched)
  BY <1>2, InStep DEF CardTrue
<1>4. vouched \subseteq vouched' /\ land \in Accounts \union {"error"}
      /\ (land \in Accounts => land = card.at /\ land \in vouched')
  BY <1>1, <1>3, Marks
<1>5. FormFits(form', vouched', kept')
  BY <1>2, <1>4 DEF WizardInv, FormFits, SlotNamed, LegNamed
<1>6. DOMAIN cards' = DOMAIN cards /\ \A j \in DOMAIN cards : j # i => cards'[j] = cards[j]
  BY <1>1
<1>7. cards'[i] = [card EXCEPT !.landed = land]
  BY <1>1
<1> HIDE DEF land, card
<1>8. /\ cards'[i] \in Card /\ cards'[i].at = card.at /\ cards'[i].confirmed = card.confirmed
      /\ cards'[i].looking = card.looking /\ cards'[i].landed = land
  BY <1>3, <1>4, <1>7 DEF Card
<1>9. CardTrue(cards'[i], vouched') /\ confirmedName(cards'[i]) = confirmedName(card)
  BY <1>3, <1>4, <1>8 DEF CardTrue, confirmedName
<1>10. ASSUME NEW j \in DOMAIN cards
       PROVE  CardTrue(cards'[j], vouched') /\ CardShows(cards'[j], form, j, kept)
  <2>1. CardTrue(cards[j], vouched) /\ CardShows(cards[j], form, j, kept)
    BY InStep
  <2>2. CASE j = i
    BY <1>8, <1>9, <2>1, <2>2 DEF card, CardShows
  <2>3. CASE j # i
    BY <1>4, <1>6, <2>1, <2>3 DEF CardTrue
  <2> QED
    BY <2>2, <2>3
<1>11. CardsFit'
  <2>1. DOMAIN cards' = Cards(form, step) /\ DOMAIN cards = Cards(form, step)
    BY <1>6, InStep
  <2>2. cards' = [j \in DOMAIN cards' |-> cards'[j]]
    BY <1>1 DEF WizardInv, CardsFit
  <2> QED
    BY <1>2, <1>10, <2>1, <2>2 DEF CardsFit
<1>12. StepFits' /\ RequestFits'
  BY <1>2 DEF WizardInv, StepFits, RequestFits
<1>13. SubmittedWasConfirmed' /\ SavedAsShown'
  BY <1>2, <1>4, StaysConfirmed, StaysSaved DEF WizardInv
<1> QED
  BY <1>2, <1>5, <1>11, <1>12, <1>13 DEF WizardInv

\* A commit of a form that is in step with the cards.
LEMMA PatchInv ==
    ASSUME WizardInv, NEW f, Prepared(f, step, FALSE, vouched), Commit(f, step, FALSE),
           UNCHANGED <<sub, pot, vouched, saved>>, step # "review"
    PROVE  WizardInv'
<1>1. (step \in {"edit", "preview"} => isDraft(pot)) /\ (step = "pot" => sub.pc = "idle")
  BY DEF WizardInv, StepFits
<1> QED
  BY <1>1, PageCommits

\* What has come is rendered: only a page with cards waits for something.
LEMMA RenderInv ==
    ASSUME WizardInv, render
    PROVE  WizardInv'
<1>1. Commit(form, step, FALSE) /\ UNCHANGED <<sub, pot, vouched, saved>> /\ DOMAIN cards # {}
  BY DEF render
<1>2. Prepared(form, step, FALSE, vouched)
  BY PreparedOther, InStep
<1>3. step # "review"
  BY <1>1, InStep DEF Cards
<1> QED
  BY <1>1, <1>2, <1>3, PatchInv

\* The fields that no card is about.
LEMMA OtherEdited ==
    ASSUME WizardInv, NEW f \in Form, f.mode = form.mode, f.dest = form.dest, f.legs = form.legs,
           Patch(f), step # "review"
    PROVE  WizardInv'
<1>1. Prepared(f, step, FALSE, vouched)
  BY PreparedOther
<1> QED
  BY <1>1, PatchInv DEF Patch

\* What is typed is an amount.
LEMMA TypedAmount == Typed \union {Blank} \subseteq Amount
<1>1. Blank \in Amount
  BY DEF Amount, Blank
<1>2. ASSUME NEW raw \in Typed PROVE raw \in Amount
  BY WizardAssumption DEF Amount
<1> QED
  BY <1>1, <1>2

\* The title and the limit.
LEMMA BasicsInv ==
    ASSUME WizardInv, BasicsStep
    PROVE  WizardInv'
<1>1. step # "review" /\ form \in Form
  BY InStep DEF BasicsStep, Edited
<1>2. CASE Patch([form EXCEPT !.titled = ~@])
  <2> DEFINE t == ~form.titled
             f == [form EXCEPT !.titled = t]
  <2>1. t \in BOOLEAN
    OBVIOUS
  <2>2. Patch(f)
    BY <1>2
  <2> HIDE DEF t
  <2>3. f \in Form /\ f.mode = form.mode /\ f.dest = form.dest /\ f.legs = form.legs
    BY <1>1, <2>1 DEF Form
  <2> HIDE DEF f
  <2> QED
    BY <1>1, <2>2, <2>3, OtherEdited
<1>3. ASSUME NEW raw \in Typed \union {Blank}, Patch([form EXCEPT !.min = raw])
      PROVE  WizardInv'
  <2> DEFINE f == [form EXCEPT !.min = raw]
  <2>1. f \in Form /\ f.mode = form.mode /\ f.dest = form.dest /\ f.legs = form.legs
    BY <1>1, TypedAmount DEF Form
  <2>2. Patch(f)
    BY <1>3
  <2> HIDE DEF f
  <2> QED
    BY <1>1, <2>1, <2>2, OtherEdited
<1> QED
  BY <1>2, <1>3 DEF BasicsStep

\* The destination of a single payout.
LEMMA DestinationInv ==
    ASSUME WizardInv, form.mode \in Singles, step \in {"config", "edit"}, destinationEdited
    PROVE  WizardInv'
<1>1. PICK d \in Destinations : Patch(setSlot(form, 1, "d", d))
  BY DEF destinationEdited
<1> DEFINE f == setSlot(form, 1, "d", d)
<1>2. \A g : g = setSlot(form, 1, "d", d) => Prepared(g, step, FALSE, vouched)
  BY PreparedDest
<1>3. Prepared(f, step, FALSE, vouched) /\ Patch(f)
  BY <1>1, <1>2
<1> HIDE DEF f
<1> QED
  BY <1>3, PatchInv DEF Patch

\* The amount of a single payout.
LEMMA AmountInv ==
    ASSUME WizardInv, form.mode \in Singles, step \in {"config", "edit"}, amountEdited
    PROVE  WizardInv'
<1>1. PICK raw \in Typed \union {Blank} : Patch([form EXCEPT !.amount[form.mode] = raw])
  BY DEF amountEdited
<1> DEFINE a == [form.amount EXCEPT ![form.mode] = raw]
           f == [form EXCEPT !.amount = a]
<1>2. form \in Form /\ raw \in Amount
  BY InStep, TypedAmount
<1>3. a \in [Singles -> Amount]
  BY <1>2 DEF Form
<1>4. Patch(f)
  BY <1>1
<1> HIDE DEF a
<1>5. f \in Form /\ f.mode = form.mode /\ f.dest = form.dest /\ f.legs = form.legs
  BY <1>2, <1>3 DEF Form
<1> HIDE DEF f
<1> QED
  BY <1>4, <1>5, OtherEdited

\* The date of a single payout.
LEMMA DateInv ==
    ASSUME WizardInv, form.mode \in Singles, step \in {"config", "edit"}, dateEdited
    PROVE  WizardInv'
<1>1. PICK date \in Dates \union {None} : Patch([form EXCEPT !.date[form.mode] = date])
  BY DEF dateEdited
<1> DEFINE a == [form.date EXCEPT ![form.mode] = date]
           f == [form EXCEPT !.date = a]
<1>2. form \in Form /\ date \in Day
  BY InStep DEF Day
<1>3. a \in [Singles -> Day]
  BY <1>2 DEF Form
<1>4. Patch(f)
  BY <1>1
<1> HIDE DEF a
<1>5. f \in Form /\ f.mode = form.mode /\ f.dest = form.dest /\ f.legs = form.legs
  BY <1>2, <1>3 DEF Form
<1> HIDE DEF f
<1> QED
  BY <1>4, <1>5, OtherEdited

\* The config steps of the modes with one destination.
LEMMA SingleStepsInv ==
    ASSUME WizardInv, TargetBasedConfigStep \/ ManualConfigStep \/ RecurringConfigStep
    PROVE  WizardInv'
<1>1. form.mode \in Singles /\ step \in {"config", "edit"}
  BY DEF TargetBasedConfigStep, ManualConfigStep, RecurringConfigStep, Edited, Singles
<1>2. ASSUME NEW days \in {0, 30}, Patch([form EXCEPT !.interval = days])
      PROVE  WizardInv'
  <2> DEFINE f == [form EXCEPT !.interval = days]
  <2>1. f \in Form /\ f.mode = form.mode /\ f.dest = form.dest /\ f.legs = form.legs
    BY InStep DEF Form
  <2>2. Patch(f)
    BY <1>2
  <2> HIDE DEF f
  <2> QED
    BY <1>1, <2>1, <2>2, OtherEdited
<1> QED
  BY <1>1, <1>2, DestinationInv, AmountInv, DateInv
     DEF TargetBasedConfigStep, ManualConfigStep, RecurringConfigStep

\* Whether the legs wait for one another.
LEMMA OrderedInv ==
    ASSUME WizardInv, ScheduledConfigStep
    PROVE  WizardInv'
<1> DEFINE t == ~form.ordered
           f == [form EXCEPT !.ordered = t]
<1>1. t \in BOOLEAN /\ Patch(f) /\ step # "review"
  BY DEF ScheduledConfigStep, Edited
<1> HIDE DEF t
<1>2. f \in Form /\ f.mode = form.mode /\ f.dest = form.dest /\ f.legs = form.legs
  BY <1>1, InStep DEF Form
<1> HIDE DEF f
<1> QED
  BY <1>1, <1>2, OtherEdited

\* The fields of a leg,
LEMMA LegCardInv ==
    ASSUME WizardInv, NEW i \in DOMAIN cards, LegCard(i)
    PROVE  WizardInv'
<1>1. form.mode = "scheduled" /\ step \in {"config", "edit"}
  BY DEF LegCard, Edited
<1>2. ASSUME NEW field, NEW value,
           \/ field = "d" /\ value \in Destinations
           \/ field = "amount" /\ value \in Amount
           \/ field = "date" /\ value \in Day,
           Patch(updateLeg(form, i, field, value))
      PROVE  WizardInv'
  <2> DEFINE f == updateLeg(form, i, field, value)
  <2>1. \A g : g = updateLeg(form, i, field, value) => Prepared(g, step, FALSE, vouched)
    BY <1>1, <1>2, PreparedLeg
  <2>2. Prepared(f, step, FALSE, vouched) /\ Patch(f)
    BY <1>2, <2>1
  <2> HIDE DEF f
  <2> QED
    BY <1>1, <2>2, PatchInv DEF Patch
<1>3. CASE \E d \in Destinations : Patch(updateLeg(form, i, "d", d))
  BY <1>2, <1>3
<1>4. CASE \E raw \in Typed \union {Blank} : Patch(updateLeg(form, i, "amount", raw))
  BY <1>2, <1>4, TypedAmount
<1>5. CASE \E date \in Dates \union {None} : Patch(updateLeg(form, i, "date", date))
  BY <1>2, <1>5 DEF Day
<1> QED
  BY <1>3, <1>4, <1>5 DEF LegCard

\* a leg more,
LEMMA AddLegInv ==
    ASSUME WizardInv, addLeg
    PROVE  WizardInv'
<1> DEFINE f == [form EXCEPT !.legs = Append(ShownLegs(form), emptyLeg(Len(ShownLegs(form))))]
<1>1. form.mode = "scheduled" /\ step \in {"config", "edit"} /\ Patch(f)
  BY DEF addLeg, Edited, ShownLegs
<1>2. \A g : g = [form EXCEPT !.legs = Append(ShownLegs(form), emptyLeg(Len(ShownLegs(form))))]
               => Prepared(g, step, FALSE, vouched)
  BY <1>1, PreparedAdd
<1>3. Prepared(f, step, FALSE, vouched)
  BY <1>2
<1> HIDE DEF f
<1> QED
  BY <1>1, <1>3, PatchInv DEF Patch

\* and a leg less.
LEMMA RemoveLegInv ==
    ASSUME WizardInv, NEW i, removeLeg(i)
    PROVE  WizardInv'
<1> DEFINE f == [form EXCEPT !.legs = legsWithout(@, i)]
<1>1. /\ form.mode = "scheduled" /\ step \in {"config", "edit"} /\ Patch(f)
      /\ i \in DOMAIN form.legs
  BY DEF removeLeg, Edited
<1>2. \A g : g = [form EXCEPT !.legs = legsWithout(@, i)] => Prepared(g, step, FALSE, vouched)
  BY <1>1, PreparedRemove
<1>3. Prepared(f, step, FALSE, vouched)
  BY <1>2
<1> HIDE DEF f
<1> QED
  BY <1>1, <1>3, PatchInv DEF Patch

\* Another mode: its cards are new ones.
LEMMA ModeInv ==
    ASSUME WizardInv, NEW m \in Modes, PayoutModeStep(m)
    PROVE  WizardInv'
<1> DEFINE f == [form EXCEPT !.mode = m]
<1>1. /\ step \in {"mode", "edit"} /\ Commit(f, step, TRUE)
      /\ UNCHANGED <<sub, pot, vouched, saved>>
  BY DEF PayoutModeStep, Edited
<1>2. f \in Form /\ f.dest = form.dest /\ f.legs = form.legs
  BY InStep DEF Form
<1> HIDE DEF f
<1>3. FormFits(f, vouched, kept)
  BY <1>2 DEF WizardInv, FormFits
<1>4. Prepared(f, step, TRUE, vouched)
  BY <1>3, PreparedToMount
<1>5. step \in {"edit", "preview"} => isDraft(pot)
  BY DEF WizardInv, StepFits
<1> QED
  BY <1>1, <1>4, <1>5, PageCommits

\* The wizard goes from one step to the next or the one before, and the edit page from one
\* tab to the other.
LEMMA PageInv ==
    ASSUME WizardInv, goNext \/ goBack \/ tabChosen
    PROVE  WizardInv'
<1>1. Prepared(form, step, TRUE, vouched) /\ \A s : Prepared(form, s, TRUE, vouched)
  BY PreparedToMount DEF WizardInv
<1>2. InWizard => /\ stepIndex \in 1 .. 4 /\ wizardSteps[stepIndex] = step
  <2>1. SUFFICES ASSUME InWizard PROVE stepIndex \in 1 .. 4 /\ wizardSteps[stepIndex] = step
    OBVIOUS
  <2>2. DOMAIN wizardSteps = 1 .. 4
    BY DEF wizardSteps
  <2>3. \E i \in DOMAIN wizardSteps : wizardSteps[i] = step
    BY <2>1 DEF InWizard, Range
  <2> QED
    BY <2>2, <2>3 DEF stepIndex
<1>3. CASE goNext
  <2> DEFINE s == wizardSteps[stepIndex + 1]
  <2>1. /\ Commit(form, s, TRUE) /\ UNCHANGED <<sub, pot, vouched, saved>>
        /\ InWizard /\ canAdvance
    BY <1>3 DEF goNext
  <2>2. step \in {"basics", "mode", "config"} /\ (step = "config" => isConfigStepValid(form))
    BY <2>1 DEF canAdvance
  <2>3. s \in {"mode", "config", "review"} /\ (s = "review" => step = "config")
    BY <1>2, <2>1, <2>2 DEF wizardSteps
  <2> HIDE DEF s
  <2> QED
    BY <1>1, <2>1, <2>2, <2>3, PageCommits
<1>4. CASE goBack
  <2> DEFINE s == wizardSteps[stepIndex - 1]
  <2>1. /\ Commit(form, s, TRUE) /\ UNCHANGED <<sub, pot, vouched, saved>>
        /\ InWizard /\ step # "basics"
    BY <1>4 DEF goBack
  <2>2. s \in {"basics", "mode", "config"}
    BY <1>2, <2>1 DEF wizardSteps
  <2> HIDE DEF s
  <2> QED
    BY <1>1, <2>1, <2>2, PageCommits
<1>5. CASE tabChosen
  <2> DEFINE s == IF step = "edit" THEN "preview" ELSE "edit"
  <2>1. /\ Commit(form, s, TRUE) /\ UNCHANGED <<sub, pot, vouched, saved>>
        /\ step \in {"edit", "preview"} /\ s \in {"edit", "preview"}
    BY <1>5 DEF tabChosen
  <2>2. isDraft(pot)
    BY <2>1 DEF WizardInv, StepFits
  <2> HIDE DEF s
  <2> QED
    BY <1>1, <2>1, <2>2, PageCommits
<1> QED
  BY <1>3, <1>4, <1>5

\* Legs that are numbered are read back in the order in which they were written.
THEOREM ReadInOrder ==
    ASSUME NEW S, NEW legs \in Seq(S), Numbered(legs)
    PROVE  inSequenceOrder(legs) = legs
<1> DEFINE D == DOMAIN legs
           Sorted(p) == \A i, j \in D : i < j => legs[p[i]].seq <= legs[p[j]].seq
           id == [i \in D |-> i]
           sorted == CHOOSE p \in Bijection(D, D) : Sorted(p)
<1>0. legs = [i \in D |-> legs[i]]
  OBVIOUS
<1>1. D = 1 .. Len(legs) /\ Len(legs) \in Nat
  OBVIOUS
<1>2. \A i \in D : legs[i].seq = i - 1
  BY DEF Numbered
<1> HIDE DEF D
<1>3. id \in Bijection(D, D) /\ Sorted(id)
  <2>1. id \in [D -> D] /\ \A i \in D : id[i] = i
    OBVIOUS
  <2> HIDE DEF id
  <2>2. id \in Bijection(D, D)
    BY <2>1 DEF Bijection, Injection, Surjection, IsInjective
  <2>3. ASSUME NEW i \in D, NEW j \in D, i < j
        PROVE  legs[id[i]].seq <= legs[id[j]].seq
    <3>1. legs[id[i]].seq = i - 1 /\ legs[id[j]].seq = j - 1
      BY <1>2, <2>1
    <3> QED
      BY <1>1, <2>3, <3>1
  <2> QED
    BY <2>2, <2>3
<1>4. sorted \in Bijection(D, D) /\ Sorted(sorted)
  BY <1>3
<1>5. inSequenceOrder(legs) = [i \in D |-> legs[sorted[i]]]
  BY DEF inSequenceOrder, D
<1> HIDE DEF sorted, id
<1>6. /\ sorted \in [D -> D] /\ \A k \in D : \E i \in D : sorted[i] = k
      /\ \A i, j \in D : sorted[i] = sorted[j] => i = j
  BY <1>4 DEF Bijection, Injection, Surjection, IsInjective
<1>7. ASSUME NEW i \in D, NEW j \in D, i < j
      PROVE  sorted[i] < sorted[j]
  <2>0. sorted[i] \in D /\ sorted[j] \in D
    BY <1>6
  <2>1. legs[sorted[i]].seq <= legs[sorted[j]].seq
    BY <1>4, <1>7
  <2>2. sorted[i] - 1 <= sorted[j] - 1 /\ i # j
    <3>1. legs[sorted[i]].seq = sorted[i] - 1 /\ legs[sorted[j]].seq = sorted[j] - 1
      BY <1>2, <2>0
    <3> QED
      BY <1>1, <1>7, <2>0, <2>1, <3>1
  <2>3. sorted[i] # sorted[j]
    BY <1>6, <2>2
  <2> QED
    BY <1>1, <2>0, <2>2, <2>3
<1>8. ASSUME NEW k \in D, sorted[k] # k
      PROVE  FALSE
  <2> DEFINE T == {i \in D : sorted[i] # i}
  <2>1. T \in SUBSET Nat /\ T # {}
    BY <1>1, <1>8
  <2>2. PICK i \in T : \A l \in T : ~(<<l, i>> \in OpToRel(<, Nat))
    BY <2>1, NatLessThanWellFounded, WFMin
  <2>3. ASSUME NEW l \in T, l < i
        PROVE  FALSE
    <3>1. l \in Nat /\ i \in Nat
      BY <2>1
    <3> QED
      BY <2>2, <2>3, <3>1 DEF OpToRel
  <2>4. i \in D /\ sorted[i] # i /\ sorted[i] \in D
    BY <1>6
  <2>5. \A l \in D : l < i => sorted[l] = l
    BY <2>3
  <2>6. PICK j \in D : sorted[j] = i
    BY <1>6, <2>4
  <2>7. j # i /\ ~(j < i)
    BY <2>4, <2>5, <2>6
  <2>8. i < j
    BY <1>1, <2>4, <2>7
  <2>9. sorted[i] < i
    BY <1>7, <2>4, <2>6, <2>8
  <2>10. sorted[sorted[i]] = sorted[i]
    BY <2>4, <2>5, <2>9
  <2> QED
    BY <1>6, <2>4, <2>10
<1>9. [i \in D |-> legs[sorted[i]]] = [i \in D |-> legs[i]]
  BY <1>8, Zenon
<1> QED
  BY <1>0, <1>5, <1>9

\* An amount on the wire is a number of kobo; none at all is a positive amount that ends in
\* a point or is less than a kobo.
LEMMA OnTheWire ==
    ASSUME NEW raw \in Amount
    PROVE  /\ toNairaAmount(raw) \in Nat \union {Null} /\ wireAmount(raw) \in Nat
           /\ limitInput(raw) \in Nat \union {Null}
           /\ wireAmount(raw) # 0 => toNairaAmount(raw) = wireAmount(raw)
           /\ ~raw.blank /\ ~raw.point => 10 * wireAmount(raw) <= raw.tenths
                                        /\ raw.tenths < 10 * wireAmount(raw) + 10
<1>1. raw.tenths \in Nat /\ raw.blank \in BOOLEAN /\ raw.point \in BOOLEAN
  BY DEF Amount
<1> DEFINE k == raw.tenths \div 10
<1>2. k \in Nat /\ 10 * k <= raw.tenths /\ raw.tenths < 10 * k + 10 /\ k # -1
  BY <1>1
<1>3. toNairaAmount(raw) = IF raw.blank \/ raw.point THEN Null ELSE k
  BY DEF toNairaAmount
<1> HIDE DEF k
<1> QED
  BY <1>2, <1>3 DEF wireAmount, limitInput, Null

\* A stored amount that is shown is sent as it is stored.
LEMMA ShownAmount ==
    ASSUME NEW kobo \in Nat \union {Null}
    PROVE  toWizardAmount(kobo) \in Amount /\ toNairaAmount(toWizardAmount(kobo)) = kobo
<1>1. CASE kobo = Null
  BY <1>1 DEF toWizardAmount, toNairaAmount, Blank, Amount
<1>2. CASE kobo \in Nat
  <2>1. kobo # Null /\ (10 * kobo) \div 10 = kobo /\ 10 * kobo \in Nat
    BY <1>2 DEF Null
  <2> QED
    BY <2>1 DEF toWizardAmount, toNairaAmount, Amount
<1> QED
  BY <1>1, <1>2

\* The config a request carries is one of its mode, and is stored as it is.
LEMMA ConfigTyped ==
    ASSUME NEW f \in Form, Numbered(f.legs), f.mode \in Modes
    PROVE  LET c == buildPayoutConfig(f) IN
           /\ c \in Configs(f.mode)
           /\ f.mode = "scheduled" =>
                 /\ Numbered(c.legs) /\ DOMAIN c.legs = DOMAIN f.legs /\ c.ordered = f.ordered
                 /\ \A i \in DOMAIN f.legs :
                       /\ c.legs[i].d = f.legs[i].d /\ c.legs[i].date = f.legs[i].date
                       /\ c.legs[i].seq = i - 1 /\ c.legs[i].amount = wireAmount(f.legs[i].amount)
                 /\ [c EXCEPT !.legs = inSequenceOrder(@)] = c
<1> DEFINE c == buildPayoutConfig(f)
<1>1. /\ f.dest \in [Singles -> Slot] /\ f.date \in [Singles -> Day] /\ f.amount \in [Singles -> Amount]
      /\ f.interval \in Nat /\ f.ordered \in BOOLEAN /\ f.legs \in Seq(Leg)
  BY DEF Form
<1>2. ASSUME NEW m \in Singles
      PROVE  f.dest[m].d \in Destinations /\ f.date[m] \in Day /\ wireAmount(f.amount[m]) \in Nat
  <2>1. f.dest[m] \in Slot /\ f.amount[m] \in Amount /\ f.date[m] \in Day
    BY <1>1
  <2> QED
    BY <2>1, OnTheWire DEF Slot
<1>3. CASE f.mode = "manual"
  <2>1. c = [d |-> IF Given(f.dest["manual"].d) THEN f.dest["manual"].d ELSE None]
    BY <1>3 DEF buildPayoutConfig
  <2>2. Configs(f.mode) = [d : Destinations \union {None}]
    BY <1>3 DEF Configs
  <2> HIDE DEF c
  <2>3. c \in Configs(f.mode)
    BY <1>2, <2>1, <2>2 DEF Singles
  <2> QED
    BY <1>3, <2>3 DEF c
<1>4. CASE f.mode = "recurring"
  <2>1. c = [d |-> f.dest["recurring"].d, amount |-> wireAmount(f.amount["recurring"]),
             interval |-> f.interval, date |-> f.date["recurring"]]
    BY <1>4 DEF buildPayoutConfig
  <2>2. Configs(f.mode) = [d : Destinations, amount : Nat, interval : Nat, date : Day]
    BY <1>4 DEF Configs, Day
  <2> HIDE DEF c
  <2>3. c \in Configs(f.mode)
    BY <1>1, <1>2, <2>1, <2>2 DEF Singles
  <2> QED
    BY <1>4, <2>3 DEF c
<1>5. CASE f.mode = "target_based"
  <2>1. c = [d |-> f.dest["target_based"].d, date |-> f.date["target_based"],
             amount |-> IF f.amount["target_based"].blank THEN Null
                        ELSE wireAmount(f.amount["target_based"])]
    BY <1>5 DEF buildPayoutConfig
  <2>2. Configs(f.mode) = [d : Destinations, date : Day, amount : Nat \union {Null}]
    BY <1>5 DEF Configs, Day
  <2> HIDE DEF c
  <2>3. c \in Configs(f.mode)
    BY <1>2, <2>1, <2>2 DEF Singles
  <2> QED
    BY <1>5, <2>3 DEF c
<1>6. CASE f.mode = "scheduled"
  <2> DEFINE L == [d : Destinations, seq : Nat, amount : Nat, date : Day]
             legs == [i \in DOMAIN f.legs |-> [d |-> f.legs[i].d, seq |-> f.legs[i].seq,
                        amount |-> wireAmount(f.legs[i].amount), date |-> f.legs[i].date]]
  <2>1. c = [ordered |-> f.ordered, legs |-> legs]
    BY <1>6 DEF buildPayoutConfig
  <2>2. Configs(f.mode) = [ordered : BOOLEAN, legs : Seq(L)]
    BY <1>6 DEF Configs, Day
  <2>3. ASSUME NEW i \in DOMAIN f.legs
        PROVE  /\ legs[i] \in L /\ legs[i].d = f.legs[i].d /\ legs[i].date = f.legs[i].date
               /\ legs[i].seq = i - 1 /\ legs[i].amount = wireAmount(f.legs[i].amount)
    <3>1. f.legs[i] \in Leg /\ f.legs[i].seq = i - 1
      BY <1>1 DEF Numbered
    <3>2. f.legs[i].d \in Destinations /\ f.legs[i].date \in Day /\ f.legs[i].amount \in Amount
          /\ f.legs[i].seq \in Nat
      BY <3>1 DEF Leg
    <3>3. wireAmount(f.legs[i].amount) \in Nat
      BY <3>2, OnTheWire
    <3> QED
      BY <3>1, <3>2, <3>3
  <2>4. DOMAIN legs = DOMAIN f.legs /\ legs \in [DOMAIN f.legs -> L]
    BY <2>3
  <2> HIDE DEF c, legs, L
  <2>5. legs \in Seq(L)
    <3>1. DOMAIN f.legs = 1 .. Len(f.legs) /\ Len(f.legs) \in Nat
      BY <1>1
    <3> QED
      BY <2>4, <3>1
  <2>6. Numbered(legs)
    BY <2>3, <2>4 DEF Numbered
  <2>7. inSequenceOrder(legs) = legs
    BY <2>5, <2>6, ReadInOrder
  <2>8. c.legs = legs /\ c.ordered = f.ordered /\ c \in Configs(f.mode)
    BY <1>1, <2>1, <2>2, <2>5
  <2>9. [c EXCEPT !.legs = inSequenceOrder(@)] = c
    BY <2>1, <2>7
  <2> QED
    BY <2>3, <2>4, <2>6, <2>8, <2>9 DEF c
<1> QED
  BY <1>3, <1>4, <1>5, <1>6 DEF Modes, Singles

\* A valid form has a mode.
LEMMA ValidHasMode ==
    ASSUME NEW f, isConfigStepValid(f)
    PROVE  f.mode \in Modes
BY DEF isConfigStepValid, Modes, Singles

\* What a request brings is fit to be a draft's.
LEMMA RequestTyped ==
    ASSUME NEW s, MadeFrom(s)
    PROVE  /\ s.mode \in Modes /\ s.min \in Nat \union {Null} /\ storedConfig(s) = s.config
           /\ s.config \in Configs(s.mode) /\ (s.mode = "scheduled" => Numbered(s.config.legs))
<1>1. s.form \in Form /\ Numbered(s.form.legs) /\ s.mode \in Modes /\ s.mode = s.form.mode
  BY ValidHasMode DEF MadeFrom
<1>2. s.min \in Nat \union {Null}
  <2>1. s.form.min \in Amount
    BY <1>1 DEF Form
  <2> QED
    BY <2>1, OnTheWire DEF MadeFrom
<1>3. s.config = buildPayoutConfig(s.form)
  BY DEF MadeFrom
<1> QED
  BY <1>1, <1>2, <1>3, ConfigTyped DEF storedConfig

\* The empty form has no names, and fits with anything known.
LEMMA InitialFits ==
    ASSUME NEW known, NEW old
    PROVE  FormFits(initialWizardState, known, old)
<1> DEFINE f == initialWizardState
<1>1. Blank \in Amount
  BY DEF Blank, Amount
<1>2. /\ f.dest \in [Singles -> Slot] /\ f.date \in [Singles -> Day] /\ f.amount \in [Singles -> Amount]
      /\ \A m \in Singles : f.dest[m].name = None
  BY <1>1 DEF initialWizardState, Slot, Name, Destinations, Day
<1>3. f.legs = <<>> /\ <<>> \in Seq(Leg)
  BY DEF initialWizardState
<1> DEFINE dest == f.dest
           date == f.date
           amount == f.amount
<1>4. f = [titled |-> FALSE, min |-> Blank, mode |-> None, dest |-> dest, date |-> date,
           amount |-> amount, interval |-> 30, ordered |-> TRUE, legs |-> <<>>]
  BY DEF initialWizardState
<1> HIDE DEF f, dest, date, amount
<1>5. f \in Form
  <2>1. dest \in [Singles -> Slot] /\ date \in [Singles -> Day] /\ amount \in [Singles -> Amount]
    BY <1>2 DEF dest, date, amount
  <2> DEFINE none == <<>>
  <2>2. none \in Seq(Leg)
    BY <1>3
  <2>3. f = [titled |-> FALSE, min |-> Blank, mode |-> None, dest |-> dest, date |-> date,
             amount |-> amount, interval |-> 30, ordered |-> TRUE, legs |-> none]
    BY <1>4
  <2> HIDE DEF none
  <2> QED
    BY <1>1, <2>1, <2>2, <2>3 DEF Form
<1>6. Numbered(f.legs) /\ \A i \in DOMAIN f.legs : LegNamed(f.legs[i], known, old)
  BY <1>3 DEF Numbered
<1> QED
  BY <1>2, <1>5, <1>6 DEF FormFits, SlotNamed, f

\* A draft's config that is there, by mode.
LEMMA DraftConfig ==
    ASSUME NEW p, isDraft(p), p.config # NoConfig
    PROVE  /\ p.mode \in Modes /\ p.min \in Nat \union {Null}
           /\ p.mode = "manual" => p.config \in [d : Destinations]
           /\ p.mode = "recurring" =>
                 p.config \in [d : Destinations, amount : Nat, interval : Nat, date : Day]
           /\ p.mode = "target_based" =>
                 p.config \in [d : Destinations, date : Day, amount : Nat \union {Null}]
           /\ p.mode = "scheduled" =>
                 /\ Numbered(p.config.legs)
                 /\ p.config \in [ordered : BOOLEAN,
                                  legs : Seq([d : Destinations, seq : Nat, amount : Nat, date : Day])]
<1>1. p.config \in Configs(p.mode) /\ (p.mode = "scheduled" => Numbered(p.config.legs))
  BY DEF isDraft
<1>2. p.mode \in Modes /\ p.min \in Nat \union {Null}
  BY DEF isDraft
<1>3. CASE p.mode = "manual"
  <2> DEFINE c == p.config
  <2>1. c \in [d : Destinations \union {None}] /\ c # [d |-> None]
    BY <1>1, <1>3 DEF Configs, NoConfig
  <2> HIDE DEF c
  <2>2. c = [d |-> c.d]
    BY <2>1
  <2>3. c.d # None
    BY <2>1, <2>2
  <2>4. c \in [d : Destinations]
    BY <2>1, <2>3
  <2> QED
    BY <1>2, <1>3, <2>4 DEF c
<1>4. CASE p.mode = "recurring"
  <2>1. p.config \in [d : Destinations, amount : Nat, interval : Nat, date : Day]
    BY <1>1, <1>4 DEF Configs, Day
  <2> QED
    BY <1>2, <1>4, <2>1
<1>5. CASE p.mode = "target_based"
  <2>1. p.config \in [d : Destinations, date : Day, amount : Nat \union {Null}]
    BY <1>1, <1>5 DEF Configs, Day
  <2> QED
    BY <1>2, <1>5, <2>1
<1>6. CASE p.mode = "scheduled"
  <2>1. p.config \in [ordered : BOOLEAN,
                      legs : Seq([d : Destinations, seq : Nat, amount : Nat, date : Day])]
    BY <1>1, <1>6 DEF Configs, Day
  <2> QED
    BY <1>1, <1>2, <1>6, <2>1
<1> QED
  BY <1>2, <1>3, <1>4, <1>5, <1>6 DEF Modes, Singles

\* What the form shows of a stored draft.
LEMMA ShownDraft ==
    ASSUME NEW p, isDraft(p), p.mode = "manual" \/ p.config # NoConfig
    PROVE  LET g == potToWizardState(p) IN
           /\ g \in Form /\ g.mode = p.mode
           /\ p.mode # "scheduled" => g.legs = <<>>
           /\ p.mode \in Singles =>
                 /\ \A m \in Singles \ {p.mode} : g.dest[m].name = None
                 /\ p.config # NoConfig => g.dest[p.mode] = [d |-> p.config.d, name |-> p.config.d]
                 /\ p.config = NoConfig => g.dest[p.mode] = [d |-> "blank", name |-> None]
           /\ p.mode \in {"recurring", "target_based"} =>
                 /\ g.date[p.mode] = p.config.date
                 /\ g.amount[p.mode] = toWizardAmount(p.config.amount)
           /\ p.mode = "recurring" => g.interval = p.config.interval
           /\ p.mode = "scheduled" =>
                 /\ g.ordered = p.config.ordered /\ Numbered(g.legs)
                 /\ g.legs \in Seq(Leg) /\ DOMAIN g.legs = DOMAIN p.config.legs
                 /\ \A m \in Singles : g.dest[m].name = None
                 /\ \A i \in DOMAIN g.legs :
                       /\ g.legs[i].d = p.config.legs[i].d /\ g.legs[i].name = p.config.legs[i].d
                       /\ g.legs[i].date = p.config.legs[i].date
                       /\ g.legs[i].amount = toWizardAmount(p.config.legs[i].amount)
<1> DEFINE g == potToWizardState(p)
           c == p.config
           m0 == p.mode
           least == toWizardAmount(p.min)
           base == [initialWizardState EXCEPT !.titled = TRUE, !.min = least, !.mode = m0]
<1>1. m0 \in Modes /\ p.min \in Nat \union {Null}
  BY DEF isDraft
<1>2. least \in Amount
  BY <1>1, ShownAmount
<1>3. /\ initialWizardState \in Form /\ initialWizardState.legs = <<>>
      /\ \A m \in Singles : initialWizardState.dest[m] = [d |-> "blank", name |-> None]
  BY InitialFits DEF FormFits, initialWizardState
<1> HIDE DEF least, m0
<1>4. /\ base \in Form /\ base.mode = m0 /\ base.legs = <<>>
      /\ \A m \in Singles : base.dest[m] = [d |-> "blank", name |-> None]
  BY <1>1, <1>2, <1>3 DEF Form
<1>5. /\ base.dest \in [Singles -> Slot] /\ base.date \in [Singles -> Day]
      /\ base.amount \in [Singles -> Amount] /\ base.interval \in Nat
  BY <1>4 DEF Form
<1>6. CASE m0 = "manual"
  <2>1. g = IF c = NoConfig THEN base ELSE [base EXCEPT !.dest["manual"] = [d |-> c.d, name |-> c.d]]
    BY <1>6 DEF potToWizardState, least, m0
  <2>2. m0 \in Singles /\ m0 # "scheduled" /\ m0 \notin {"recurring", "target_based"}
    BY <1>6 DEF Singles
  <2>3. CASE c = NoConfig
    BY <1>4, <2>1, <2>2, <2>3 DEF m0
  <2>4. CASE c # NoConfig
    <3> DEFINE q == [d |-> c.d, name |-> c.d]
    <3>1. q \in Slot
      BY <1>6, <2>4, DraftConfig DEF m0, Slot, Name
    <3>2. g = [base EXCEPT !.dest[m0] = q]
      BY <1>6, <2>1, <2>4
    <3> HIDE DEF q, base, g
    <3>3. \A h : h = [base EXCEPT !.dest[base.mode] = q] =>
            /\ h \in Form /\ h.mode = base.mode /\ h.legs = base.legs
            /\ h.dest[base.mode] = q /\ \A m \in Singles \ {base.mode} : h.dest[m] = base.dest[m]
      BY <1>4, <2>2, <3>1, DestReplaced
    <3>4. /\ g \in Form /\ g.mode = m0 /\ g.legs = <<>>
          /\ g.dest[m0] = q /\ \A m \in Singles \ {m0} : g.dest[m] = base.dest[m]
      BY <1>4, <3>2, <3>3
    <3> QED
      BY <1>4, <2>2, <2>4, <3>4 DEF m0, q, g
  <2> QED
    BY <2>3, <2>4
<1>7. CASE m0 \in {"recurring", "target_based"}
  <2> DEFINE q == [d |-> c.d, name |-> c.d]
             a == toWizardAmount(c.amount)
             days == IF m0 = "recurring" THEN c.interval ELSE base.interval
             dest == [base.dest EXCEPT ![m0] = q]
             date == [base.date EXCEPT ![m0] = c.date]
             amount == [base.amount EXCEPT ![m0] = a]
  <2>1. m0 \in Singles /\ m0 # "scheduled" /\ c # NoConfig /\ m0 # "manual"
    BY <1>7 DEF Singles, m0
  <2>2. /\ c.d \in Destinations /\ c.date \in Day /\ c.amount \in Nat \union {Null}
        /\ m0 = "recurring" => c.interval \in Nat
    BY <1>7, <2>1, DraftConfig DEF m0
  <2>3. q \in Slot /\ q.name = c.d /\ a \in Amount /\ days \in Nat
    BY <1>5, <2>2, ShownAmount DEF Slot, Name
  <2>4. g = [base EXCEPT !.dest[m0] = q, !.date[m0] = c.date, !.amount[m0] = a, !.interval = days]
    BY <2>1 DEF potToWizardState, least, m0
  <2>5. g = [base EXCEPT !.dest = dest, !.date = date, !.amount = amount, !.interval = days]
    BY <2>4
  <2> HIDE DEF base, q, a, days, g
  <2>6. /\ dest \in [Singles -> Slot] /\ dest[m0] = q
        /\ \A m \in Singles \ {m0} : dest[m] = base.dest[m]
    BY <1>5, <2>1, <2>3
  <2>7. /\ date \in [Singles -> Day] /\ date[m0] = c.date
        /\ amount \in [Singles -> Amount] /\ amount[m0] = a
    BY <1>5, <2>1, <2>2, <2>3
  <2> HIDE DEF dest, date, amount
  <2>8. g \in Form
    BY <1>4, <2>3, <2>5, <2>6, <2>7 DEF Form
  <2>9. /\ g.dest = dest /\ g.date = date /\ g.amount = amount /\ g.interval = days
        /\ g.mode = m0 /\ g.legs = <<>>
    BY <1>4, <2>5 DEF Form
  <2> QED
    BY <1>4, <2>1, <2>6, <2>7, <2>8, <2>9 DEF m0, g, q, a, days
<1>8. CASE m0 = "scheduled"
  <2> DEFINE legs == [i \in DOMAIN c.legs |->
                        [d |-> c.legs[i].d, name |-> c.legs[i].d, seq |-> c.legs[i].seq,
                         amount |-> toWizardAmount(c.legs[i].amount), date |-> c.legs[i].date]]
             L == [d : Destinations, seq : Nat, amount : Nat, date : Day]
             t == c.ordered
  <2>1. m0 \notin Singles /\ m0 \notin {"recurring", "target_based"} /\ c # NoConfig
    BY <1>8 DEF Singles, m0
  <2>2. c \in [ordered : BOOLEAN, legs : Seq(L)] /\ Numbered(c.legs)
    BY <1>8, <2>1, DraftConfig DEF m0
  <2>3. t \in BOOLEAN /\ c.legs \in Seq(L)
    BY <2>2
  <2>4. ASSUME NEW i \in DOMAIN c.legs
        PROVE  /\ legs[i] \in Leg /\ legs[i].d = c.legs[i].d /\ legs[i].name = c.legs[i].d
               /\ legs[i].date = c.legs[i].date /\ legs[i].amount = toWizardAmount(c.legs[i].amount)
               /\ legs[i].seq = i - 1
    <3> DEFINE e == c.legs[i]
    <3>1. e \in L /\ e.seq = i - 1
      <4>1. \A l \in Seq(L) : \A j \in DOMAIN l : l[j] \in L
        <5> HIDE DEF L
        <5> QED
          OBVIOUS
      <4> QED
        BY <2>2, <2>3, <4>1, Zenon DEF Numbered
    <3>2. e.d \in Destinations /\ e.seq \in Nat /\ e.amount \in Nat /\ e.date \in Day
      BY <3>1
    <3>3. toWizardAmount(e.amount) \in Amount
      BY <3>2, ShownAmount
    <3>4. legs[i] = [d |-> e.d, name |-> e.d, seq |-> e.seq, amount |-> toWizardAmount(e.amount),
                     date |-> e.date]
      OBVIOUS
    <3> HIDE DEF e, legs
    <3>5. legs[i] \in Leg
      BY <3>2, <3>3, <3>4 DEF Leg, Name
    <3>6. /\ legs[i].d = e.d /\ legs[i].name = e.d /\ legs[i].date = e.date
          /\ legs[i].amount = toWizardAmount(e.amount) /\ legs[i].seq = i - 1
      BY <3>1, <3>4
    <3> QED
      BY <3>5, <3>6 DEF e
  <2>5. g = [base EXCEPT !.ordered = t, !.legs = legs]
    BY <1>8 DEF potToWizardState, least, m0
  <2>6. DOMAIN legs = DOMAIN c.legs /\ legs \in [DOMAIN c.legs -> Leg]
    BY <2>4
  <2> HIDE DEF legs, L, t, base, g
  <2>7. legs \in Seq(Leg) /\ Numbered(legs)
    <3>1. DOMAIN c.legs = 1 .. Len(c.legs) /\ Len(c.legs) \in Nat
      BY <2>3
    <3> QED
      BY <2>4, <2>6, <3>1 DEF Numbered
  <2>8. g \in Form /\ g.mode = m0 /\ g.ordered = t /\ g.legs = legs /\ g.dest = base.dest
    BY <1>4, <2>3, <2>5, <2>7 DEF Form
  <2>9. \A m \in Singles : g.dest[m].name = None
    BY <1>4, <2>8
  <2> QED
    BY <1>8, <2>1, <2>4, <2>6, <2>7, <2>8, <2>9 DEF m0, g, t
<1> QED
  BY <1>1, <1>6, <1>7, <1>8 DEF Modes, Singles

\* The draft's names come with it.
LEMMA OpenEditInv ==
    ASSUME WizardInv, openEdit
    PROVE  WizardInv'
<1> DEFINE f == potToWizardState(pot)
           c == pot.config
           known == configDests(c)
<1>1. /\ step = "pot" /\ pot.row /\ (pot.mode = "manual" \/ c # NoConfig)
      /\ Commit(f, "edit", TRUE) /\ vouched' = known /\ saved' = NoSave
      /\ UNCHANGED <<sub, pot, submits>>
  BY DEF openEdit
<1>2. isDraft(pot) /\ sub.pc = "idle"
  BY <1>1 DEF WizardInv, StepFits, NoPot
<1>3. ASSUME c # NoConfig
      PROVE  /\ pot.mode \in Singles => c.d \in known
             /\ pot.mode \notin Singles => \A i \in DOMAIN c.legs : c.legs[i].d \in known
  <2>1. CASE pot.mode = "manual"
    <3>1. c \in [d : Destinations]
      BY <1>2, <1>3, <2>1, DraftConfig
    <3>2. "legs" \notin DOMAIN c /\ c.d # None
      BY <3>1, Marks
    <3> QED
      BY <2>1, <3>2 DEF configDests, Singles
  <2>2. CASE pot.mode = "recurring"
    <3>1. c \in [d : Destinations, amount : Nat, interval : Nat, date : Day]
      BY <1>2, <1>3, <2>2, DraftConfig
    <3>2. "legs" \notin DOMAIN c /\ c.d # None
      BY <3>1, Marks
    <3> QED
      BY <2>2, <3>2 DEF configDests, Singles
  <2>3. CASE pot.mode = "target_based"
    <3>1. c \in [d : Destinations, date : Day, amount : Nat \union {Null}]
      BY <1>2, <1>3, <2>3, DraftConfig
    <3>2. "legs" \notin DOMAIN c /\ c.d # None
      BY <3>1, Marks
    <3> QED
      BY <2>3, <3>2 DEF configDests, Singles
  <2>4. CASE pot.mode = "scheduled"
    <3> DEFINE L == Seq([d : Destinations, seq : Nat, amount : Nat, date : Day])
    <3>1. c \in [ordered : BOOLEAN, legs : L]
      BY <1>2, <1>3, <2>4, DraftConfig
    <3> HIDE DEF L, c
    <3>2. "legs" \in DOMAIN c
      BY <3>1
    <3> QED
      BY <2>4, <3>2 DEF configDests, Singles, known
  <2> QED
    BY <1>2, <2>1, <2>2, <2>3, <2>4 DEF isDraft, Modes, Singles
<1>4. /\ f \in Form /\ f.mode = pot.mode
      /\ pot.mode # "scheduled" => f.legs = <<>>
      /\ pot.mode \in Singles =>
            /\ \A m \in Singles \ {pot.mode} : f.dest[m].name = None
            /\ c # NoConfig => f.dest[pot.mode] = [d |-> c.d, name |-> c.d]
            /\ c = NoConfig => f.dest[pot.mode] = [d |-> "blank", name |-> None]
      /\ pot.mode = "scheduled" =>
            /\ Numbered(f.legs) /\ \A m \in Singles : f.dest[m].name = None
            /\ DOMAIN f.legs = DOMAIN c.legs
            /\ \A i \in DOMAIN f.legs : f.legs[i].d = c.legs[i].d /\ f.legs[i].name = c.legs[i].d
  BY <1>1, <1>2, ShownDraft
<1> HIDE DEF f, known, c
<1>5. FormFits(f, known, kept)
  <2>1. CASE pot.mode \in Singles
    <3>1. \A m \in Singles : SlotNamed(f.dest[m], known)
      BY <1>3, <1>4, <2>1 DEF SlotNamed
    <3>2. f.legs = <<>>
      BY <1>4, <2>1 DEF Singles
    <3> QED
      BY <1>4, <3>1, <3>2 DEF FormFits, Numbered
  <2>2. CASE pot.mode = "scheduled"
    <3>1. pot.mode \notin Singles /\ c # NoConfig
      BY <1>1, <2>2 DEF Singles
    <3>2. ASSUME NEW i \in DOMAIN f.legs
          PROVE  LegNamed(f.legs[i], known, kept)
      BY <1>3, <1>4, <2>2, <3>1, <3>2 DEF LegNamed
    <3> QED
      BY <1>4, <2>2, <3>2 DEF FormFits, SlotNamed
  <2> QED
    BY <1>2, <2>1, <2>2 DEF isDraft, Modes
<1>6. Prepared(f, "edit", TRUE, known)
  BY <1>5, PreparedToMount
<1> QED
  BY <1>1, <1>2, <1>6, PageCommits

\* Who answers for the destinations of a form that fits and is valid.
LEMMA ValidIsConfirmed ==
    ASSUME NEW known, NEW old, NEW f, FormFits(f, known, old), isConfigStepValid(f)
    PROVE  IF f.mode \in Singles THEN f.dest[f.mode].d \in known \union {"blank"}
           ELSE \A i \in DOMAIN f.legs : f.legs[i].d \in known \/ f.legs[i].name \in old
<1>1. f.mode \in Modes
  BY ValidHasMode
<1>2. CASE f.mode \in Singles
  <2>1. SlotNamed(f.dest[f.mode], known)
    BY <1>2 DEF FormFits
  <2>2. f.dest[f.mode].d = "blank" \/ Confirmed(f.dest[f.mode])
    BY <1>2 DEF isConfigStepValid, Singles
  <2> QED
    BY <1>2, <2>1, <2>2 DEF SlotNamed, Confirmed
<1>3. CASE f.mode = "scheduled"
  <2>1. f.mode \notin Singles
    BY <1>3 DEF Singles
  <2>2. \A i \in DOMAIN f.legs : Confirmed(f.legs[i])
    BY <1>3 DEF isConfigStepValid
  <2>3. \A i \in DOMAIN f.legs : LegNamed(f.legs[i], known, old)
    BY DEF FormFits
  <2> QED
    BY <2>1, <2>2, <2>3 DEF LegNamed, Confirmed
<1> QED
  BY <1>1, <1>2, <1>3 DEF Modes

\* A request is sent with a valid form, and an update from the page of a draft.
LEMMA SubmitInv ==
    ASSUME WizardInv, handleCreate \/ handleSave
    PROVE  WizardInv'
<1>1. PICK kind \in {"create", "update"} :
         /\ Submit(kind) /\ isConfigStepValid(form)
         /\ kind = "update" => isDraft(pot)
  BY DEF handleCreate, handleSave, WizardInv, StepFits
<1>2. /\ sub' = [pc |-> "sent", call |-> kind, mode |-> form.mode, min |-> limitInput(form.min),
                 config |-> buildPayoutConfig(form), form |-> form]
      /\ UNCHANGED <<step, form, cards, pot, vouched, kept, saved>> /\ sub.pc = "idle"
  BY <1>1 DEF Submit
<1>3. /\ sub'.pc = "sent" /\ sub'.call = kind /\ sub'.mode = form.mode /\ sub'.form = form
      /\ sub'.min = limitInput(form.min) /\ sub'.config = buildPayoutConfig(form)
  BY <1>2
<1>4. MadeFrom(sub')
  <2>1. sub' = [pc |-> sub'.pc, call |-> sub'.call, mode |-> sub'.mode, min |-> sub'.min,
                config |-> sub'.config, form |-> sub'.form]
    BY <1>2, <1>3
  <2> QED
    BY <1>1, <1>3, <2>1, InStep DEF MadeFrom
<1>5. RequestFits'
  BY <1>1, <1>2, <1>3, <1>4 DEF RequestFits
<1>6. StepFits'
  <2>1. step # "pot"
    BY DEF handleCreate, handleSave
  <2> QED
    BY <1>2, <2>1 DEF WizardInv, StepFits
<1>7. SubmittedWasConfirmed'
  BY <1>1, <1>2, <1>3, ValidIsConfirmed DEF WizardInv, SubmittedWasConfirmed
<1>8. SavedAsShown'
  BY <1>3 DEF SavedAsShown
<1>9. FormFits(form', vouched', kept') /\ CardsFit'
  BY <1>2 DEF WizardInv, CardsFit
<1> QED
  BY <1>2, <1>5, <1>6, <1>7, <1>8, <1>9 DEF WizardInv

\* The answer to a request leaves the page alone.
LEMMA ReplyInv ==
    ASSUME WizardInv, sub.pc = "sent", NEW outcome \in {"ok", "failed"}, sub' = [sub EXCEPT !.pc = outcome],
           isDraft(pot') \/ (pot' = NoPot /\ sub.call = "create" /\ step \notin {"edit", "preview"}),
           UNCHANGED <<step, form, cards, vouched, kept>>, SavedAsShown'
    PROVE  WizardInv'
<1>1. MadeFrom(sub)
  BY DEF WizardInv, RequestFits
<1>2. /\ sub'.pc = outcome /\ sub'.call = sub.call /\ sub'.mode = sub.mode /\ sub'.form = sub.form
      /\ sub'.min = sub.min /\ sub'.config = sub.config
      /\ sub' = [pc |-> outcome, call |-> sub.call, mode |-> sub.mode, min |-> sub.min,
                 config |-> sub.config, form |-> sub.form]
  BY <1>1 DEF MadeFrom
<1>3. MadeFrom(sub')
  BY <1>1, <1>2 DEF MadeFrom
<1>4. RequestFits'
  BY <1>2, <1>3 DEF RequestFits
<1>5. StepFits'
  BY DEF WizardInv, StepFits
<1>6. SubmittedWasConfirmed'
  BY <1>2 DEF SubmittedWasConfirmed
<1>7. FormFits(form', vouched', kept') /\ CardsFit'
  BY DEF WizardInv, CardsFit
<1> QED
  BY <1>4, <1>5, <1>6, <1>7 DEF WizardInv

\* A refused request may leave a draft without its config.
LEMMA RefuseInv ==
    ASSUME WizardInv, sub.pc = "sent", NEW draft, Refuse(draft),
           UNCHANGED <<step, form, cards, vouched, kept>>,
           isDraft(draft) \/ (draft = NoPot /\ sub.call = "create" /\ step \notin {"edit", "preview"})
    PROVE  WizardInv'
<1>1. sub' = [sub EXCEPT !.pc = "failed"] /\ pot' = draft
  BY DEF Refuse
<1>2. sub'.pc # "ok"
  <2>1. MadeFrom(sub)
    BY DEF WizardInv, RequestFits
  <2> QED
    BY <1>1, <2>1 DEF MadeFrom
<1>3. SavedAsShown'
  BY <1>2 DEF SavedAsShown
<1> QED
  BY <1>1, <1>3, ReplyInv

\* Form g shows what form f was saved with.
ReadBack(f, g) ==
    /\ g.mode = f.mode
    /\ f.mode = "scheduled" =>
         /\ g.ordered = f.ordered /\ Len(g.legs) = Len(f.legs)
         /\ \A i \in DOMAIN f.legs :
              /\ g.legs[i].d = f.legs[i].d /\ g.legs[i].date = f.legs[i].date
              /\ toNairaAmount(g.legs[i].amount) = toNairaAmount(f.legs[i].amount)
              /\ g.legs[i].seq = i - 1
    /\ f.mode \in Singles =>
         /\ g.dest[f.mode].d = f.dest[f.mode].d
         /\ f.mode # "manual" =>
              /\ g.date[f.mode] = f.date[f.mode]
              /\ toNairaAmount(g.amount[f.mode]) = toNairaAmount(f.amount[f.mode])
         /\ f.mode = "recurring" => g.interval = f.interval

\* A draft that is stored as it was sent shows what was sent.
LEMMA StoredAsShown ==
    ASSUME NEW s, MadeFrom(s), wireValid(s), NEW p, isDraft(p), p.mode = s.mode, p.config = s.config
    PROVE  ReadBack(s.form, potToWizardState(p))
<1> DEFINE f == s.form
           g == potToWizardState(p)
           c == s.config
<1> SUFFICES ReadBack(f, g)
  OBVIOUS
<1>1. /\ f \in Form /\ Numbered(f.legs) /\ isConfigStepValid(f) /\ s.mode = f.mode
      /\ c = buildPayoutConfig(f) /\ f.mode \in Modes
  BY ValidHasMode DEF MadeFrom
<1>2. /\ f.dest \in [Singles -> Slot] /\ f.amount \in [Singles -> Amount] /\ f.legs \in Seq(Leg)
  BY <1>1 DEF Form
<1>3. ASSUME p.mode = "manual" \/ p.config # NoConfig
      PROVE  /\ g.mode = p.mode
             /\ p.mode \in Singles =>
                   /\ p.config # NoConfig => g.dest[p.mode] = [d |-> p.config.d, name |-> p.config.d]
                   /\ p.config = NoConfig => g.dest[p.mode] = [d |-> "blank", name |-> None]
             /\ p.mode \in {"recurring", "target_based"} =>
                   /\ g.date[p.mode] = p.config.date
                   /\ g.amount[p.mode] = toWizardAmount(p.config.amount)
             /\ p.mode = "recurring" => g.interval = p.config.interval
             /\ p.mode = "scheduled" =>
                   /\ g.ordered = p.config.ordered /\ Numbered(g.legs)
                   /\ g.legs \in Seq(Leg) /\ DOMAIN g.legs = DOMAIN p.config.legs
                   /\ \A i \in DOMAIN g.legs :
                         /\ g.legs[i].d = p.config.legs[i].d
                         /\ g.legs[i].date = p.config.legs[i].date
                         /\ g.legs[i].amount = toWizardAmount(p.config.legs[i].amount)
  BY <1>3, ShownDraft
<1> HIDE DEF f, g
<1>4. CASE f.mode = "manual"
  <2> DEFINE d == f.dest["manual"].d
  <2>1. f.mode \in Singles /\ f.mode # "scheduled" /\ f.mode # "recurring" /\ p.mode = "manual"
    BY <1>1, <1>4 DEF Singles
  <2>2. c = [d |-> IF Given(d) THEN d ELSE None] /\ (d = "blank" \/ Given(d)) /\ d \in Destinations
    BY <1>1, <1>2, <1>4, <2>1 DEF buildPayoutConfig, isConfigStepValid, Confirmed, Slot
  <2> HIDE DEF d, c
  <2>3. d # None /\ (Given(d) <=> d # "blank")
    BY <2>2, Marks DEF Given
  <2>4. CASE d = "blank"
    <3>1. c = NoConfig
      BY <2>2, <2>3, <2>4 DEF NoConfig
    <3> QED
      BY <1>1, <1>3, <1>4, <2>1, <2>4, <3>1 DEF c, d, ReadBack
  <2>5. CASE d # "blank"
    <3>1. c = [d |-> d]
      BY <2>2, <2>3, <2>5
    <3>2. c.d = d /\ NoConfig.d = None
      BY <3>1 DEF NoConfig
    <3>3. c # NoConfig
      BY <2>3, <3>2
    <3>4. g.dest["manual"].d = d
      BY <1>3, <1>4, <2>1, <3>2, <3>3 DEF c
    <3> QED
      BY <1>1, <1>3, <1>4, <2>1, <3>4 DEF d, ReadBack
  <2> QED
    BY <2>4, <2>5
<1>5. CASE f.mode = "recurring"
  <2> DEFINE raw == f.amount["recurring"]
  <2>1. f.mode \in Singles /\ f.mode # "scheduled" /\ f.mode # "manual" /\ p.mode = "recurring"
    BY <1>1, <1>5 DEF Singles
  <2>2. c = [d |-> f.dest["recurring"].d, amount |-> wireAmount(raw),
             interval |-> f.interval, date |-> f.date["recurring"]]
    BY <1>1, <1>5 DEF buildPayoutConfig
  <2>3. raw \in Amount /\ f.dest["recurring"].d \in Destinations
    BY <1>2, <1>5, <2>1 DEF Slot
  <2> HIDE DEF c, raw
  <2>4. /\ c.d = f.dest["recurring"].d /\ c.amount = wireAmount(raw) /\ c.interval = f.interval
        /\ c.date = f.date["recurring"]
    BY <2>2
  <2>5. c # NoConfig
    <3>1. c.d # None
      BY <2>3, <2>4, Marks
    <3> QED
      BY <3>1 DEF NoConfig
  <2>6. c.amount > 0
    BY <1>1, <1>5 DEF wireValid, c
  <2>7. c.amount \in Nat /\ toNairaAmount(raw) = c.amount
    BY <2>3, <2>4, <2>6, OnTheWire
  <2>8. toNairaAmount(toWizardAmount(c.amount)) = c.amount
    BY <2>7, ShownAmount
  <2>9. /\ g.mode = f.mode /\ g.dest["recurring"].d = c.d /\ g.date["recurring"] = c.date
        /\ g.amount["recurring"] = toWizardAmount(c.amount) /\ g.interval = c.interval
    BY <1>1, <1>3, <2>1, <2>5 DEF c
  <2> QED
    BY <1>5, <2>1, <2>4, <2>7, <2>8, <2>9 DEF raw, ReadBack
<1>6. CASE f.mode = "target_based"
  <2> DEFINE raw == f.amount["target_based"]
  <2>1. /\ f.mode \in Singles /\ f.mode # "scheduled" /\ f.mode # "manual" /\ f.mode # "recurring"
        /\ p.mode = "target_based"
    BY <1>1, <1>6 DEF Singles
  <2>2. c = [d |-> f.dest["target_based"].d, date |-> f.date["target_based"],
             amount |-> IF raw.blank THEN Null ELSE wireAmount(raw)]
    BY <1>1, <1>6 DEF buildPayoutConfig
  <2>3. raw \in Amount /\ f.dest["target_based"].d \in Destinations
    BY <1>2, <1>6, <2>1 DEF Slot
  <2> HIDE DEF c, raw
  <2>4. /\ c.d = f.dest["target_based"].d /\ c.date = f.date["target_based"]
        /\ c.amount = IF raw.blank THEN Null ELSE wireAmount(raw)
    BY <2>2
  <2>5. c # NoConfig
    <3>1. c.d # None
      BY <2>3, <2>4, Marks
    <3> QED
      BY <3>1 DEF NoConfig
  <2>6. c.amount # 0
    BY <1>1, <1>6 DEF wireValid, c
  <2>7. c.amount \in Nat \union {Null} /\ toNairaAmount(raw) = c.amount
    <3>1. CASE raw.blank
      BY <2>4, <3>1 DEF toNairaAmount
    <3>2. CASE ~raw.blank
      BY <2>3, <2>4, <2>6, <3>2, OnTheWire
    <3> QED
      BY <3>1, <3>2
  <2>8. toNairaAmount(toWizardAmount(c.amount)) = c.amount
    BY <2>7, ShownAmount
  <2>9. /\ g.mode = f.mode /\ g.dest["target_based"].d = c.d /\ g.date["target_based"] = c.date
        /\ g.amount["target_based"] = toWizardAmount(c.amount)
    BY <1>1, <1>3, <2>1, <2>5 DEF c
  <2> QED
    BY <1>6, <2>1, <2>4, <2>7, <2>8, <2>9 DEF raw, ReadBack
<1>7. CASE f.mode = "scheduled"
  <2>1. f.mode \notin Singles /\ p.mode = "scheduled"
    BY <1>1, <1>7 DEF Singles
  <2>2. /\ Numbered(c.legs) /\ DOMAIN c.legs = DOMAIN f.legs /\ c.ordered = f.ordered
        /\ \A i \in DOMAIN f.legs :
              /\ c.legs[i].d = f.legs[i].d /\ c.legs[i].date = f.legs[i].date
              /\ c.legs[i].seq = i - 1 /\ c.legs[i].amount = wireAmount(f.legs[i].amount)
    BY <1>1, <1>7, ConfigTyped
  <2>3. c # NoConfig
    <3>1. c = [ordered |-> f.ordered,
            legs |-> [i \in DOMAIN f.legs |-> [d |-> f.legs[i].d, seq |-> f.legs[i].seq,
                        amount |-> wireAmount(f.legs[i].amount), date |-> f.legs[i].date]]]
      BY <1>1, <1>7 DEF buildPayoutConfig
    <3> HIDE DEF c
    <3>2. DOMAIN c = {"ordered", "legs"} /\ DOMAIN NoConfig = {"d"}
      BY <3>1 DEF NoConfig
    <3> QED
      BY <3>2
  <2>4. \A i \in DOMAIN c.legs : c.legs[i].amount > 0
    BY <1>1, <1>7 DEF wireValid
  <2> HIDE DEF c
  <2>5. /\ g.mode = f.mode /\ g.ordered = c.ordered /\ Numbered(g.legs)
        /\ g.legs \in Seq(Leg) /\ DOMAIN g.legs = DOMAIN c.legs
        /\ \A i \in DOMAIN g.legs :
              /\ g.legs[i].d = c.legs[i].d /\ g.legs[i].date = c.legs[i].date
              /\ g.legs[i].amount = toWizardAmount(c.legs[i].amount)
    BY <1>1, <1>3, <2>1, <2>3 DEF c
  <2>6. Len(g.legs) = Len(f.legs)
    BY <1>2, <2>2, <2>5
  <2>7. ASSUME NEW i \in DOMAIN f.legs
        PROVE  /\ g.legs[i].d = f.legs[i].d /\ g.legs[i].date = f.legs[i].date
               /\ toNairaAmount(g.legs[i].amount) = toNairaAmount(f.legs[i].amount)
               /\ g.legs[i].seq = i - 1
    <3> DEFINE raw == f.legs[i].amount
               k == wireAmount(raw)
    <3>1. raw \in Amount
      <4>1. f.legs[i] \in Leg
        BY <1>2
      <4> QED
        BY <4>1 DEF Leg
    <3>2. c.legs[i].amount = k /\ k > 0 /\ g.legs[i].amount = toWizardAmount(k)
      BY <2>2, <2>4, <2>5
    <3> HIDE DEF raw
    <3>3. k \in Nat /\ toNairaAmount(raw) = k
      BY <3>1, <3>2, OnTheWire
    <3>4. toNairaAmount(toWizardAmount(k)) = k
      BY <3>3, ShownAmount
    <3>5. g.legs[i].seq = i - 1 /\ g.legs[i].d = f.legs[i].d /\ g.legs[i].date = f.legs[i].date
      BY <2>2, <2>5 DEF Numbered
    <3> QED
      BY <3>2, <3>3, <3>4, <3>5 DEF raw
  <2> QED
    BY <1>7, <2>1, <2>2, <2>5, <2>6, <2>7 DEF ReadBack
<1> QED
  BY <1>1, <1>4, <1>5, <1>6, <1>7 DEF Modes, Singles

\* An accepted request leaves the draft it describes.
LEMMA AcceptInv ==
    ASSUME WizardInv, sub.pc = "sent", wireValid(sub), NEW draft, isDraft(draft), Accept(draft),
           draft.mode = sub.mode, draft.config = sub.config,
           draft.min = IF sub.min # Null THEN sub.min ELSE IF sub.call = "create" THEN 0 ELSE pot.min,
           UNCHANGED <<step, form, cards, vouched, kept>>
    PROVE  WizardInv'
<1>1. /\ pot' = draft /\ sub' = [sub EXCEPT !.pc = "ok"]
      /\ saved' = [form |-> sub.form, before |-> IF sub.call = "create" THEN 0 ELSE pot.min]
  BY DEF Accept
<1>2. MadeFrom(sub)
  BY DEF WizardInv, RequestFits
<1>3. saved'.form = sub.form /\ saved'.before = IF sub.call = "create" THEN 0 ELSE pot.min
  BY <1>1
<1>4. draft.min = IF limitInput(sub.form.min) = Null THEN saved'.before ELSE limitInput(sub.form.min)
  BY <1>2, <1>3 DEF MadeFrom
<1>5. SavedAsShown'
  BY <1>1, <1>2, <1>3, <1>4, StoredAsShown DEF SavedAsShown, ReadBack
<1> QED
  BY <1>1, <1>5, ReplyInv

\* The backend's two handlers.
LEMMA ServeInv ==
    ASSUME WizardInv, serve
    PROVE  WizardInv'
<1>1. PICK up \in BOOLEAN : IF sub.call = "create" THEN create(up) ELSE update(up)
  BY DEF serve
<1>2. sub.pc = "sent" /\ UNCHANGED <<step, form, cards, vouched, kept>>
  BY DEF serve
<1>3. MadeFrom(sub) /\ (sub.call # "create" => isDraft(pot))
  BY <1>2 DEF WizardInv, RequestFits
<1> DEFINE c == sub.config
           m == sub.mode
           min == sub.min
<1>4. /\ m \in Modes /\ min \in Nat \union {Null} /\ storedConfig(sub) = c
      /\ c \in Configs(m) /\ (m = "scheduled" => Numbered(c.legs))
  BY <1>3, RequestTyped
<1> HIDE DEF c, m, min
<1>5. ASSUME Refuse(pot)
      PROVE  WizardInv'
  <2>1. CASE isDraft(pot)
    BY <1>2, <1>5, <2>1, RefuseInv
  <2>2. CASE ~isDraft(pot)
    <3>1. pot = NoPot /\ step \notin {"edit", "preview"} /\ sub.call = "create"
      BY <1>3, <2>2 DEF WizardInv, StepFits
    <3> QED
      BY <1>2, <1>5, <3>1, RefuseInv
  <2> QED
    BY <2>1, <2>2
<1>6. CASE sub.call = "create"
  <2> DEFINE least == IF min = Null THEN 0 ELSE min
             draft == [row |-> TRUE, admin |-> FALSE, mode |-> m, min |-> least, config |-> NoConfig]
             full == [draft EXCEPT !.admin = TRUE, !.config = c]
  <2>1. \/ Refuse(pot) \/ Refuse(draft)
        \/ Accept(full) /\ wireValid(sub)
    BY <1>1, <1>4, <1>6 DEF create, m, min
  <2>2. least \in Nat
    BY <1>4
  <2> HIDE DEF least
  <2>3. isDraft(draft)
    BY <1>4, <2>2 DEF isDraft
  <2>4. draft \in [row : {TRUE}, admin : BOOLEAN, mode : Modes, min : Nat \union {Null},
                 config : {NoConfig}] /\ draft.mode = m /\ draft.min = least
    BY <1>4, <2>2
  <2>5. isDraft(full) /\ full.mode = m /\ full.config = c /\ full.min = least
    <3> HIDE DEF draft
    <3>1. full \in [row : {TRUE}, admin : BOOLEAN, mode : Modes, min : Nat \union {Null}, config : {c}]
      BY <2>4
    <3>2. full.mode = m /\ full.config = c /\ full.min = least
      BY <2>4
    <3> HIDE DEF full
    <3> QED
      BY <1>4, <3>1, <3>2 DEF isDraft
  <2> HIDE DEF full
  <2>6. CASE Refuse(draft)
    <3> HIDE DEF draft
    <3> QED
      BY <1>2, <2>3, <2>6, RefuseInv
  <2>7. CASE Accept(full) /\ wireValid(sub)
    BY <1>2, <1>6, <2>5, <2>7, AcceptInv DEF c, m, min, least
  <2> QED
    BY <1>5, <2>1, <2>6, <2>7
<1>7. CASE sub.call # "create"
  <2> DEFINE lost == [pot EXCEPT !.config = NoConfig]
             least == IF min = Null THEN pot.min ELSE min
             full == [pot EXCEPT !.mode = m, !.config = c, !.min = least]
  <2>1. \/ Refuse(pot) \/ Refuse(lost)
        \/ Accept(full) /\ wireValid(sub)
    <3>1. \/ Refuse(pot) \/ Refuse(lost)
          \/ /\ wireValid(sub)
             /\ Accept([pot EXCEPT !.mode = sub.mode, !.config = storedConfig(sub),
                            !.min = IF sub.min = Null THEN @ ELSE sub.min])
      BY <1>1, <1>7 DEF update
    <3> QED
      BY <1>4, <3>1 DEF m, min
  <2>2. pot \in [row : {TRUE}, admin : BOOLEAN, mode : Modes, min : Nat \union {Null},
                 config : {pot.config}]
    BY <1>3, <1>7 DEF isDraft
  <2>3. least \in Nat \union {Null}
    BY <1>4, <2>2
  <2> HIDE DEF least
  <2>4. /\ lost \in [row : {TRUE}, admin : BOOLEAN, mode : Modes, min : Nat \union {Null},
                     config : {NoConfig}]
        /\ lost.config = NoConfig
    BY <2>2
  <2>5. /\ full \in [row : {TRUE}, admin : BOOLEAN, mode : Modes, min : Nat \union {Null},
                     config : {c}]
        /\ full.mode = m /\ full.config = c /\ full.min = least
    BY <1>4, <2>2, <2>3
  <2> HIDE DEF lost, full
  <2>6. isDraft(lost)
    BY <2>4 DEF isDraft
  <2>7. isDraft(full) /\ full.mode = m /\ full.config = c /\ full.min = least
    BY <1>4, <2>5 DEF isDraft
  <2>8. CASE Refuse(lost)
    BY <1>2, <2>6, <2>8, RefuseInv
  <2>9. CASE Accept(full) /\ wireValid(sub)
    BY <1>2, <1>7, <2>7, <2>9, AcceptInv DEF c, m, min, least
  <2> QED
    BY <1>5, <2>1, <2>8, <2>9
<1> QED
  BY <1>6, <1>7

\* The answer is taken: the page of the pot, or the page that sent it.
LEMMA AnsweredInv ==
    ASSUME WizardInv, answered
    PROVE  WizardInv'
<1>1. /\ sub' = [pc |-> "idle"] /\ UNCHANGED <<pot, edits, submits, vouched, saved>>
      /\ sub'.pc = "idle"
  BY DEF answered
<1>2. RequestFits' /\ SubmittedWasConfirmed' /\ SavedAsShown'
  BY <1>1 DEF RequestFits, SubmittedWasConfirmed, SavedAsShown
<1>3. CASE sub.pc = "ok"
  <2>1. Commit(initialWizardState, "pot", TRUE)
    BY <1>3 DEF answered
  <2>2. Prepared(initialWizardState, "pot", TRUE, vouched)
    BY InitialFits, PreparedToMount
  <2>3. FormFits(form', vouched', kept') /\ CardsFit' /\ step' = "pot"
    BY <1>1, <2>1, <2>2, CommitFits
  <2>4. StepFits'
    BY <1>1, <2>3 DEF StepFits
  <2> QED
    BY <1>1, <1>2, <2>3, <2>4 DEF WizardInv
<1>4. CASE sub.pc # "ok"
  <2>1. UNCHANGED <<step, form, cards, kept>>
    BY <1>4 DEF answered
  <2>2. FormFits(form', vouched', kept') /\ CardsFit' /\ StepFits'
    BY <1>1, <2>1 DEF WizardInv, CardsFit, StepFits
  <2> QED
    BY <1>1, <1>2, <2>2 DEF WizardInv
<1> QED
  BY <1>3, <1>4

\* Every page opens with the invariant,
LEMMA WizardInitInv == WizardInit => WizardInv
<1> SUFFICES ASSUME WizardInit PROVE WizardInv
  OBVIOUS
<1>1. /\ form = initialWizardState /\ cards = <<>> /\ sub = [pc |-> "idle"] /\ sub.pc = "idle"
      /\ step \in {"basics", "pot"} /\ pot \in Stored \union {NoPot}
  BY DEF WizardInit
<1>2. FormFits(form, vouched, kept)
  BY <1>1, InitialFits
<1>3. Cards(form, step) = {} /\ DOMAIN cards = {}
  BY <1>1 DEF Cards
<1>4. cards = [i \in {} |-> cards[i]]
  BY <1>1
<1>5. CardsFit
  BY <1>3, <1>4 DEF CardsFit
<1>6. pot = NoPot \/ isDraft(pot)
  BY <1>1, WizardAssumption
<1>7. RequestFits /\ StepFits /\ SubmittedWasConfirmed /\ SavedAsShown
  BY <1>1 DEF RequestFits, StepFits, SubmittedWasConfirmed, SavedAsShown
<1> QED
  BY <1>2, <1>5, <1>6, <1>7 DEF WizardInv

\* and every step keeps it.
LEMMA WizardNextInv == WizardInv /\ [WizardNext]_wizardVars => WizardInv'
<1> SUFFICES ASSUME WizardInv, [WizardNext]_wizardVars PROVE WizardInv'
  OBVIOUS
<1>1. CASE UNCHANGED wizardVars
  BY <1>1 DEF wizardVars, WizardInv, FormFits, CardsFit, RequestFits, StepFits,
              SubmittedWasConfirmed, SavedAsShown
<1>2. ASSUME NEW i \in DOMAIN cards, lookupAnswers(i) \/ LegCard(i) \/ removeLeg(i)
      PROVE  WizardInv'
  BY <1>2, LookupInv, LegCardInv, RemoveLegInv
<1>3. ASSUME NEW m \in Modes, PayoutModeStep(m)
      PROVE  WizardInv'
  BY <1>3, ModeInv
<1>4. CASE render
  BY <1>4, RenderInv
<1>5. CASE BasicsStep
  BY <1>5, BasicsInv
<1>6. CASE TargetBasedConfigStep \/ ManualConfigStep \/ RecurringConfigStep
  BY <1>6, SingleStepsInv
<1>7. CASE ScheduledConfigStep
  BY <1>7, OrderedInv
<1>8. CASE addLeg
  BY <1>8, AddLegInv
<1>9. CASE goNext \/ goBack \/ tabChosen
  BY <1>9, PageInv
<1>10. CASE openEdit
  BY <1>10, OpenEditInv
<1>11. CASE handleCreate \/ handleSave
  BY <1>11, SubmitInv
<1>12. CASE serve
  BY <1>12, ServeInv
<1>13. CASE answered
  BY <1>13, AnsweredInv
<1> QED
  BY <1>1, <1>2, <1>3, <1>4, <1>5, <1>6, <1>7, <1>8, <1>9, <1>10, <1>11, <1>12, <1>13 DEF WizardNext

\* The invariant holds at any time.
LEMMA WizardInvariance == WizardSpec => []WizardInv
BY WizardInitInv, WizardNextInv, PTL DEF WizardSpec

\* What a page of these sends and the backend refuses.
LEMMA RefusedForAmounts ==
    ASSUME NEW s, MadeFrom(s), ~(wireValid(s) /\ refined(s))
    PROVE  LET target == s.form.amount["target_based"]
           IN  \/ \E raw \in amountsOf(s.form) : raw.tenths > 0 /\ (raw.point \/ raw.tenths < 10)
               \/ /\ s.mode = "target_based" /\ s.form.date["target_based"] # None
                  /\ ~isValidTargetAmount(target)
               \/ /\ s.mode = "target_based" /\ target.tenths > 10 * OUTBOUND_FEE
                  /\ target.tenths < 10 * (OUTBOUND_FEE + 1)
<1> DEFINE f == s.form
           c == s.config
           OffTheWire(raw) == raw.tenths > 0 /\ (raw.point \/ raw.tenths < 10)
<1>1. /\ f \in Form /\ Numbered(f.legs) /\ isConfigStepValid(f) /\ s.mode = f.mode
      /\ c = buildPayoutConfig(f) /\ s.min = limitInput(f.min) /\ f.mode \in Modes
  BY ValidHasMode DEF MadeFrom
<1>2. /\ f.dest \in [Singles -> Slot] /\ f.amount \in [Singles -> Amount] /\ f.legs \in Seq(Leg)
      /\ f.min \in Amount
  BY <1>1 DEF Form
<1>3. ASSUME NEW raw \in Amount, isPositiveAmount(raw), wireAmount(raw) = 0
      PROVE  OffTheWire(raw)
  <2>1. ~raw.blank /\ raw.tenths > 0
    BY <1>3 DEF isPositiveAmount
  <2> QED
    BY <1>3, <2>1, OnTheWire
<1> HIDE DEF OffTheWire
<1>4. CASE s.min = 0
  <2>1. isPositiveAmount(f.min) /\ toNairaAmount(f.min) = 0
    BY <1>1, <1>4 DEF limitInput, Null
  <2>2. wireAmount(f.min) = 0
    BY <2>1 DEF wireAmount, Null
  <2>3. OffTheWire(f.min) /\ f.min \in amountsOf(f)
    BY <1>2, <1>3, <2>1, <2>2 DEF amountsOf
  <2> QED
    BY <2>3 DEF OffTheWire
<1>5. CASE s.min # 0 /\ f.mode = "manual"
  BY <1>1, <1>5 DEF wireValid, refined
<1>6. CASE s.min # 0 /\ f.mode = "recurring"
  <2> DEFINE raw == f.amount["recurring"]
  <2>1. raw \in Amount /\ isPositiveAmount(raw) /\ f.interval >= 1 /\ raw \in amountsOf(f)
    BY <1>1, <1>2, <1>6 DEF isConfigStepValid, isValidIntervalDays, amountsOf, Singles
  <2>2. c.amount = wireAmount(raw) /\ c.interval = f.interval
    BY <1>1, <1>6 DEF buildPayoutConfig
  <2>3. ~(c.amount > 0)
    BY <1>1, <1>6, <2>1, <2>2 DEF wireValid, refined
  <2> HIDE DEF raw, c
  <2>4. wireAmount(raw) = 0
    BY <2>1, <2>2, <2>3, OnTheWire
  <2> QED
    BY <1>3, <2>1, <2>4 DEF OffTheWire
<1>7. CASE s.min # 0 /\ f.mode = "scheduled"
  <2>1. Len(f.legs) > 0 /\ \A i \in DOMAIN f.legs : isPositiveAmount(f.legs[i].amount)
    BY <1>1, <1>7 DEF isConfigStepValid
  <2>2. /\ DOMAIN c.legs = DOMAIN f.legs
        /\ \A i \in DOMAIN f.legs : c.legs[i].amount = wireAmount(f.legs[i].amount)
    BY <1>1, <1>7, ConfigTyped
  <2>3. Len(c.legs) = Len(f.legs)
    <3>1. c.legs = [i \in DOMAIN f.legs |-> [d |-> f.legs[i].d, seq |-> f.legs[i].seq,
                        amount |-> wireAmount(f.legs[i].amount), date |-> f.legs[i].date]]
      BY <1>1, <1>7 DEF buildPayoutConfig
    <3> QED
      BY <1>2, <3>1
  <2>4. PICK i \in DOMAIN c.legs : ~(c.legs[i].amount > 0)
    BY <1>1, <1>7, <2>1, <2>3 DEF wireValid, refined
  <2> DEFINE raw == f.legs[i].amount
  <2>5. raw \in Amount /\ raw \in amountsOf(f) /\ isPositiveAmount(raw)
    <3>1. f.legs[i] \in Leg
      BY <1>2, <2>2
    <3> QED
      BY <1>7, <2>1, <2>2, <3>1 DEF Leg, amountsOf
  <2>6. ~(wireAmount(raw) > 0)
    BY <2>2, <2>4
  <2> HIDE DEF raw, c
  <2>7. wireAmount(raw) = 0
    BY <2>5, <2>6, OnTheWire
  <2> QED
    BY <1>3, <2>5, <2>7 DEF OffTheWire
<1>8. CASE s.min # 0 /\ f.mode = "target_based"
  <2> DEFINE raw == f.amount["target_based"]
             date == f.date["target_based"]
  <2>1. raw \in Amount /\ raw \in amountsOf(f)
    BY <1>2, <1>8 DEF amountsOf, Singles
  <2>2. date # None \/ isValidTargetAmount(raw)
    BY <1>1, <1>8 DEF isConfigStepValid
  <2>3. c.date = date /\ c.amount = IF raw.blank THEN Null ELSE wireAmount(raw)
    BY <1>1, <1>8 DEF buildPayoutConfig
  <2>4. \/ c.amount = 0 \/ (c.date = None /\ c.amount = Null)
        \/ c.amount # Null /\ ~(c.amount > OUTBOUND_FEE)
    BY <1>1, <1>8 DEF wireValid, refined
  <2>5. OUTBOUND_FEE \in Nat /\ raw.tenths \in Nat /\ wireAmount(raw) \in Nat
    BY <2>1, WizardAssumption, OnTheWire DEF Amount
  <2> HIDE DEF raw, date, c
  <2>6. CASE ~isValidTargetAmount(raw)
    BY <1>1, <1>8, <2>2, <2>6 DEF raw, date
  <2>7. CASE isValidTargetAmount(raw)
    <3>1. ~raw.blank /\ isPositiveAmount(raw) /\ raw.tenths > 10 * OUTBOUND_FEE
      BY <2>7 DEF isValidTargetAmount, isPositiveAmount
    <3>2. c.amount = wireAmount(raw) /\ c.amount # Null
      BY <2>3, <2>5, <3>1 DEF Null
    <3>3. wireAmount(raw) = 0 \/ wireAmount(raw) <= OUTBOUND_FEE
      BY <2>4, <2>5, <3>2
    <3>4. CASE raw.point
      BY <2>1, <3>1, <3>4 DEF isPositiveAmount
    <3>5. CASE ~raw.point
      <4>1. raw.tenths < 10 * wireAmount(raw) + 10
        BY <2>1, <3>1, <3>5, OnTheWire
      <4>2. wireAmount(raw) <= OUTBOUND_FEE
        BY <2>5, <3>3
      <4>3. raw.tenths < 10 * (OUTBOUND_FEE + 1)
        BY <2>5, <4>1, <4>2
      <4> QED
        BY <1>1, <1>8, <3>1, <4>3 DEF raw
    <3> QED
      BY <3>4, <3>5
  <2> QED
    BY <2>6, <2>7
<1> QED
  BY <1>1, <1>4, <1>5, <1>6, <1>7, <1>8 DEF Modes, Singles

\* A destination is sent only if its holder's name was there for the user to see: whatever
\* the accounts, the legs and the edits are.
THEOREM DestinationsConfirmed == WizardSpec => []SubmittedWasConfirmed
<1>1. WizardInv => SubmittedWasConfirmed
  BY DEF WizardInv
<1> QED
  BY <1>1, WizardInvariance, PTL

\* The page's checks and the server's differ for three kinds of amounts only, and what is
\* accepted is what was shown.
THEOREM PageAndServerAgree == WizardSpec => []PageAgreesWithServer
<1>1. WizardInv => PageAgreesWithServer
  <2>1. SUFFICES ASSUME WizardInv PROVE RefusedOnlyForAmounts
    BY DEF PageAgreesWithServer, WizardInv
  <2>2. sub.pc = "sent" => MadeFrom(sub)
    BY <2>1 DEF WizardInv, RequestFits
  <2> QED
    BY <2>2, RefusedForAmounts DEF RefusedOnlyForAmounts
<1> QED
  BY <1>1, WizardInvariance, PTL
-----------------------------------------------------------------------------
(* WebhookInbox *)

\* A delivery has the claim of an event, or is about to ask for it.
Has(d, e)    == event[d] = e /\ pc[d] \in {"dispatch", "release", "process"}
Claims(d, e) == event[d] = e /\ pc[d] = "claim"

\* A delivery under way carries an event.
Carrying == \A d \in Deliveries : pc[d] # "idle" => event[d] \in Events

\* One delivery at a time has an event's claim, and then the row says so and is not
\* yet processed; a processed row is a claimed one.
ClaimOwned ==
    /\ \A d1, d2 \in Deliveries, e \in Events : Has(d1, e) /\ Has(d2, e) => d1 = d2
    /\ \A d \in Deliveries, e \in Events : Has(d, e) => row[e] = "claimed" /\ e \notin processed
    /\ \A e \in processed : row[e] = "claimed"
    /\ \A d \in Deliveries, e \in Events : Claims(d, e) => row[e] # "none"

\* The handler has run once where a delivery is past the dispatch, and not before it.
RanOnce ==
    /\ \A e \in Events : row[e] # "claimed" => effects[e] = 0
    /\ \A d \in Deliveries, e \in Events : Has(d, e) =>
          effects[e] = IF pc[d] = "process" THEN 1 ELSE 0
    /\ \A e \in processed : effects[e] = 1

\* A claim is held, has had its effect, or is stranded; a free row is about to be
\* claimed or was let go by a delivery that failed.
RowsAccounted ==
    /\ \A e \in Events : row[e] = "claimed" =>
          effects[e] = 1 \/ e \in stranded \/ \E d \in Deliveries : Has(d, e)
    /\ \A e \in Events : row[e] = "unclaimed" =>
          e \in failed \/ \E d \in Deliveries : Claims(d, e)
    /\ \A d \in Deliveries : pc[d] = "release" => event[d] \in failed
    /\ \A e \in skipped : row[e] # "none"

\* Why a delivery may go on to a 200: the effect is there, or the event was left to
\* another delivery, or is stranded.
Settled(e) == effects[e] = 1 \/ e \in stranded \/ e \in skipped

AnswersAccounted ==
    /\ \A d \in Deliveries : pc[d] = "add" => Settled(event[d])
    /\ \A e \in seen \union acked : Settled(e)

Inv == TypeOK /\ Carrying /\ ClaimOwned /\ RanOnce /\ RowsAccounted /\ AnswersAccounted
-----------------------------------------------------------------------------
USE DEF Goto, Failure, Fail, Respond, inboxVars, providerVars, history

\* Nothing has happened at first.
LEMMA InitInv == Init => Inv
BY DEF Init, Inv, TypeOK, Carrying, ClaimOwned, RanOnce, RowsAccounted, AnswersAccounted,
       Settled, Has, Claims

\* Types are kept by every step.
LEMMA NextTypeOK == Inv /\ [Next]_vars => TypeOK'
<1> SUFFICES ASSUME Inv, [Next]_vars PROVE TypeOK'
    OBVIOUS
<1> USE DEF Inv, TypeOK, Carrying
<1>1. ASSUME NEW d \in Deliveries, NEW e \in Events, deliver(d, e) PROVE TypeOK'
    BY <1>1 DEF deliver
<1>2. ASSUME NEW d \in Deliveries, giveUp(d) PROVE TypeOK'
    BY <1>2 DEF giveUp
<1>3. ASSUME NEW d \in Deliveries, checkStore(d) PROVE TypeOK'
    BY <1>3 DEF checkStore
<1>4. ASSUME NEW d \in Deliveries, readRow(d) PROVE TypeOK'
    BY <1>4 DEF readRow
<1>5. ASSUME NEW d \in Deliveries, insertRow(d) PROVE TypeOK'
    BY <1>5 DEF insertRow
<1>6. ASSUME NEW d \in Deliveries, claimRow(d) PROVE TypeOK'
    BY <1>6 DEF claimRow
<1>7. ASSUME NEW d \in Deliveries, dispatch(d) PROVE TypeOK'
    BY <1>7 DEF dispatch
<1>8. ASSUME NEW d \in Deliveries, releaseClaim(d) PROVE TypeOK'
    BY <1>8 DEF releaseClaim
<1>9. ASSUME NEW d \in Deliveries, markProcessed(d) PROVE TypeOK'
    BY <1>9 DEF markProcessed
<1>10. ASSUME NEW d \in Deliveries, addToStore(d) PROVE TypeOK'
    BY <1>10 DEF addToStore
<1>11. ASSUME NEW d \in Deliveries, die(d) PROVE TypeOK'
    BY <1>11 DEF die
<1>12. CASE UNCHANGED vars
    BY <1>12 DEF vars
<1> QED
    BY <1>1, <1>2, <1>3, <1>4, <1>5, <1>6, <1>7, <1>8, <1>9, <1>10, <1>11, <1>12 DEF Next, handle

\* The rest of the invariant is kept by every step of a delivery and of the provider.
LEMMA NextInv == Inv /\ [Next]_vars => Inv'
<1> SUFFICES ASSUME Inv, [Next]_vars PROVE Inv'
    OBVIOUS
<1> DEFINE Rest == Carrying /\ ClaimOwned /\ RanOnce /\ RowsAccounted /\ AnswersAccounted
<1> USE DEF Inv, TypeOK, Has, Claims, Settled
<1>1. ASSUME NEW d \in Deliveries, NEW e \in Events, deliver(d, e) PROVE Rest'
    <2>1. Carrying'
        BY <1>1 DEF deliver, Carrying
    <2>2. ClaimOwned'
        BY <1>1 DEF deliver, ClaimOwned
    <2>3. RanOnce'
        BY <1>1 DEF deliver, RanOnce
    <2>4. RowsAccounted'
        BY <1>1 DEF deliver, RowsAccounted
    <2>5. AnswersAccounted'
        BY <1>1 DEF deliver, AnswersAccounted
    <2> QED
        BY <2>1, <2>2, <2>3, <2>4, <2>5
<1>2. ASSUME NEW d \in Deliveries, giveUp(d) PROVE Rest'
    <2>1. Carrying'
        BY <1>2 DEF giveUp, Carrying
    <2>2. ClaimOwned'
        BY <1>2 DEF giveUp, ClaimOwned
    <2>3. RanOnce'
        BY <1>2 DEF giveUp, RanOnce
    <2>4. RowsAccounted'
        BY <1>2 DEF giveUp, RowsAccounted
    <2>5. AnswersAccounted'
        BY <1>2 DEF giveUp, AnswersAccounted
    <2> QED
        BY <2>1, <2>2, <2>3, <2>4, <2>5
<1>3. ASSUME NEW d \in Deliveries, checkStore(d) PROVE Rest'
    <2>1. Carrying'
        BY <1>3 DEF checkStore, Carrying
    <2>2. ClaimOwned'
        BY <1>3 DEF checkStore, ClaimOwned
    <2>3. RanOnce'
        BY <1>3 DEF checkStore, RanOnce
    <2>4. RowsAccounted'
        BY <1>3 DEF checkStore, RowsAccounted
    <2>5. AnswersAccounted'
        BY <1>3 DEF checkStore, AnswersAccounted
    <2> QED
        BY <2>1, <2>2, <2>3, <2>4, <2>5
<1>4. ASSUME NEW d \in Deliveries, readRow(d) PROVE Rest'
    <2>1. Carrying'
        BY <1>4 DEF readRow, Carrying
    <2>2. ClaimOwned'
        BY <1>4 DEF readRow, ClaimOwned
    <2>3. RanOnce'
        BY <1>4 DEF readRow, RanOnce
    <2>4. RowsAccounted'
        BY <1>4 DEF readRow, RowsAccounted
    <2>5. AnswersAccounted'
        BY <1>4 DEF readRow, RanOnce, AnswersAccounted
    <2> QED
        BY <2>1, <2>2, <2>3, <2>4, <2>5
<1>5. ASSUME NEW d \in Deliveries, insertRow(d) PROVE Rest'
    <2>1. Carrying'
        BY <1>5 DEF insertRow, Carrying
    <2>2. ClaimOwned'
        BY <1>5 DEF insertRow, ClaimOwned
    <2>3. RanOnce'
        BY <1>5 DEF insertRow, RanOnce
    <2>4. RowsAccounted'
        BY <1>5 DEF insertRow, RowsAccounted
    <2>5. AnswersAccounted'
        BY <1>5 DEF insertRow, AnswersAccounted
    <2> QED
        BY <2>1, <2>2, <2>3, <2>4, <2>5
<1>6. ASSUME NEW d \in Deliveries, claimRow(d) PROVE Rest'
    <2>1. Carrying'
        BY <1>6 DEF claimRow, Holding, Carrying
    <2>2. ClaimOwned'
        BY <1>6 DEF claimRow, Holding, ClaimOwned
    <2>3. RanOnce'
        BY <1>6 DEF claimRow, Holding, RanOnce
    <2>4. RowsAccounted'
        BY <1>6 DEF claimRow, Holding, RowsAccounted
    <2>5. AnswersAccounted'
        BY <1>6 DEF claimRow, Holding, Carrying, RowsAccounted, AnswersAccounted
    <2> QED
        BY <2>1, <2>2, <2>3, <2>4, <2>5
<1>7. ASSUME NEW d \in Deliveries, dispatch(d) PROVE Rest'
    <2>1. Carrying'
        BY <1>7 DEF dispatch, Carrying
    <2>2. ClaimOwned'
        BY <1>7 DEF dispatch, ClaimOwned
    <2>3. RanOnce'
        BY <1>7 DEF dispatch, ClaimOwned, RanOnce
    <2>4. RowsAccounted'
        BY <1>7 DEF dispatch, RowsAccounted
    <2>5. AnswersAccounted'
        BY <1>7 DEF dispatch, Carrying, RanOnce, AnswersAccounted
    <2> QED
        BY <2>1, <2>2, <2>3, <2>4, <2>5
<1>8. ASSUME NEW d \in Deliveries, releaseClaim(d) PROVE Rest'
    <2>1. Carrying'
        BY <1>8 DEF releaseClaim, Carrying
    <2>2. ClaimOwned'
        BY <1>8 DEF releaseClaim, ClaimOwned
    <2>3. RanOnce'
        BY <1>8 DEF releaseClaim, RanOnce
    <2>4. RowsAccounted'
        BY <1>8 DEF releaseClaim, RowsAccounted
    <2>5. AnswersAccounted'
        BY <1>8 DEF releaseClaim, AnswersAccounted
    <2> QED
        BY <2>1, <2>2, <2>3, <2>4, <2>5
<1>9. ASSUME NEW d \in Deliveries, markProcessed(d) PROVE Rest'
    <2>1. Carrying'
        BY <1>9 DEF markProcessed, Carrying
    <2>2. ClaimOwned'
        BY <1>9 DEF markProcessed, Carrying, ClaimOwned
    <2>3. RanOnce'
        BY <1>9 DEF markProcessed, Carrying, RanOnce
    <2>4. RowsAccounted'
        BY <1>9 DEF markProcessed, RanOnce, RowsAccounted
    <2>5. AnswersAccounted'
        BY <1>9 DEF markProcessed, Carrying, RanOnce, AnswersAccounted
    <2> QED
        BY <2>1, <2>2, <2>3, <2>4, <2>5
<1>10. ASSUME NEW d \in Deliveries, addToStore(d) PROVE Rest'
    <2>1. Carrying'
        BY <1>10 DEF addToStore, Carrying
    <2>2. ClaimOwned'
        BY <1>10 DEF addToStore, ClaimOwned
    <2>3. RanOnce'
        BY <1>10 DEF addToStore, RanOnce
    <2>4. RowsAccounted'
        BY <1>10 DEF addToStore, RowsAccounted
    <2>5. AnswersAccounted'
        BY <1>10 DEF addToStore, AnswersAccounted
    <2> QED
        BY <2>1, <2>2, <2>3, <2>4, <2>5
<1>11. ASSUME NEW d \in Deliveries, die(d) PROVE Rest'
    <2>1. Carrying'
        BY <1>11 DEF die, Carrying
    <2>2. ClaimOwned'
        BY <1>11 DEF die, ClaimOwned
    <2>3. RanOnce'
        BY <1>11 DEF die, RanOnce
    <2>4. RowsAccounted'
        BY <1>11 DEF die, RowsAccounted
    <2>5. AnswersAccounted'
        BY <1>11 DEF die, AnswersAccounted
    <2> QED
        BY <2>1, <2>2, <2>3, <2>4, <2>5
<1>12. CASE UNCHANGED vars
    BY <1>12 DEF vars, Carrying, ClaimOwned, RanOnce, RowsAccounted, AnswersAccounted
<1>13. Rest'
    BY <1>1, <1>2, <1>3, <1>4, <1>5, <1>6, <1>7, <1>8, <1>9, <1>10, <1>11, <1>12 DEF Next, handle
<1> QED
    BY <1>13, NextTypeOK

-----------------------------------------------------------------------------
(* The theorems *)

\* The invariant holds throughout.
THEOREM Invariance == Spec => []Inv
<1>1. Init => Inv
    BY InitInv
<1>2. Inv /\ [Next]_vars => Inv'
    BY NextInv
<1> QED
    BY <1>1, <1>2, PTL DEF Spec

\* Whoever was told that an event is handled was told the truth, but for the events
\* that a delivery left to another that failed, and for stranded claims
\* (NombaWebhooksService.handle and handleWebhook's store of ids).
THEOREM AnsweredTruly == Spec => []AnsweredIsHandled
<1>1. Inv => AnsweredIsHandled
    <2> SUFFICES ASSUME Inv, NEW e \in seen \union acked
                 PROVE  effects[e] = 1 \/ Working(e) \/ e \in Lost
        BY DEF AnsweredIsHandled
    <2>1. e \in Events /\ Settled(e)
        BY DEF Inv, TypeOK, AnswersAccounted
    <2>2. CASE e \in skipped
        <3>1. row[e] \in {"claimed", "unclaimed"}
            BY <2>1, <2>2 DEF Inv, TypeOK, RowsAccounted
        <3> QED
            BY <2>1, <2>2, <3>1 DEF Inv, RowsAccounted, Has, Claims, Working, Holding, Lost
    <2> QED
        BY <2>1, <2>2 DEF Settled, Lost
<1> QED
    BY <1>1, Invariance, PTL

\* The deliveries implement the abstract inbox: an event is dispatched by one delivery
\* at a time, again only if its dispatch threw, and never once it is processed.
THEOREM InboxRefinement == Spec => ImplementsInbox
<1>1. Init => I!Init
    BY DEF Init, I!Init, rowOf
<1>2. Inv /\ [Next]_vars => [I!Next]_rowOf
    <2> SUFFICES ASSUME Inv, [Next]_vars PROVE I!Next \/ UNCHANGED rowOf
        OBVIOUS
    <2> USE DEF Inv, TypeOK, Carrying
    <2>1. ASSUME NEW d \in Deliveries, claimRow(d) PROVE I!Next \/ UNCHANGED rowOf
        <3>1. event[d] \in Events
            BY <2>1 DEF claimRow
        <3>2. CASE row[event[d]] = "unclaimed"
            <4>1. event[d] \notin processed /\ processed' = processed
                BY <2>1, <3>1, <3>2 DEF claimRow, ClaimOwned
            <4>2. row' = [row EXCEPT ![event[d]] = "claimed"]
                BY <2>1, <3>2 DEF claimRow
            <4>3. rowOf[event[d]] = "new"
                BY <3>1, <3>2, <4>1 DEF rowOf
            <4>4. rowOf' = [rowOf EXCEPT ![event[d]] = "claimed"]
                BY <3>1, <4>1, <4>2 DEF rowOf
            <4> QED
                BY <3>1, <4>3, <4>4 DEF I!Next, I!Claim
        <3>3. CASE row[event[d]] # "unclaimed"
            BY <2>1, <3>3 DEF claimRow, rowOf
        <3> QED
            BY <3>2, <3>3
    <2>2. ASSUME NEW d \in Deliveries, releaseClaim(d) PROVE I!Next \/ UNCHANGED rowOf
        <3>1. event[d] \in Events
            BY <2>2 DEF releaseClaim
        <3>2. event[d] \notin processed /\ row[event[d]] = "claimed" /\ processed' = processed
            BY <2>2, <3>1 DEF releaseClaim, ClaimOwned, Has
        <3>3. CASE row' = [row EXCEPT ![event[d]] = "unclaimed"]
            <4>1. rowOf[event[d]] = "claimed"
                BY <3>1, <3>2 DEF rowOf
            <4>2. rowOf' = [rowOf EXCEPT ![event[d]] = "new"]
                BY <3>1, <3>2, <3>3 DEF rowOf
            <4> QED
                BY <3>1, <4>1, <4>2 DEF I!Next, I!Release
        <3>4. CASE row' = row
            BY <3>2, <3>4 DEF rowOf
        <3> QED
            BY <2>2, <3>3, <3>4 DEF releaseClaim
    <2>3. ASSUME NEW d \in Deliveries, markProcessed(d) PROVE I!Next \/ UNCHANGED rowOf
        <3>1. event[d] \in Events
            BY <2>3 DEF markProcessed
        <3>2. event[d] \notin processed /\ row[event[d]] = "claimed" /\ row' = row
            BY <2>3, <3>1 DEF markProcessed, ClaimOwned, Has
        <3>3. CASE processed' = processed \union {event[d]}
            <4>1. rowOf[event[d]] = "claimed"
                BY <3>1, <3>2 DEF rowOf
            <4>2. rowOf' = [rowOf EXCEPT ![event[d]] = "processed"]
                BY <3>1, <3>2, <3>3 DEF rowOf
            <4> QED
                BY <3>1, <4>1, <4>2 DEF I!Next, I!Process
        <3>4. CASE processed' = processed
            BY <3>2, <3>4 DEF rowOf
        <3> QED
            BY <2>3, <3>3, <3>4 DEF markProcessed
    <2>4. ASSUME NEW d \in Deliveries, insertRow(d) PROVE UNCHANGED rowOf
        BY <2>4 DEF insertRow, rowOf
    <2>5. ASSUME NEW d \in Deliveries,
                 \/ \E e \in Events : deliver(d, e)
                 \/ giveUp(d) \/ checkStore(d) \/ readRow(d) \/ dispatch(d)
                 \/ addToStore(d) \/ die(d)
          PROVE  UNCHANGED rowOf
        BY <2>5 DEF deliver, giveUp, checkStore, readRow, dispatch, addToStore, die, rowOf
    <2>6. CASE UNCHANGED vars
        BY <2>6 DEF vars, rowOf
    <2> QED
        BY <2>1, <2>2, <2>3, <2>4, <2>5, <2>6 DEF Next, handle
<1> QED
    BY <1>1, <1>2, Invariance, PTL DEF Spec, ImplementsInbox, I!Spec
=============================================================================
