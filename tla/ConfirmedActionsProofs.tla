----------------------- MODULE ConfirmedActionsProofs -----------------------
(***************************************************************************)
(* Proofs about ConfirmedActions, for any number of requests, keys, codes  *)
(* and failures: who may carry out a payout, a refund or a contribution    *)
(* twice, and what a code confirms.                                        *)
(***************************************************************************)
EXTENDS ConfirmedActions, TLAPS, FiniteSetTheorems, SequenceTheorems, WellFoundedInduction

(* Types *)

Code == [op : Ops, consumed : BOOLEAN, by : Keys \union {"none"}, attempts : Nat,
         expired : BOOLEAN, mailed : BOOLEAN]

Execution == [key : Keys, op : Ops, code : Nat, retried : BOOLEAN, raced : BOOLEAN]

WorkingSteps == {"verify", "attempt", "consume", "trigger", "complete", "delete key"}

UnderWay == [pc : WorkingSteps \union {"ok", "failed", "lost"}, key : Keys, op : Ops,
             code : Nat, otp : Nat, seen : Nat, fresh : BOOLEAN, retried : BOOLEAN,
             raced : BOOLEAN, gateway : BOOLEAN]

Hashes == {<<>>} \union {hashRequest(op, code) : op \in Ops, code \in Nat}

\* What the dialog is for before it was opened.
NoOp == CHOOSE o \in Ops : TRUE

Modal == [step : {"none", "form", "otp", "submitting", "retry", "closed"},
          op : Ops \union {NoOp}, attempt : Nat, sent : SUBSET Requests,
          overlapped : BOOLEAN]

TypeOK ==
    /\ keys \in [Keys -> [status : {"absent", "in_progress", "completed"}, hash : Hashes]]
    /\ codes \in Seq(Code)
    /\ req \in [Requests -> {Idle} \union UnderWay]
    /\ client \in {"web", "api"}
    /\ modal \in Modal
    /\ modal.step \notin {"none", "closed"} => modal.op \in Ops
    /\ done \in Seq(Execution)
-----------------------------------------------------------------------------
(* The inductive invariants *)

Working(r) == req[r].pc \in WorkingSteps

\* A request in progress owns its key: the row says so, and no other request has it.
KeyOwned ==
    /\ \A r \in Requests : Working(r) => keys[req[r].key].status = "in_progress"
    /\ \A r, s \in Requests : Working(r) /\ Working(s) /\ req[r].key = req[s].key => r = s

\* What was carried out under a key keeps its row, unless the completion was not
\* written: nobody is before the trigger under that key any more.
KeySpent ==
    /\ \A i \in DOMAIN done :
          \/ done[i].key \in unrecorded
          \/ /\ keys[done[i].key].status # "absent"
             /\ \A r \in Requests :
                   Working(r) /\ req[r].key = done[i].key => req[r].pc = "complete"
    /\ \A i, j \in DOMAIN done :
          done[i].key = done[j].key => i = j \/ done[i].key \in unrecorded

\* What a request that passed a code, and what an execution, has to show for it.
Confirmed(cs, op, c, retried) ==
    IF needsCode(op) THEN c \in DOMAIN cs /\ (cs[c].op = op \/ retried) ELSE c = 0

\* From verify on a request is about a code there is; it consumes only a code for what
\* it asks for, and one that nobody had consumed when it looked.
CodesChecked ==
    /\ \A r \in Requests : req[r].pc \in {"verify", "attempt", "consume"} => needsCode(req[r].op)
    /\ \A r \in Requests : req[r].pc \in {"attempt", "consume"} => req[r].otp \in DOMAIN codes
    /\ \A r \in Requests : req[r].pc = "consume" =>
          req[r].fresh /\ ~req[r].retried /\ codes[req[r].otp].op = req[r].op
    /\ \A r \in Requests : req[r].pc = "trigger" =>
          Confirmed(codes, req[r].op, req[r].otp, req[r].retried)
    /\ \A r \in Requests : req[r].pc = "verify" => ~req[r].retried
    /\ \A i \in DOMAIN done : Confirmed(codes, done[i].op, done[i].code, done[i].retried)

\* A request, and an execution, whose code nobody had consumed before it did.
First(r)     == req[r].pc = "trigger" /\ req[r].otp # 0 /\ ~req[r].retried /\ ~req[r].raced
FirstDone(i) == done[i].code # 0 /\ ~done[i].retried /\ ~done[i].raced

\* A code is consumed for the first time once.
FirstOnce ==
    /\ \A r \in Requests : First(r) => codes[req[r].otp].consumed
    /\ \A i \in DOMAIN done : FirstDone(i) => codes[done[i].code].consumed
    /\ \A r, s \in Requests : First(r) /\ First(s) /\ req[r].otp = req[s].otp => r = s
    /\ \A r \in Requests, i \in DOMAIN done :
          First(r) /\ FirstDone(i) => req[r].otp # done[i].code
    /\ \A i, j \in DOMAIN done :
          FirstDone(i) /\ FirstDone(j) /\ done[i].code = done[j].code => i = j

\* A dialog that never sent a request while one was unanswered: what it carried out
\* closed it, or is still to be answered, and no other request of it is under way.
OneAtATime ==
    client = "web" /\ ~modal.overlapped =>
        /\ \A r \in Requests : req[r].pc # "idle" => r \in modal.sent
        /\ \A r, s \in modal.sent : r = s
        /\ unrecorded = {} =>
              /\ Len(done) <= 1
              /\ done # <<>> => modal.step = "closed" \/ modal.sent # {}
              /\ \A r \in Requests :
                    req[r].pc \in (WorkingSteps \ {"complete"}) \union {"failed"} => done = <<>>

Inv == TypeOK /\ KeyOwned /\ KeySpent /\ CodesChecked /\ FirstOnce /\ OneAtATime
-----------------------------------------------------------------------------
(* Lemmas *)

\* A negation is a Boolean.
LEMMA Negation == \A x : (~x) \in BOOLEAN
BY Zenon

\* A set of at most one element.
LEMMA AtMostOne ==
    ASSUME NEW S, \A x, y \in S : x = y
    PROVE  Cardinality(S) <= 1
<1>1. CASE S = {}
  BY <1>1, FS_EmptySet
<1>2. CASE S # {}
  <2>1. PICK x \in S : S = {x}
    BY <1>2
  <2> QED
    BY <2>1, FS_Singleton
<1> QED
  BY <1>1, <1>2

\* There is a newest code (findFirst with orderBy createdAt desc).
LEMMA NewestIsOne ==
    ASSUME NEW n \in Nat, NEW S \in SUBSET (1 .. n), S # {}
    PROVE  Newest(S) \in S
<1> DEFINE T == {k \in Nat : n - k \in S}
<1>1. T # {}
  <2>1. PICK i \in S : TRUE
    OBVIOUS
  <2>2. n - i \in Nat /\ n - (n - i) = i
    OBVIOUS
  <2> QED
    BY <2>2
<1>2. PICK k \in T : \A l \in T : ~(<<l, k>> \in OpToRel(<, Nat))
  BY <1>1, NatLessThanWellFounded, WFMin
<1>3. ASSUME NEW l \in T, ~(k <= l)
      PROVE  FALSE
  <2>1. l < k /\ <<l, k>> \in Nat \X Nat
    BY <1>3
  <2>2. <<l, k>> \in OpToRel(<, Nat)
    BY <2>1 DEF OpToRel
  <2> QED
    BY <2>2, <1>2
<1>4. ASSUME NEW j \in S
      PROVE  j <= n - k
  <2>1. n - j \in Nat /\ n - (n - j) = j
    OBVIOUS
  <2>2. k <= n - j
    BY <2>1, <1>3
  <2> QED
    BY <2>2
<1>5. n - k \in S
  OBVIOUS
<1> QED
  BY <1>4, <1>5 DEF Newest

\* The codes a request looks at are codes.
LEMMA NewestCode ==
    ASSUME codes \in Seq(Code), NEW S \in SUBSET DOMAIN codes, S # {}
    PROVE  Newest(S) \in S /\ Newest(S) \in Nat \ {0}
<1>1. DOMAIN codes = 1 .. Len(codes) /\ Len(codes) \in Nat
  OBVIOUS
<1>2. S \in SUBSET (1 .. Len(codes))
  BY <1>1
<1>3. Newest(S) \in S
  BY <1>1, <1>2, NewestIsOne
<1> QED
  BY <1>1, <1>2, <1>3

\* Appending to the history.
LEMMA Appended ==
    ASSUME NEW T, NEW s \in Seq(T), NEW e \in T, NEW t, t = Append(s, e)
    PROVE  /\ t \in Seq(T)
           /\ Len(t) = Len(s) + 1 /\ Len(s) \in Nat
           /\ DOMAIN t = DOMAIN s \union {Len(s) + 1}
           /\ Len(s) + 1 \notin DOMAIN s
           /\ \A i \in DOMAIN s : t[i] = s[i]
           /\ t[Len(s) + 1] = e
           /\ t # <<>>
<1>1. /\ t \in Seq(T) /\ Len(t) = Len(s) + 1 /\ Len(s) \in Nat
      /\ DOMAIN t = 1 .. Len(t) /\ DOMAIN s = 1 .. Len(s)
      /\ \A i \in 1 .. Len(s) : t[i] = s[i]
      /\ t[Len(s) + 1] = e
      /\ t # <<>>
  BY AppendProperties, LenProperties
<1> QED
  BY <1>1

USE DEF At, Goto, Fault, NoRow

\* What is not idle is under way.
LEMMA InProgress ==
    ASSUME TypeOK, NEW r \in Requests, req[r].pc # "idle"
    PROVE  req[r] \in UnderWay
BY DEF TypeOK, Idle

\* What a step may do to the codes: their contexts stay and what is consumed remains so.
CodesGrow ==
    /\ codes' \in Seq(Code)
    /\ DOMAIN codes \subseteq DOMAIN codes'
    /\ \A i \in DOMAIN codes : /\ codes'[i].op = codes[i].op
                               /\ codes[i].consumed => codes'[i].consumed

\* A new code is appended.
LEMMA RequestCodeGrows ==
    ASSUME TypeOK, NEW op \in Ops, requestCode(op)
    PROVE  CodesGrow
<1>0. codes \in Seq(Code)
  BY DEF TypeOK
<1>1. CASE UNCHANGED codes
  BY <1>0, <1>1 DEF CodesGrow
<1>2. ASSUME NEW mailed \in BOOLEAN,
             codes' = Append(codes, [op |-> op, consumed |-> FALSE, by |-> "none",
                                     attempts |-> 0, expired |-> FALSE, mailed |-> mailed])
      PROVE  CodesGrow
  <2>1. [op |-> op, consumed |-> FALSE, by |-> "none", attempts |-> 0, expired |-> FALSE,
         mailed |-> mailed] \in Code
    BY DEF Code
  <2> QED
    BY <1>0, <1>2, <2>1, Appended DEF CodesGrow
<1> QED
  BY <1>1, <1>2 DEF requestCode

\* One code is written to.
LEMMA CodeWritten ==
    ASSUME codes \in Seq(Code), NEW i \in DOMAIN codes, NEW c \in Code,
           codes' = [codes EXCEPT ![i] = c],
           c.op = codes[i].op, codes[i].consumed => c.consumed
    PROVE  CodesGrow
<1>1. DOMAIN codes = 1 .. Len(codes)
  OBVIOUS
<1>2. codes' \in Seq(Code) /\ DOMAIN codes' = DOMAIN codes
  BY <1>1, ExceptSeq
<1>3. \A j \in DOMAIN codes : codes'[j] = IF j = i THEN c ELSE codes[j]
  OBVIOUS
<1> QED
  BY <1>2, <1>3 DEF CodesGrow

\* Every step.
LEMMA NextCodes ==
    ASSUME TypeOK, CodesChecked, [Next]_vars
    PROVE  CodesGrow
<1>0. codes \in Seq(Code) /\ req \in [Requests -> {Idle} \union UnderWay]
  BY DEF TypeOK
<1>1. CASE UNCHANGED codes
  BY <1>0, <1>1 DEF CodesGrow
<1>2. ASSUME NEW op \in Ops, requestOtpHandler(op)
      PROVE  CodesGrow
  BY <1>2, RequestCodeGrows DEF requestOtpHandler
<1>3. CASE handleContinue \/ handleResend
  <2>1. modal.op \in Ops /\ requestCode(modal.op)
    BY <1>3 DEF TypeOK, handleContinue, handleResend
  <2> QED
    BY <2>1, RequestCodeGrows
<1>4. CASE codeExpires
  <2>1. PICK i \in DOMAIN codes : codes' = [codes EXCEPT ![i].expired = TRUE]
    BY <1>4 DEF codeExpires
  <2>2. codes[i] \in Code
    BY <1>0
  <2>3. codes' = [codes EXCEPT ![i] = [codes[i] EXCEPT !.expired = TRUE]]
    BY <2>1
  <2>4. /\ [codes[i] EXCEPT !.expired = TRUE] \in Code
        /\ [codes[i] EXCEPT !.expired = TRUE].op = codes[i].op
        /\ [codes[i] EXCEPT !.expired = TRUE].consumed = codes[i].consumed
    BY <2>2 DEF Code
  <2> QED
    BY <1>0, <2>3, <2>4, CodeWritten
<1>5. ASSUME NEW r \in Requests, countAttempt(r)
      PROVE  CodesGrow
  <2> DEFINE i == req[r].otp
             c == [codes[i] EXCEPT !.attempts = req[r].seen + 1]
  <2>1. i \in DOMAIN codes /\ codes' = [codes EXCEPT ![i] = c]
    BY <1>5 DEF countAttempt, CodesChecked
  <2>2. codes[i] \in Code
    BY <1>0, <2>1
  <2>3. req[r].seen \in Nat
    BY <1>5, InProgress DEF countAttempt, UnderWay
  <2>4. c \in Code /\ c.op = codes[i].op /\ c.consumed = codes[i].consumed
    BY <2>2, <2>3 DEF Code
  <2> QED
    BY <1>0, <2>1, <2>4, CodeWritten
<1>6. ASSUME NEW r \in Requests, consume(r)
      PROVE  CodesGrow
  <2> DEFINE i == req[r].otp
             c == [codes[i] EXCEPT !.consumed = TRUE, !.by = req[r].key]
  <2>1. i \in DOMAIN codes /\ codes' = [codes EXCEPT ![i] = c]
    BY <1>6 DEF consume, CodesChecked
  <2>2. codes[i] \in Code
    BY <1>0, <2>1
  <2>3. req[r].key \in Keys
    BY <1>6, InProgress DEF consume, UnderWay
  <2>4. c \in Code /\ c.op = codes[i].op /\ c.consumed = TRUE
    BY <2>2, <2>3 DEF Code
  <2> QED
    BY <1>0, <2>1, <2>4, CodeWritten
<1>7. CASE cooldownPasses \/ onBack \/ handleClose \/ UNCHANGED vars
           \/ \E op \in Ops : openModal(op) \/ editForm(op)
  BY <1>1, <1>7 DEF cooldownPasses, onBack, handleClose, openModal, editForm, vars
<1>8. ASSUME NEW r \in Requests,
             \/ verify(r) \/ trigger(r) \/ complete(r) \/ deleteKey(r) \/ die(r)
             \/ loseAnswer(r) \/ handleSubmit(r) \/ webAnswer(r)
      PROVE  CodesGrow
  BY <1>1, <1>8
     DEF verify, trigger, complete, deleteKey, die, loseAnswer, handleSubmit, webAnswer
<1>9. ASSUME NEW r \in Requests, NEW key \in Keys, NEW op \in Ops, NEW code,
             apiRequest(r, key, op, code) \/ handleVerify(r, code)
      PROVE  CodesGrow
  BY <1>1, <1>9 DEF apiRequest, handleVerify
<1>10. ASSUME NEW r \in Requests, NEW code, handleVerify(r, code)
       PROVE  CodesGrow
  BY <1>1, <1>10 DEF handleVerify
<1> QED
  BY <1>2, <1>3, <1>4, <1>5, <1>6, <1>7, <1>8, <1>9, <1>10 DEF Next
-----------------------------------------------------------------------------
(* Type correctness *)

\* The initial state is well typed.
LEMMA InitType == Init => TypeOK
BY DEF Init, TypeOK, Hashes, Modal, NoOp, Idle

\* A request record with one field changed.
LEMMA FieldType ==
    ASSUME NEW q \in UnderWay, NEW step \in WorkingSteps \union {"ok", "failed", "lost"}
    PROVE  [q EXCEPT !.pc = step] \in UnderWay
BY DEF UnderWay, WorkingSteps

\* An answer keeps its request, or leaves the slot free.
LEMMA AnsweredType ==
    ASSUME NEW q \in UnderWay, NEW ok \in BOOLEAN
    PROVE  Answered(q, ok) \in {Idle} \union UnderWay
BY FieldType DEF Answered

\* A request that is sent has a key, an operation and a code.
LEMMA SendType ==
    ASSUME TypeOK, NEW r \in Requests, NEW key \in Keys, NEW op \in Ops, NEW code \in Nat,
           Send(r, key, op, code)
    PROVE  /\ req' \in [Requests -> {Idle} \union UnderWay]
           /\ keys' \in [Keys -> [status : {"absent", "in_progress", "completed"}, hash : Hashes]]
<1>1. \A pc \in WorkingSteps : Request(pc, key, op, code) \in UnderWay
  BY DEF Request, UnderWay, WorkingSteps
<1>2. hashRequest(op, code) \in Hashes
  BY DEF Hashes
<1>3. "verify" \in WorkingSteps /\ "trigger" \in WorkingSteps
  BY DEF WorkingSteps
<1>4. CASE keys[key].status = "absent"
  <2>1. PICK step \in WorkingSteps :
          /\ req' = [req EXCEPT ![r] = Request(step, key, op, code)]
          /\ keys' = [keys EXCEPT ![key] = [status |-> "in_progress",
                                            hash |-> hashRequest(op, code)]]
    BY <1>3, <1>4 DEF Send, insertKey
  <2>2. [status |-> "in_progress", hash |-> hashRequest(op, code)]
          \in [status : {"absent", "in_progress", "completed"}, hash : Hashes]
    BY <1>2
  <2> QED
    BY <1>1, <2>1, <2>2 DEF TypeOK
<1>5. CASE keys[key].status # "absent"
  <2> DEFINE ok == keys[key] = [status |-> "completed", hash |-> hashRequest(op, code)]
  <2>1. /\ req' = [req EXCEPT ![r] = Answered(Request("verify", key, op, code), ok)]
        /\ keys' = keys
    BY <1>5 DEF Send, insertKey
  <2>2. Answered(Request("verify", key, op, code), ok) \in {Idle} \union UnderWay
    BY <1>1, <1>3, AnsweredType
  <2> QED
    BY <2>1, <2>2 DEF TypeOK
<1> QED
  BY <1>4, <1>5

\* Codes are numbered from 1.
LEMMA CodeNumbers ==
    ASSUME TypeOK, NEW code \in {WrongCode} \union DOMAIN codes
    PROVE  code \in Nat
BY DEF TypeOK, WrongCode

\* Every step keeps the types.
LEMMA NextType ==
    ASSUME TypeOK, CodesChecked, [Next]_vars
    PROVE  TypeOK'
<1>c. codes' \in Seq(Code)
  BY NextCodes DEF CodesGrow
<1>0. /\ keys \in [Keys -> [status : {"absent", "in_progress", "completed"}, hash : Hashes]]
      /\ req \in [Requests -> {Idle} \union UnderWay]
      /\ client \in {"web", "api"}
      /\ modal \in Modal /\ (modal.step \notin {"none", "closed"} => modal.op \in Ops)
      /\ done \in Seq(Execution)
  BY DEF TypeOK
<1>1. CASE UNCHANGED <<keys, req, client, modal, done>>
  BY <1>0, <1>1, <1>c DEF TypeOK
<1>2. CASE \/ cooldownPasses \/ codeExpires \/ handleResend \/ UNCHANGED vars
           \/ \E op \in Ops : requestOtpHandler(op)
  BY <1>1, <1>2 DEF cooldownPasses, codeExpires, handleResend, requestOtpHandler, vars
<1>3. ASSUME UNCHANGED <<keys, req, client, done>>, modal' \in Modal,
             modal'.step \notin {"none", "closed"} => modal'.op \in Ops
      PROVE  TypeOK'
  BY <1>0, <1>3, <1>c DEF TypeOK
<1>4. ASSUME NEW op \in Ops, openModal(op) \/ editForm(op)
      PROVE  TypeOK'
  BY <1>0, <1>3, <1>4 DEF openModal, editForm, Modal
<1>5. CASE handleContinue \/ onBack \/ handleClose
  BY <1>0, <1>3, <1>5 DEF handleContinue, onBack, handleClose, Modal
<1>6. ASSUME NEW r \in Requests, UNCHANGED <<keys, client, modal, done>>,
             NEW q \in {Idle} \union UnderWay, req' = [req EXCEPT ![r] = q]
      PROVE  TypeOK'
  BY <1>0, <1>6, <1>c DEF TypeOK
<1>7. ASSUME NEW r \in Requests, verify(r)
      PROVE  TypeOK'
  <2>0. req[r] \in UnderWay /\ UNCHANGED <<keys, client, modal, done>>
    BY <1>7, InProgress DEF verify
  <2>1. CASE Goto(r, "delete key")
    BY <2>0, <2>1, <1>6, FieldType DEF WorkingSteps
  <2>2. ASSUME NEW i \in DOMAIN codes,
               req' = [req EXCEPT ![r].pc = "trigger", ![r].otp = i, ![r].retried = TRUE]
        PROVE  TypeOK'
    <3> DEFINE q == [req[r] EXCEPT !.pc = "trigger", !.otp = i, !.retried = TRUE]
    <3>1. i \in Nat
      BY DEF TypeOK
    <3>2. q \in UnderWay
      BY <2>0, <3>1 DEF UnderWay, WorkingSteps
    <3>3. req' = [req EXCEPT ![r] = q]
      BY <2>2
    <3> HIDE DEF q
    <3> QED
      BY <2>0, <3>2, <3>3, <1>6
  <2>3. ASSUME NEW i \in DOMAIN codes, NEW step \in {"consume", "attempt"}, NEW fresh \in BOOLEAN,
               req' = [req EXCEPT ![r].otp = i, ![r].seen = codes[i].attempts,
                                  ![r].fresh = fresh, ![r].pc = step]
        PROVE  TypeOK'
    <3> DEFINE q == [req[r] EXCEPT !.otp = i, !.seen = codes[i].attempts, !.fresh = fresh,
                                   !.pc = step]
    <3>0. codes[i] \in Code
      BY DEF TypeOK
    <3>1. i \in Nat /\ codes[i].attempts \in Nat
      BY <3>0 DEF TypeOK, Code
    <3>2. q \in UnderWay
      BY <2>0, <3>1 DEF UnderWay, WorkingSteps
    <3>3. req' = [req EXCEPT ![r] = q]
      BY <2>3
    <3> HIDE DEF q
    <3> QED
      BY <2>0, <3>2, <3>3, <1>6
  <2> DEFINE all   == ofAction(req[r].op.action)
             fresh == unconsumed(req[r].op.action)
  <2>4. codes \in Seq(Code) /\ all \in SUBSET DOMAIN codes /\ fresh \in SUBSET DOMAIN codes
    BY DEF TypeOK, ofAction, unconsumed
  <2>5. CASE fresh = {}
    <3>1. all # {} => Newest(all) \in DOMAIN codes
      BY <2>4, NewestCode
    <3> QED
      BY <1>7, <2>1, <2>2, <2>5, <3>1 DEF verify
  <2>6. CASE fresh # {}
    <3>1. Newest(fresh) \in DOMAIN codes
      BY <2>4, <2>6, NewestCode
    <3>2. (~codes[Newest(fresh)].consumed) \in BOOLEAN
      BY Negation
    <3>3. \/ Goto(r, "delete key")
          \/ \E step \in {"consume", "attempt"} :
                req' = [req EXCEPT ![r].otp = Newest(fresh),
                                   ![r].seen = codes[Newest(fresh)].attempts,
                                   ![r].fresh = ~codes[Newest(fresh)].consumed,
                                   ![r].pc = step]
      BY <1>7, <2>6 DEF verify
    <3> QED
      BY <2>1, <2>3, <3>1, <3>2, <3>3
  <2> QED
    BY <2>5, <2>6
<1>8. ASSUME NEW r \in Requests, countAttempt(r) \/ loseAnswer(r) \/ die(r)
      PROVE  TypeOK'
  <2>1. req[r] \in UnderWay /\ UNCHANGED <<keys, client, modal, done>>
    BY <1>8, InProgress DEF countAttempt, loseAnswer, die
  <2> QED
    BY <1>8, <2>1, <1>6, FieldType DEF countAttempt, loseAnswer, die, WorkingSteps
<1>9. ASSUME NEW r \in Requests, consume(r)
      PROVE  TypeOK'
  <2> DEFINE b == req[r].fresh /\ codes[req[r].otp].consumed
             q == [req[r] EXCEPT !.pc = "trigger", !.raced = b]
  <2>1. req[r] \in UnderWay /\ UNCHANGED <<keys, client, modal, done>>
    BY <1>9, InProgress DEF consume
  <2>2. b \in BOOLEAN
    OBVIOUS
  <2>3. q \in UnderWay
    <3> HIDE DEF b
    <3> QED BY <2>1, <2>2 DEF UnderWay, WorkingSteps
  <2>4. req' = [req EXCEPT ![r] = q]
    BY <1>9 DEF consume
  <2> HIDE DEF q
  <2> QED
    BY <2>1, <2>3, <2>4, <1>6
<1>10. ASSUME NEW r \in Requests, trigger(r)
       PROVE  TypeOK'
  <2>1. req[r] \in UnderWay /\ UNCHANGED <<keys, client, modal>>
    BY <1>10, InProgress DEF trigger
  <2>2. CASE /\ done' = Append(done, [key |-> req[r].key, op |-> req[r].op, code |-> req[r].otp,
                                      retried |-> req[r].retried, raced |-> req[r].raced])
             /\ Goto(r, "complete")
    <3>1. [key |-> req[r].key, op |-> req[r].op, code |-> req[r].otp,
           retried |-> req[r].retried, raced |-> req[r].raced] \in Execution
      BY <2>1 DEF UnderWay, Execution
    <3>2. done' \in Seq(Execution)
      BY <1>0, <2>2, <3>1, Appended
    <3>3. req' \in [Requests -> {Idle} \union UnderWay]
      BY <1>0, <2>1, <2>2, FieldType DEF WorkingSteps
    <3> QED
      BY <1>0, <1>c, <2>1, <3>2, <3>3 DEF TypeOK
  <2>3. ASSUME NEW g \in BOOLEAN,
               req' = [req EXCEPT ![r].pc = "delete key", ![r].gateway = g], UNCHANGED done
        PROVE  TypeOK'
    <3> DEFINE q == [req[r] EXCEPT !.pc = "delete key", !.gateway = g]
    <3>1. q \in UnderWay
      BY <2>1 DEF UnderWay, WorkingSteps
    <3>2. req' = [req EXCEPT ![r] = q]
      BY <2>3
    <3> HIDE DEF q
    <3> QED
      BY <2>1, <2>3, <3>1, <3>2, <1>6
  <2> QED
    BY <1>10, <2>2, <2>3 DEF trigger
<1>11. ASSUME NEW r \in Requests, complete(r)
       PROVE  TypeOK'
  <2>1. req[r] \in UnderWay /\ UNCHANGED <<client, modal, done>>
    BY <1>11, InProgress DEF complete
  <2>2. req[r].key \in Keys
    BY <2>1 DEF UnderWay
  <2>3. keys' \in [Keys -> [status : {"absent", "in_progress", "completed"}, hash : Hashes]]
    BY <1>0, <1>11, <2>2 DEF complete
  <2>4. req' \in [Requests -> {Idle} \union UnderWay]
    <3>1. [req[r] EXCEPT !.pc = "delete key"] \in UnderWay
      BY <2>1, FieldType DEF WorkingSteps
    <3>2. Answered(req[r], TRUE) \in {Idle} \union UnderWay
      BY <2>1, AnsweredType
    <3>3. \/ req' = [req EXCEPT ![r] = Answered(req[r], TRUE)]
          \/ req' = [req EXCEPT ![r] = [req[r] EXCEPT !.pc = "delete key"]]
      BY <1>11 DEF complete, Answer
    <3> QED
      BY <1>0, <3>1, <3>2, <3>3
  <2> QED
    BY <1>0, <1>c, <2>1, <2>3, <2>4 DEF TypeOK
<1>12. ASSUME NEW r \in Requests, deleteKey(r)
       PROVE  TypeOK'
  <2>1. req[r] \in UnderWay /\ UNCHANGED <<client, modal, done>>
    BY <1>12, InProgress DEF deleteKey
  <2>2. req[r].key \in Keys
    BY <2>1 DEF UnderWay
  <2>3. keys' \in [Keys -> [status : {"absent", "in_progress", "completed"}, hash : Hashes]]
    <3>1. NoRow \in [status : {"absent", "in_progress", "completed"}, hash : Hashes]
      BY DEF Hashes
    <3>2. keys' = [keys EXCEPT ![req[r].key] = NoRow]
      BY <1>12 DEF deleteKey
    <3> HIDE DEF NoRow
    <3> QED
      BY <1>0, <2>2, <3>1, <3>2
  <2>4. req' \in [Requests -> {Idle} \union UnderWay]
    BY <1>0, <1>12, <2>1, AnsweredType DEF deleteKey, Answer
  <2> QED
    BY <1>0, <1>c, <2>1, <2>3, <2>4 DEF TypeOK
<1>13. ASSUME NEW r \in Requests, NEW key \in Keys, NEW op \in Ops,
              NEW code \in {WrongCode} \union DOMAIN codes, apiRequest(r, key, op, code)
       PROVE  TypeOK'
  <2>1. Send(r, key, op, code) /\ UNCHANGED <<client, modal, done>>
    BY <1>13 DEF apiRequest
  <2> QED
    BY <1>0, <1>c, <2>1, SendType, CodeNumbers DEF TypeOK
<1>14. ASSUME NEW r \in Requests, NEW code \in {WrongCode} \union DOMAIN codes,
              handleVerify(r, code) \/ (code = WrongCode /\ handleSubmit(r))
       PROVE  TypeOK'
  <2>1. PICK key \in Keys : Send(r, key, modal.op, code)
    BY <1>14 DEF handleVerify, handleSubmit
  <2>2. modal.op \in Ops
    BY <1>0, <1>14 DEF handleVerify, handleSubmit
  <2>3. modal' \in Modal /\ modal'.op \in Ops
    <3> DEFINE b == modal.overlapped \/ modal.sent # {}
               n == IF modal.step = "form" THEN 1 ELSE modal.attempt + 1
               t == modal.sent \union {r}
    <3>1. b \in BOOLEAN /\ n \in Nat /\ t \in SUBSET Requests
      BY <1>0 DEF Modal
    <3>2. \/ modal' = [modal EXCEPT !.step = "submitting", !.sent = t, !.overlapped = b]
          \/ modal' = [modal EXCEPT !.step = "submitting", !.sent = t, !.overlapped = b,
                                    !.attempt = n]
      BY <1>14 DEF handleVerify, handleSubmit
    <3> HIDE DEF b, n, t
    <3> QED
      BY <1>0, <2>2, <3>1, <3>2 DEF Modal
  <2>4. UNCHANGED <<client, done>>
    BY <1>14 DEF handleVerify, handleSubmit
  <2> QED
    BY <1>0, <1>c, <2>1, <2>2, <2>3, <2>4, SendType, CodeNumbers DEF TypeOK
<1>15. ASSUME NEW r \in Requests, webAnswer(r)
       PROVE  TypeOK'
  <2>1. req' \in [Requests -> {Idle} \union UnderWay] /\ UNCHANGED <<keys, client, done>>
    BY <1>0, <1>15 DEF webAnswer
  <2> DEFINE m == IF req[r].pc = "ok" THEN confirmed(modal)
                  ELSE IF modal.step # "submitting" THEN modal
                  ELSE IF needsCode(modal.op) THEN [modal EXCEPT !.step = "otp"]
                  ELSE IF req[r].pc = "failed" /\ req[r].gateway
                            /\ modal.attempt < VIRTUAL_ACCOUNT_MAX_ATTEMPTS
                  THEN [modal EXCEPT !.step = "retry"]
                  ELSE [modal EXCEPT !.step = "form"]
             left == IF req[r].pc = "lost" THEN m.sent ELSE m.sent \ {r}
  <2>2. m \in Modal /\ m.op = modal.op
    BY <1>0 DEF confirmed, Modal
  <2>3. m.step \notin {"none", "closed"} => modal.step \notin {"none", "closed"}
    BY <1>0 DEF confirmed, Modal
  <2>4. modal' = [m EXCEPT !.sent = left]
    BY <1>15 DEF webAnswer
  <2>5. left \in SUBSET Requests
    <3> HIDE DEF m
    <3> QED BY <2>2 DEF Modal
  <2>6. modal' \in Modal /\ modal'.op = m.op /\ modal'.step = m.step
    <3> HIDE DEF m, left
    <3> QED BY <2>2, <2>4, <2>5 DEF Modal
  <2>7. modal'.step \notin {"none", "closed"} => modal'.op \in Ops
    <3> HIDE DEF m, left
    <3> QED BY <1>0, <2>2, <2>3, <2>6
  <2> QED
    BY <1>0, <1>c, <2>1, <2>6, <2>7 DEF TypeOK
<1> QED
  BY <1>2, <1>4, <1>5, <1>7, <1>8, <1>9, <1>10, <1>11, <1>12, <1>13, <1>14, <1>15 DEF Next
-----------------------------------------------------------------------------
(* What the steps do to a request *)

\* The other requests are left alone.
OthersKept(r) == \A s \in Requests : s # r => req'[s] = req[s]

\* Sending: the request is let in under a key that had no row, or answered at once.
LEMMA SendShape ==
    ASSUME TypeOK, NEW r \in Requests, NEW key \in Keys, NEW op, NEW code,
           Send(r, key, op, code)
    PROVE  /\ req[r].pc = "idle" /\ OthersKept(r)
           /\ \/ /\ keys[key].status = "absent" /\ keys'[key].status = "in_progress"
                 /\ \A k \in Keys : k # key => keys'[k] = keys[k]
                 /\ req'[r] = Request(IF needsCode(op) THEN "verify" ELSE "trigger", key, op, code)
              \/ UNCHANGED keys /\ req'[r].pc \in {"idle", "ok", "failed"}
<1>0. /\ req \in [Requests -> {Idle} \union UnderWay]
      /\ keys \in [Keys -> [status : {"absent", "in_progress", "completed"}, hash : Hashes]]
  BY DEF TypeOK
<1>1. req[r].pc = "idle" /\ OthersKept(r)
  BY <1>0 DEF Send, insertKey, Idle, OthersKept
<1>2. CASE keys[key].status = "absent"
  BY <1>0, <1>1, <1>2 DEF Send, insertKey
<1>3. CASE keys[key].status # "absent"
  <2>1. PICK ok \in BOOLEAN :
          req' = [req EXCEPT ![r] = Answered(Request("verify", key, op, code), ok)]
    BY <1>3 DEF Send, insertKey
  <2>2. req'[r] = Answered(Request("verify", key, op, code), ok)
    BY <1>0, <2>1
  <2>3. req'[r].pc \in {"idle", "ok", "failed"}
    BY <2>2 DEF Answered, Request, Idle
  <2> QED
    BY <1>1, <1>3, <2>3 DEF Send, insertKey
<1> QED
  BY <1>2, <1>3

\* verify: refused, let through as a retry, or on to the first write about a code.
LEMMA VerifyShape ==
    ASSUME TypeOK, NEW r \in Requests, verify(r)
    PROVE  /\ OthersKept(r) /\ req[r].pc = "verify"
           /\ req'[r].key = req[r].key /\ req'[r].op = req[r].op
           /\ req'[r].pc \in {"delete key", "trigger", "consume", "attempt"}
           /\ req'[r].pc # "delete key" => req'[r].otp \in DOMAIN codes
           /\ req'[r].pc = "trigger" => req'[r].retried
           /\ req'[r].pc = "consume" =>
                 req'[r].fresh /\ codes[req'[r].otp].op = req[r].op
                 /\ (req'[r].retried <=> req[r].retried)
<1>0. req \in [Requests -> {Idle} \union UnderWay] /\ req[r] \in UnderWay /\ codes \in Seq(Code)
  BY InProgress DEF TypeOK, verify
<1>1. OthersKept(r) /\ req[r].pc = "verify"
  BY <1>0 DEF verify, OthersKept
<1> DEFINE all   == ofAction(req[r].op.action)
           fresh == unconsumed(req[r].op.action)
           i     == Newest(fresh)
<1>2. all \in SUBSET DOMAIN codes /\ fresh \in SUBSET DOMAIN codes
  BY DEF ofAction, unconsumed
<1>3. CASE req' = [req EXCEPT ![r].pc = "delete key"]
  BY <1>0, <1>1, <1>3 DEF UnderWay
<1>4. CASE /\ fresh = {} /\ all # {}
           /\ req' = [req EXCEPT ![r].pc = "trigger", ![r].otp = Newest(all), ![r].retried = TRUE]
  <2>1. Newest(all) \in DOMAIN codes
    BY <1>0, <1>2, <1>4, NewestCode
  <2>2. req'[r] = [req[r] EXCEPT !.pc = "trigger", !.otp = Newest(all), !.retried = TRUE]
    BY <1>0, <1>4
  <2> HIDE DEF all
  <2> QED
    BY <1>0, <1>1, <2>1, <2>2 DEF UnderWay
<1>5. CASE /\ fresh # {}
           /\ req' = [req EXCEPT ![r].otp = i, ![r].seen = codes[i].attempts,
                                 ![r].fresh = ~codes[i].consumed,
                                 ![r].pc = IF isValid(i, req[r].op, req[r].code)
                                           THEN "consume" ELSE "attempt"]
  <2>1. i \in fresh /\ i \in DOMAIN codes
    BY <1>0, <1>2, <1>5, NewestCode
  <2>2. ~codes[i].consumed
    BY <2>1 DEF unconsumed
  <2>3. isValid(i, req[r].op, req[r].code) => codes[i].op = req[r].op
    BY DEF isValid
  <2> DEFINE step == IF isValid(i, req[r].op, req[r].code) THEN "consume" ELSE "attempt"
  <2>4. req'[r] = [req[r] EXCEPT !.otp = i, !.seen = codes[i].attempts,
                                 !.fresh = ~codes[i].consumed, !.pc = step]
    BY <1>0, <1>5
  <2>5. step \in {"consume", "attempt"} /\ (step = "consume" => codes[i].op = req[r].op)
    BY <2>3
  <2> HIDE DEF i, fresh, step
  <2> QED
    BY <1>0, <1>1, <2>1, <2>2, <2>4, <2>5 DEF UnderWay
<1> QED
  BY <1>3, <1>4, <1>5 DEF verify

\* The remaining steps of a request that change neither its key nor what it asks for.
LEMMA StepShape ==
    ASSUME TypeOK, NEW r \in Requests, NEW step,
           req[r].pc # "idle", Goto(r, step)
    PROVE  /\ OthersKept(r)
           /\ req'[r].pc = step
           /\ req'[r].key = req[r].key /\ req'[r].op = req[r].op
           /\ req'[r].otp = req[r].otp /\ req'[r].retried = req[r].retried
           /\ req'[r].raced = req[r].raced
<1>0. req \in [Requests -> {Idle} \union UnderWay] /\ req[r] \in UnderWay
  BY InProgress DEF TypeOK
<1>1. req'[r] = [req[r] EXCEPT !.pc = step] /\ OthersKept(r)
  BY <1>0 DEF OthersKept
<1> QED
  BY <1>0, <1>1 DEF UnderWay

\* consume: the first to do so, or one that lost the race.
LEMMA ConsumeShape ==
    ASSUME TypeOK, NEW r \in Requests, consume(r)
    PROVE  /\ OthersKept(r) /\ req[r].pc = "consume"
           /\ req'[r].pc = "trigger"
           /\ req'[r].key = req[r].key /\ req'[r].op = req[r].op
           /\ req'[r].otp = req[r].otp /\ req'[r].retried = req[r].retried
           /\ req'[r].raced <=> req[r].fresh /\ codes[req[r].otp].consumed
<1>0. req \in [Requests -> {Idle} \union UnderWay] /\ req[r] \in UnderWay
  BY InProgress DEF TypeOK, consume
<1> DEFINE b == req[r].fresh /\ codes[req[r].otp].consumed
<1>1. req'[r] = [req[r] EXCEPT !.pc = "trigger", !.raced = b] /\ OthersKept(r)
  BY <1>0 DEF OthersKept, consume
<1>2. req[r].pc = "consume"
  BY DEF consume
<1> HIDE DEF b
<1>3. /\ req'[r].pc = "trigger"
      /\ req'[r].key = req[r].key /\ req'[r].op = req[r].op
      /\ req'[r].otp = req[r].otp /\ req'[r].retried = req[r].retried
      /\ req'[r].raced = b
  BY <1>0, <1>1 DEF UnderWay
<1> QED
  BY <1>1, <1>2, <1>3 DEF b

\* trigger: carried out and recorded in the history, or thrown.
LEMMA TriggerShape ==
    ASSUME TypeOK, NEW r \in Requests, trigger(r)
    PROVE  /\ OthersKept(r) /\ req[r].pc = "trigger" /\ req'[r].key = req[r].key
           /\ \/ /\ req'[r].pc = "complete"
                 /\ DOMAIN done' = DOMAIN done \union {Len(done) + 1}
                 /\ Len(done') = Len(done) + 1 /\ Len(done) \in Nat
                 /\ Len(done) + 1 \notin DOMAIN done
                 /\ \A i \in DOMAIN done : done'[i] = done[i]
                 /\ done'[Len(done) + 1] =
                      [key |-> req[r].key, op |-> req[r].op, code |-> req[r].otp,
                       retried |-> req[r].retried, raced |-> req[r].raced]
                 /\ done' # <<>>
              \/ req'[r].pc = "delete key" /\ UNCHANGED done
<1>0. /\ req \in [Requests -> {Idle} \union UnderWay] /\ req[r] \in UnderWay
      /\ done \in Seq(Execution) /\ req[r].pc = "trigger"
  BY InProgress DEF TypeOK, trigger
<1> DEFINE e == [key |-> req[r].key, op |-> req[r].op, code |-> req[r].otp,
                 retried |-> req[r].retried, raced |-> req[r].raced]
<1>1. CASE done' = Append(done, e) /\ Goto(r, "complete")
  <2>1. e \in Execution
    BY <1>0 DEF UnderWay, Execution
  <2>2. OthersKept(r) /\ req'[r].pc = "complete" /\ req'[r].key = req[r].key
    BY <1>0, <1>1, StepShape
  <2> HIDE DEF e
  <2>3. /\ Len(done') = Len(done) + 1 /\ Len(done) \in Nat
        /\ DOMAIN done' = DOMAIN done \union {Len(done) + 1}
        /\ Len(done) + 1 \notin DOMAIN done
        /\ \A i \in DOMAIN done : done'[i] = done[i]
        /\ done'[Len(done) + 1] = e
        /\ done' # <<>>
    BY <1>0, <1>1, <2>1, Appended
  <2> QED
    BY <1>0, <2>2, <2>3 DEF e
<1>2. ASSUME NEW g \in BOOLEAN,
             req' = [req EXCEPT ![r].pc = "delete key", ![r].gateway = g], UNCHANGED done
      PROVE  OthersKept(r) /\ req'[r].key = req[r].key /\ req'[r].pc = "delete key"
  <2>1. req'[r] = [req[r] EXCEPT !.pc = "delete key", !.gateway = g] /\ OthersKept(r)
    BY <1>0, <1>2 DEF OthersKept
  <2> QED
    BY <1>0, <2>1 DEF UnderWay
<1> QED
  BY <1>0, <1>1, <1>2 DEF trigger

\* complete: the key's row says so and the request is answered, or the update fails.
LEMMA CompleteShape ==
    ASSUME TypeOK, NEW r \in Requests, complete(r)
    PROVE  /\ OthersKept(r) /\ req[r].pc = "complete" /\ req[r].key \in Keys
           /\ \/ /\ \A k \in Keys : k # req[r].key => keys'[k] = keys[k]
                 /\ keys'[req[r].key].status = "completed"
                 /\ req'[r].pc \in {"idle", "ok"}
                 /\ client = "web" => req'[r].pc = "ok"
                 /\ UNCHANGED unrecorded
              \/ /\ UNCHANGED keys /\ req'[r].pc = "delete key"
                 /\ req'[r].key = req[r].key
                 /\ unrecorded' = unrecorded \union {req[r].key}
<1>0. /\ req \in [Requests -> {Idle} \union UnderWay] /\ req[r] \in UnderWay
      /\ req[r].pc = "complete"
  BY InProgress DEF TypeOK, complete
<1>1. req[r].key \in Keys
  BY <1>0 DEF UnderWay
<1>2. CASE /\ keys' = [keys EXCEPT ![req[r].key].status = "completed"]
           /\ Answer(r, TRUE) /\ UNCHANGED unrecorded
  <2>1. keys'[req[r].key].status = "completed"
    BY <1>1, <1>2 DEF TypeOK
  <2>2. \A k \in Keys : k # req[r].key => keys'[k] = keys[k]
    BY <1>1, <1>2 DEF TypeOK
  <2>3. req'[r] = Answered(req[r], TRUE) /\ OthersKept(r)
    BY <1>0, <1>2 DEF Answer, OthersKept
  <2>4. req'[r].pc = IF client = "api" THEN "idle" ELSE "ok"
    BY <1>0, <2>3 DEF Answered, Idle, UnderWay
  <2> QED
    BY <1>0, <1>1, <1>2, <2>1, <2>2, <2>3, <2>4
<1>3. CASE Goto(r, "delete key") /\ unrecorded' = unrecorded \union {req[r].key} /\ UNCHANGED keys
  BY <1>0, <1>1, <1>3, StepShape
<1> QED
  BY <1>2, <1>3 DEF complete

\* deleteKey: the row is gone and the request is refused.
LEMMA DeleteShape ==
    ASSUME TypeOK, NEW r \in Requests, deleteKey(r)
    PROVE  /\ OthersKept(r) /\ req[r].pc = "delete key" /\ req[r].key \in Keys
           /\ \A k \in Keys : k # req[r].key => keys'[k] = keys[k]
           /\ req'[r].pc \in {"idle", "failed"}
<1>0. /\ req \in [Requests -> {Idle} \union UnderWay] /\ req[r] \in UnderWay
      /\ req[r].pc = "delete key"
  BY InProgress DEF TypeOK, deleteKey
<1>1. req[r].key \in Keys
  BY <1>0 DEF UnderWay
<1>2. \A k \in Keys : k # req[r].key => keys'[k] = keys[k]
  BY <1>1 DEF TypeOK, deleteKey
<1>3. req'[r] = Answered(req[r], FALSE) /\ OthersKept(r)
  BY <1>0 DEF Answer, OthersKept, deleteKey
<1>4. req'[r].pc \in {"idle", "failed"}
  <2>1. req'[r] = Idle \/ req'[r] = [req[r] EXCEPT !.pc = "failed"]
    BY <1>3 DEF Answered
  <2>2. [req[r] EXCEPT !.pc = "failed"].pc = "failed"
    BY <1>0 DEF UnderWay
  <2>3. Idle.pc = "idle"
    BY DEF Idle
  <2> QED
    BY <2>1, <2>2, <2>3
<1> QED
  BY <1>0, <1>1, <1>2, <1>3, <1>4

\* The process dies, an answer is lost, or the page takes it: the request is over.
LEMMA OverShape ==
    ASSUME TypeOK, NEW r \in Requests, die(r) \/ loseAnswer(r) \/ webAnswer(r)
    PROVE  /\ OthersKept(r) /\ req[r].pc # "idle"
           /\ req'[r].pc \in {"idle", "lost"}
<1>0. req \in [Requests -> {Idle} \union UnderWay] /\ req[r] \in UnderWay /\ req[r].pc # "idle"
  BY InProgress DEF TypeOK, die, loseAnswer, webAnswer
<1>1. CASE Goto(r, "lost")
  BY <1>0, <1>1, StepShape
<1>2. CASE req' = [req EXCEPT ![r] = Idle]
  BY <1>0, <1>2 DEF Idle, OthersKept
<1> QED
  BY <1>1, <1>2 DEF die, loseAnswer, webAnswer

\* What a step is to the requests: nothing, a new request, or a step of one of them.
Quiet == UNCHANGED <<req, keys, done, unrecorded>>

Sends(r, key, op, code) == Send(r, key, op, code) /\ UNCHANGED <<codes, done, unrecorded>>

RequestStep(r) ==
    \/ verify(r) \/ countAttempt(r) \/ consume(r) \/ trigger(r) \/ complete(r)
    \/ deleteKey(r) \/ die(r) \/ loseAnswer(r) \/ webAnswer(r)

\* Next, sorted.
LEMMA StepKinds ==
    ASSUME TypeOK, [Next]_vars
    PROVE  \/ Quiet
           \/ \E r \in Requests, key \in Keys, op \in Ops, code \in Nat : Sends(r, key, op, code)
           \/ \E r \in Requests : RequestStep(r)
<1>1. CASE \/ cooldownPasses \/ codeExpires \/ handleContinue \/ handleResend \/ onBack
           \/ handleClose \/ UNCHANGED vars
           \/ \E op \in Ops : requestOtpHandler(op) \/ openModal(op) \/ editForm(op)
  BY <1>1
     DEF Quiet, cooldownPasses, codeExpires, handleContinue, handleResend, onBack,
         handleClose, requestOtpHandler, openModal, editForm, vars
<1>2. ASSUME NEW r \in Requests, NEW key \in Keys, NEW op \in Ops,
             NEW code \in {WrongCode} \union DOMAIN codes, apiRequest(r, key, op, code)
      PROVE  code \in Nat /\ Sends(r, key, op, code)
  BY <1>2, CodeNumbers DEF apiRequest, Sends
<1>3. ASSUME NEW r \in Requests, NEW code \in {WrongCode} \union DOMAIN codes,
             handleVerify(r, code) \/ (code = WrongCode /\ handleSubmit(r))
      PROVE  code \in Nat /\ \E key \in Keys, op \in Ops : Sends(r, key, op, code)
  <2>1. modal.op \in Ops
    BY <1>3 DEF handleVerify, handleSubmit, TypeOK
  <2>2. PICK key \in Keys : Sends(r, key, modal.op, code)
    BY <1>3 DEF handleVerify, handleSubmit, Sends
  <2> QED
    BY <2>1, <2>2, CodeNumbers
<1> QED
  BY <1>1, <1>2, <1>3 DEF Next, RequestStep
-----------------------------------------------------------------------------
(* Keys *)

\* No key is in use at first.
LEMMA InitKeys == Init => KeyOwned /\ KeySpent
<1> SUFFICES ASSUME Init PROVE KeyOwned /\ KeySpent
  OBVIOUS
<1>1. \A r \in Requests : ~Working(r)
  BY DEF Init, Idle, Working, WorkingSteps
<1>2. done = <<>>
  BY DEF Init
<1> QED
  BY <1>1, <1>2 DEF KeyOwned, KeySpent

\* What leaves the rows alone and lets no request in.
LEMMA KeysKept ==
    ASSUME KeyOwned, KeySpent, UNCHANGED <<keys, done, unrecorded>>,
           \A r \in Requests : Working(r)' =>
               /\ Working(r) /\ req'[r].key = req[r].key
               /\ req[r].pc = "complete" => req'[r].pc = "complete"
    PROVE  KeyOwned' /\ KeySpent'
BY DEF KeyOwned, KeySpent

\* A key is let in when nothing stands under it, and given up by the one who has it.
LEMMA NextKeys ==
    ASSUME TypeOK, KeyOwned, KeySpent, [Next]_vars
    PROVE  KeyOwned' /\ KeySpent'
<1>0. \A i \in DOMAIN done : done[i].key \in Keys
  <2>1. \A i \in DOMAIN done : done[i] \in Execution
    BY DEF TypeOK
  <2> QED
    BY <2>1 DEF Execution
<1>k. \A r \in Requests : Working(r) => req[r].key \in Keys
  BY InProgress DEF UnderWay, Working, WorkingSteps
<1>o. ASSUME NEW r \in Requests, OthersKept(r)
      PROVE  \A s \in Requests : s # r =>
                 req'[s] = req[s] /\ (Working(s)' <=> Working(s))
  BY <1>o DEF OthersKept, Working
<1>w. ASSUME NEW r \in Requests
      PROVE  /\ req[r].pc \in {"verify", "attempt", "consume", "trigger", "complete",
                               "delete key"} => Working(r)
             /\ req[r].pc = "idle" => ~Working(r)
             /\ req'[r].pc \in {"verify", "attempt", "consume", "trigger", "complete",
                                "delete key"} => Working(r)'
             /\ req'[r].pc \in {"idle", "ok", "failed", "lost"} => ~Working(r)'
  BY DEF Working, WorkingSteps
<1>1. CASE Quiet
  BY <1>1, KeysKept DEF Quiet, Working
<1>2. ASSUME NEW r \in Requests, NEW key \in Keys, NEW op \in Ops, NEW code \in Nat,
             Sends(r, key, op, code)
      PROVE  KeyOwned' /\ KeySpent'
  <2>1. /\ req[r].pc = "idle" /\ OthersKept(r) /\ UNCHANGED <<done, unrecorded>>
        /\ ~Working(r)
    BY <1>2, <1>w, SendShape DEF Sends
  <2>2. CASE UNCHANGED keys /\ req'[r].pc \in {"idle", "ok", "failed"}
    BY <2>1, <2>2, <1>o, <1>w, KeysKept
  <2>3. CASE /\ keys[key].status = "absent" /\ keys'[key].status = "in_progress"
             /\ \A k \in Keys : k # key => keys'[k] = keys[k]
             /\ req'[r] = Request(IF needsCode(op) THEN "verify" ELSE "trigger", key, op, code)
    <3>1. req'[r].key = key
      BY <2>3 DEF Request
    <3>2. \A s \in Requests : Working(s) => req[s].key # key
      BY <2>3 DEF KeyOwned
    <3>3. \A i \in DOMAIN done : done[i].key = key => key \in unrecorded
      BY <2>3 DEF KeySpent
    <3>4. KeyOwned'
      BY <1>k, <1>o, <2>1, <2>3, <3>1, <3>2 DEF KeyOwned
    <3>5. ASSUME NEW i \in DOMAIN done, done[i].key \notin unrecorded
          PROVE  /\ keys'[done[i].key].status # "absent"
                 /\ \A s \in Requests :
                       Working(s)' /\ req'[s].key = done[i].key => req'[s].pc = "complete"
      <4>1. done[i].key # key /\ done[i].key \in Keys
        BY <3>3, <3>5, <1>0
      <4>2. keys'[done[i].key] = keys[done[i].key]
        BY <4>1, <2>3
      <4> QED
        BY <4>1, <4>2, <3>1, <3>5, <2>1, <1>o DEF KeySpent
    <3>6. KeySpent'
      BY <3>5, <2>1 DEF KeySpent
    <3> QED
      BY <3>4, <3>6
  <2> QED
    BY <1>2, <2>2, <2>3, SendShape DEF Sends
<1>3. ASSUME NEW r \in Requests, verify(r)
      PROVE  KeyOwned' /\ KeySpent'
  <2>1. /\ UNCHANGED <<keys, done, unrecorded>> /\ OthersKept(r) /\ Working(r)
        /\ req'[r].key = req[r].key /\ req[r].pc # "complete"
    BY <1>3, <1>w, VerifyShape DEF verify
  <2>2. \A s \in Requests : Working(s)' =>
           /\ Working(s) /\ req'[s].key = req[s].key
           /\ req[s].pc = "complete" => req'[s].pc = "complete"
    BY <2>1, <1>o, Zenon
  <2>3. UNCHANGED <<keys, done, unrecorded>>
    BY <2>1
  <2> QED
    BY <2>2, <2>3, KeysKept, Zenon
<1>4. ASSUME NEW r \in Requests, countAttempt(r)
      PROVE  KeyOwned' /\ KeySpent'
  <2>1. UNCHANGED <<keys, done, unrecorded>> /\ req[r].pc = "attempt" /\ Goto(r, "delete key")
    BY <1>4 DEF countAttempt
  <2>2. OthersKept(r) /\ req'[r].key = req[r].key /\ Working(r)
    BY <2>1, <1>w, StepShape
  <2> QED
    BY <2>1, <2>2, <1>o, KeysKept
<1>5. ASSUME NEW r \in Requests, consume(r)
      PROVE  KeyOwned' /\ KeySpent'
  <2>1. /\ UNCHANGED <<keys, done, unrecorded>> /\ OthersKept(r) /\ Working(r)
        /\ req'[r].key = req[r].key /\ req[r].pc # "complete"
    BY <1>5, <1>w, ConsumeShape DEF consume
  <2> QED
    BY <2>1, <1>o, KeysKept
<1>6. ASSUME NEW r \in Requests, trigger(r)
      PROVE  KeyOwned' /\ KeySpent'
  <2> DEFINE k == req[r].key
             n == Len(done) + 1
  <2>0. /\ UNCHANGED <<keys, unrecorded>> /\ OthersKept(r) /\ req[r].pc = "trigger"
        /\ req'[r].key = k /\ Working(r)
    BY <1>6, <1>w, TriggerShape DEF trigger
  <2>1. CASE req'[r].pc = "delete key" /\ UNCHANGED done
    BY <2>0, <2>1, <1>o, KeysKept
  <2>2. CASE /\ req'[r].pc = "complete"
             /\ DOMAIN done' = DOMAIN done \union {n}
             /\ n \notin DOMAIN done
             /\ \A i \in DOMAIN done : done'[i] = done[i]
             /\ done'[n].key = k
    <3> HIDE DEF n, k
    <3>1. KeyOwned'
      BY <2>0, <2>2, <1>o DEF KeyOwned, k
    <3>2. keys[k].status = "in_progress"
      BY <2>0 DEF KeyOwned, k
    <3>3. \A s \in Requests : Working(s)' /\ req'[s].key = k => s = r
      BY <2>0, <1>o DEF KeyOwned, k
    <3>4. \A i \in DOMAIN done : done[i].key = k => k \in unrecorded
      BY <2>0 DEF KeySpent, k
    <3>5. \A i \in DOMAIN done :
             \/ done[i].key \in unrecorded
             \/ /\ keys[done[i].key].status # "absent"
                /\ \A s \in Requests :
                      Working(s)' /\ req'[s].key = done[i].key => req'[s].pc = "complete"
      BY <2>0, <2>2, <1>o DEF KeySpent
    <3>6. keys[k].status # "absent"
          /\ \A s \in Requests : Working(s)' /\ req'[s].key = k => req'[s].pc = "complete"
      BY <2>2, <3>2, <3>3
    <3>7. \A i \in DOMAIN done' :
             \/ done'[i].key \in unrecorded'
             \/ /\ keys'[done'[i].key].status # "absent"
                /\ \A s \in Requests :
                      Working(s)' /\ req'[s].key = done'[i].key => req'[s].pc = "complete"
      BY <2>0, <2>2, <3>5, <3>6
    <3>8. \A i, j \in DOMAIN done' :
             done'[i].key = done'[j].key => i = j \/ done'[i].key \in unrecorded'
      BY <2>0, <2>2, <3>4 DEF KeySpent
    <3> QED
      BY <3>1, <3>7, <3>8 DEF KeySpent
  <2>3. done'[n] = [key |-> req[r].key, op |-> req[r].op, code |-> req[r].otp,
                    retried |-> req[r].retried, raced |-> req[r].raced]
          => done'[n].key = k
    OBVIOUS
  <2> HIDE DEF k
  <2> QED
    BY <1>6, <2>1, <2>2, <2>3, TriggerShape
<1>7. ASSUME NEW r \in Requests, complete(r)
      PROVE  KeyOwned' /\ KeySpent'
  <2> DEFINE k == req[r].key
  <2>0. OthersKept(r) /\ req[r].pc = "complete" /\ k \in Keys /\ UNCHANGED done /\ Working(r)
    BY <1>7, <1>w, CompleteShape DEF complete
  <2>1. \A s \in Requests : s # r /\ Working(s) => req[s].key # k
    BY <2>0 DEF KeyOwned
  <2>2. CASE /\ \A l \in Keys : l # k => keys'[l] = keys[l]
             /\ keys'[k].status = "completed"
             /\ req'[r].pc \in {"idle", "ok"}
             /\ UNCHANGED unrecorded
    <3>0. ~Working(r)'
      BY <2>2, <1>w
    <3>1. KeyOwned'
      BY <2>0, <2>1, <2>2, <3>0, <1>k, <1>o DEF KeyOwned
    <3>2. KeySpent'
      BY <2>0, <2>1, <2>2, <3>0, <1>0, <1>o DEF KeySpent
    <3> QED
      BY <3>1, <3>2
  <2>3. CASE /\ UNCHANGED keys /\ req'[r].pc = "delete key" /\ req'[r].key = k
             /\ unrecorded' = unrecorded \union {k}
    <3>0. \A s \in Requests : Working(s)' => /\ Working(s) /\ req'[s].key = req[s].key
                                             /\ s # r => req'[s] = req[s]
      BY <2>0, <2>3, <1>o
    <3>1. KeyOwned'
      BY <2>3, <3>0 DEF KeyOwned
    <3> HIDE DEF k
    <3>2. ASSUME NEW i \in DOMAIN done, done[i].key \notin unrecorded'
          PROVE  /\ keys'[done[i].key].status # "absent"
                 /\ \A s \in Requests :
                       Working(s)' /\ req'[s].key = done[i].key => req'[s].pc = "complete"
      <4>1. done[i].key # k /\ done[i].key \notin unrecorded
        BY <2>3, <3>2
      <4>2. /\ keys[done[i].key].status # "absent"
            /\ \A s \in Requests :
                  Working(s) /\ req[s].key = done[i].key => req[s].pc = "complete"
        BY <4>1 DEF KeySpent
      <4>3. \A s \in Requests : Working(s)' /\ req'[s].key = done[i].key => s # r
        BY <2>3, <4>1
      <4> QED
        BY <2>3, <3>0, <4>2, <4>3
    <3>3. KeySpent'
      BY <2>0, <2>3, <3>2 DEF KeySpent
    <3> QED
      BY <3>1, <3>3
  <2> QED
    BY <1>7, <2>2, <2>3, CompleteShape
<1>8. ASSUME NEW r \in Requests, deleteKey(r)
      PROVE  KeyOwned' /\ KeySpent'
  <2> DEFINE k == req[r].key
  <2>0. /\ OthersKept(r) /\ req[r].pc = "delete key" /\ k \in Keys
        /\ \A l \in Keys : l # k => keys'[l] = keys[l]
        /\ Working(r) /\ ~Working(r)'
        /\ UNCHANGED <<done, unrecorded>>
    BY <1>8, <1>w, DeleteShape DEF deleteKey
  <2>1. \A s \in Requests : s # r /\ Working(s) => req[s].key # k
    BY <2>0 DEF KeyOwned
  <2>2. \A i \in DOMAIN done : done[i].key = k => k \in unrecorded
    BY <2>0 DEF KeySpent
  <2>s. \A s \in Requests : Working(s)' => /\ Working(s) /\ req'[s] = req[s]
                                           /\ req[s].key \in Keys /\ req[s].key # k
    BY <2>0, <2>1, <1>k, <1>o
  <2> HIDE DEF k
  <2>3. KeyOwned'
    <3>1. ASSUME NEW s \in Requests, Working(s)'
          PROVE  keys'[req'[s].key].status = "in_progress"
      <4>1. keys'[req'[s].key] = keys[req[s].key]
        BY <2>0, <2>s, <3>1
      <4>2. keys[req[s].key].status = "in_progress"
        BY <2>s, <3>1 DEF KeyOwned
      <4> QED
        BY <4>1, <4>2
    <3>2. \A s, t \in Requests : Working(s)' /\ Working(t)' /\ req'[s].key = req'[t].key => s = t
      BY <2>s DEF KeyOwned
    <3> QED
      BY <3>1, <3>2 DEF KeyOwned
  <2>r. ASSUME NEW i \in DOMAIN done, done[i].key \notin unrecorded
        PROVE  /\ keys'[done[i].key].status # "absent"
               /\ \A s \in Requests :
                     Working(s)' /\ req'[s].key = done[i].key => req'[s].pc = "complete"
    <3>1. /\ keys[done[i].key].status # "absent"
          /\ \A s \in Requests :
                Working(s) /\ req[s].key = done[i].key => req[s].pc = "complete"
      BY <2>r DEF KeySpent
    <3>2. keys'[done[i].key] = keys[done[i].key]
      BY <2>0, <2>2, <2>r, <1>0
    <3> QED
      BY <2>s, <3>1, <3>2
  <2>4. KeySpent'
    BY <2>0, <2>r DEF KeySpent
  <2> QED
    BY <2>3, <2>4
<1>9. ASSUME NEW r \in Requests, die(r) \/ loseAnswer(r) \/ webAnswer(r)
      PROVE  KeyOwned' /\ KeySpent'
  <2>1. UNCHANGED <<keys, done, unrecorded>> /\ OthersKept(r) /\ ~Working(r)'
    BY <1>9, <1>w, OverShape DEF die, loseAnswer, webAnswer
  <2> QED
    BY <2>1, <1>o, KeysKept
<1> QED
  BY <1>1, <1>2, <1>3, <1>4, <1>5, <1>6, <1>7, <1>8, <1>9, StepKinds DEF RequestStep
-----------------------------------------------------------------------------
(* Codes *)

\* No code is about at first.
LEMMA InitCodes == Init => CodesChecked /\ FirstOnce
<1> SUFFICES ASSUME Init PROVE CodesChecked /\ FirstOnce
  OBVIOUS
<1>1. \A r \in Requests : req[r].pc = "idle"
  BY DEF Init, Idle
<1>2. done = <<>>
  BY DEF Init
<1> QED
  BY <1>1, <1>2 DEF CodesChecked, FirstOnce, First

\* What a code confirmed it keeps confirming.
LEMMA ConfirmedKept ==
    ASSUME CodesGrow, NEW op, NEW c, NEW retried, Confirmed(codes, op, c, retried)
    PROVE  Confirmed(codes', op, c, retried)
BY DEF CodesGrow, Confirmed

\* The first use of a code is of a code there is.
LEMMA FirstCode ==
    ASSUME CodesChecked
    PROVE  /\ \A r \in Requests : First(r) => req[r].otp \in DOMAIN codes
           /\ \A i \in DOMAIN done : FirstDone(i) => done[i].code \in DOMAIN codes
BY DEF CodesChecked, First, FirstDone, Confirmed

\* A step that brings no request closer to the trigger.
LEMMA CodesKept ==
    ASSUME CodesChecked, FirstOnce, CodesGrow, UNCHANGED done,
           \A r \in Requests : req'[r].pc \in {"verify", "attempt", "consume", "trigger"} =>
               req'[r] = req[r]
    PROVE  CodesChecked' /\ FirstOnce'
<1>1. CodesChecked'
  <2>1. /\ \A r \in Requests : req'[r].pc = "trigger" =>
              Confirmed(codes', req[r].op, req[r].otp, req[r].retried)
        /\ \A i \in DOMAIN done : Confirmed(codes', done[i].op, done[i].code, done[i].retried)
    BY ConfirmedKept DEF CodesChecked
  <2> QED
    BY <2>1 DEF CodesChecked, CodesGrow
<1>2. \A r \in Requests : First(r)' => First(r) /\ req'[r] = req[r]
  BY DEF First
<1>3. \A i \in DOMAIN done : FirstDone(i)' <=> FirstDone(i)
  BY DEF FirstDone
<1>4. FirstOnce'
  BY <1>2, <1>3, FirstCode DEF FirstOnce, CodesGrow
<1> QED
  BY <1>1, <1>4

\* A request gets to the trigger with a code for what it asks for, and consumes one for
\* the first time if nobody did before.
LEMMA NextChecked ==
    ASSUME TypeOK, CodesChecked, FirstOnce, [Next]_vars
    PROVE  CodesChecked' /\ FirstOnce'
<1>g. CodesGrow
  BY NextCodes
<1>o. ASSUME NEW r \in Requests, OthersKept(r)
      PROVE  \A s \in Requests : s # r => req'[s] = req[s] /\ (First(s)' <=> First(s))
  BY <1>o DEF OthersKept, First
<1>k. /\ \A r \in Requests : req[r].pc = "trigger" =>
            Confirmed(codes', req[r].op, req[r].otp, req[r].retried)
      /\ \A i \in DOMAIN done : Confirmed(codes', done[i].op, done[i].code, done[i].retried)
  BY <1>g, ConfirmedKept DEF CodesChecked
<1>d. ASSUME UNCHANGED done
      PROVE  \A i \in DOMAIN done : FirstDone(i)' <=> FirstDone(i)
  BY <1>d DEF FirstDone
<1>1. CASE Quiet
  BY <1>1, <1>g, CodesKept DEF Quiet
<1>2. ASSUME NEW r \in Requests, NEW key \in Keys, NEW op \in Ops, NEW code \in Nat,
             Sends(r, key, op, code)
      PROVE  CodesChecked' /\ FirstOnce'
  <2>1. OthersKept(r) /\ UNCHANGED <<codes, done>>
    BY <1>2, SendShape DEF Sends
  <2>2. CASE req'[r].pc \in {"idle", "ok", "failed"}
    BY <2>1, <2>2, <1>g, <1>o, CodesKept
  <2>3. CASE req'[r] = Request(IF needsCode(op) THEN "verify" ELSE "trigger", key, op, code)
    <3>1. /\ req'[r].op = op /\ req'[r].otp = 0 /\ ~req'[r].retried
          /\ req'[r].pc = IF needsCode(op) THEN "verify" ELSE "trigger"
      BY <2>3 DEF Request
    <3>2. ~First(r)'
      BY <3>1 DEF First
    <3>3. req'[r].pc = "trigger" => Confirmed(codes', req'[r].op, req'[r].otp, req'[r].retried)
      BY <3>1 DEF Confirmed
    <3>4. CodesChecked'
      BY <2>1, <3>1, <3>3, <1>o, <1>k DEF CodesChecked
    <3>5. FirstOnce'
      BY <2>1, <3>2, <1>o, <1>d DEF FirstOnce
    <3> QED
      BY <3>4, <3>5
  <2> QED
    BY <1>2, <2>2, <2>3, SendShape DEF Sends
<1>3. ASSUME NEW r \in Requests, verify(r)
      PROVE  CodesChecked' /\ FirstOnce'
  <2>1. /\ OthersKept(r) /\ UNCHANGED <<codes, done>> /\ req[r].pc = "verify"
        /\ req'[r].op = req[r].op
        /\ req'[r].pc \in {"delete key", "trigger", "consume", "attempt"}
        /\ req'[r].pc # "delete key" => req'[r].otp \in DOMAIN codes
        /\ req'[r].pc = "trigger" => req'[r].retried
        /\ req'[r].pc = "consume" =>
              req'[r].fresh /\ codes[req'[r].otp].op = req[r].op
              /\ (req'[r].retried <=> req[r].retried)
    BY <1>3, VerifyShape DEF verify
  <2>2. ~First(r)'
    BY <2>1 DEF First
  <2>3. needsCode(req[r].op) /\ ~req[r].retried
    BY <2>1 DEF CodesChecked
  <2>4. req'[r].pc = "trigger" => Confirmed(codes', req'[r].op, req'[r].otp, req'[r].retried)
    BY <2>1, <2>3 DEF Confirmed
  <2>5. CodesChecked'
    <3>1. ASSUME NEW s \in Requests
          PROVE  /\ req'[s].pc \in {"verify", "attempt", "consume"} => needsCode(req'[s].op)
                 /\ req'[s].pc \in {"attempt", "consume"} => req'[s].otp \in DOMAIN codes'
                 /\ req'[s].pc = "consume" =>
                       req'[s].fresh /\ ~req'[s].retried /\ codes'[req'[s].otp].op = req'[s].op
                 /\ req'[s].pc = "trigger" =>
                       Confirmed(codes', req'[s].op, req'[s].otp, req'[s].retried)
                 /\ req'[s].pc = "verify" => ~req'[s].retried
      <4>1. CASE s = r
        BY <4>1, <2>1, <2>3, <2>4
      <4>2. CASE s # r
        <5>1. req'[s] = req[s] /\ UNCHANGED codes
          BY <4>2, <2>1, <1>o
        <5> QED
          BY <5>1, <1>k DEF CodesChecked
      <4> QED
        BY <4>1, <4>2
    <3>2. \A i \in DOMAIN done' : Confirmed(codes', done'[i].op, done'[i].code, done'[i].retried)
      BY <2>1, <1>k
    <3> QED
      BY <3>1, <3>2 DEF CodesChecked
  <2>6. FirstOnce'
    <3>1. OthersKept(r) /\ UNCHANGED <<codes, done>>
      BY <2>1
    <3> QED
      BY <3>1, <2>2, <1>o, <1>d DEF FirstOnce
  <2> QED
    BY <2>5, <2>6
<1>4. ASSUME NEW r \in Requests, countAttempt(r)
      PROVE  CodesChecked' /\ FirstOnce'
  <2>1. UNCHANGED done /\ req[r].pc = "attempt" /\ Goto(r, "delete key")
    BY <1>4 DEF countAttempt
  <2>2. OthersKept(r) /\ req'[r].pc = "delete key"
    BY <2>1, StepShape
  <2> QED
    BY <2>1, <2>2, <1>g, <1>o, CodesKept
<1>5. ASSUME NEW r \in Requests, consume(r)
      PROVE  CodesChecked' /\ FirstOnce'
  <2> DEFINE c == req[r].otp
  <2>1. /\ OthersKept(r) /\ req[r].pc = "consume" /\ req'[r].pc = "trigger"
        /\ req'[r].op = req[r].op /\ req'[r].otp = c /\ req'[r].retried = req[r].retried
        /\ req'[r].raced <=> req[r].fresh /\ codes[c].consumed
        /\ UNCHANGED done
    BY <1>5, ConsumeShape DEF consume
  <2>2. /\ needsCode(req[r].op) /\ c \in DOMAIN codes /\ codes[c].op = req[r].op
        /\ req[r].fresh /\ ~req[r].retried
    BY <2>1 DEF CodesChecked
  <2>3. codes'[c].consumed
    <3>1. codes[c] \in Code
      BY <2>2 DEF TypeOK
    <3>2. codes' = [codes EXCEPT ![c] = [codes[c] EXCEPT !.consumed = TRUE, !.by = req[r].key]]
      BY <1>5 DEF consume
    <3> HIDE DEF c
    <3>3. codes'[c] = [codes[c] EXCEPT !.consumed = TRUE, !.by = req[r].key]
      BY <2>2, <3>2
    <3> QED
      BY <3>1, <3>3 DEF Code
  <2>4. Confirmed(codes', req'[r].op, req'[r].otp, req'[r].retried)
    BY <2>1, <2>2, <1>g DEF Confirmed, CodesGrow
  <2>5. CodesChecked'
    BY <2>1, <2>4, <1>g, <1>o, <1>k DEF CodesChecked, CodesGrow
  <2>6. First(r)' => ~codes[c].consumed
    BY <2>1, <2>2 DEF First
  <2> HIDE DEF c
  <2>7. ASSUME First(r)'
        PROVE  /\ \A s \in Requests : First(s) => req[s].otp # c
               /\ \A i \in DOMAIN done : FirstDone(i) => done[i].code # c
    BY <2>6, <2>7 DEF FirstOnce
  <2>8. /\ \A s \in Requests : First(s)' => codes'[req'[s].otp].consumed
        /\ \A i \in DOMAIN done : FirstDone(i) => codes'[done[i].code].consumed
    BY <2>1, <2>3, <1>g, <1>o, FirstCode DEF FirstOnce, CodesGrow
  <2>9. \A s, t \in Requests : First(s)' /\ First(t)' /\ req'[s].otp = req'[t].otp => s = t
    BY <2>1, <2>7, <1>o DEF FirstOnce
  <2>10. \A s \in Requests, i \in DOMAIN done :
            First(s)' /\ FirstDone(i) => req'[s].otp # done[i].code
    BY <2>1, <2>7, <1>o DEF FirstOnce
  <2>11. FirstOnce'
    BY <2>1, <2>8, <2>9, <2>10, <1>d DEF FirstOnce
  <2> QED
    BY <2>5, <2>11
<1>6. ASSUME NEW r \in Requests, trigger(r)
      PROVE  CodesChecked' /\ FirstOnce'
  <2>n. PICK n : n = Len(done) + 1
    OBVIOUS
  <2>0. OthersKept(r) /\ req[r].pc = "trigger" /\ UNCHANGED codes
    BY <1>6, TriggerShape DEF trigger
  <2>1. CASE req'[r].pc = "delete key" /\ UNCHANGED done
    BY <2>0, <2>1, <1>g, <1>o, CodesKept
  <2>2. CASE /\ req'[r].pc = "complete"
             /\ DOMAIN done' = DOMAIN done \union {n}
             /\ n \notin DOMAIN done
             /\ \A i \in DOMAIN done : done'[i] = done[i]
             /\ done'[n] = [key |-> req[r].key, op |-> req[r].op, code |-> req[r].otp,
                            retried |-> req[r].retried, raced |-> req[r].raced]
    <3>1. /\ done'[n].op = req[r].op /\ done'[n].code = req[r].otp
          /\ done'[n].retried = req[r].retried /\ done'[n].raced = req[r].raced
      BY <2>2
    <3>2. ~First(r)'
      BY <2>2 DEF First
    <3>3. \A i \in DOMAIN done' : Confirmed(codes', done'[i].op, done'[i].code, done'[i].retried)
      BY <2>0, <2>2, <3>1, <1>k
    <3>4. CodesChecked'
      BY <2>0, <2>2, <3>3, <1>o, <1>k DEF CodesChecked
    <3>5. (FirstDone(n)' <=> First(r)) /\ \A i \in DOMAIN done : FirstDone(i)' <=> FirstDone(i)
      BY <2>0, <2>2, <3>1 DEF First, FirstDone
    <3>6. /\ \A i \in DOMAIN done' : FirstDone(i)' => codes[done'[i].code].consumed
          /\ \A i, j \in DOMAIN done' :
                FirstDone(i)' /\ FirstDone(j)' /\ done'[i].code = done'[j].code => i = j
      BY <2>2, <3>1, <3>5 DEF FirstOnce
    <3>7. \A s \in Requests, i \in DOMAIN done' :
             First(s)' /\ FirstDone(i)' => req'[s].otp # done'[i].code
      BY <2>0, <2>2, <3>1, <3>2, <3>5, <1>o DEF FirstOnce
    <3>8. FirstOnce'
      BY <2>0, <3>2, <3>6, <3>7, <1>o DEF FirstOnce
    <3> QED
      BY <3>4, <3>8
  <2> QED
    BY <1>6, <2>n, <2>1, <2>2, TriggerShape
<1>7. ASSUME NEW r \in Requests, complete(r)
      PROVE  CodesChecked' /\ FirstOnce'
  <2>1. OthersKept(r) /\ UNCHANGED done /\ req'[r].pc \in {"idle", "ok", "delete key"}
    BY <1>7, CompleteShape DEF complete
  <2> QED
    BY <2>1, <1>g, <1>o, CodesKept
<1>8. ASSUME NEW r \in Requests, deleteKey(r)
      PROVE  CodesChecked' /\ FirstOnce'
  <2>1. OthersKept(r) /\ UNCHANGED done /\ req'[r].pc \in {"idle", "failed"}
    BY <1>8, DeleteShape DEF deleteKey
  <2> QED
    BY <2>1, <1>g, <1>o, CodesKept
<1>9. ASSUME NEW r \in Requests, die(r) \/ loseAnswer(r) \/ webAnswer(r)
      PROVE  CodesChecked' /\ FirstOnce'
  <2>1. OthersKept(r) /\ UNCHANGED done /\ req'[r].pc \in {"idle", "lost"}
    BY <1>9, OverShape DEF die, loseAnswer, webAnswer
  <2> QED
    BY <2>1, <1>g, <1>o, CodesKept
<1> QED
  BY <1>1, <1>2, <1>3, <1>4, <1>5, <1>6, <1>7, <1>8, <1>9, StepKinds DEF RequestStep
-----------------------------------------------------------------------------
(* The dialog *)

\* The steps at which a request of a dialog that sent one at a time has not yet carried
\* anything out.
Before == {"verify", "attempt", "consume", "trigger", "delete key", "failed"}

\* OneAtATime without its condition.
Alone ==
    /\ \A r \in Requests : req[r].pc # "idle" => r \in modal.sent
    /\ \A r, s \in modal.sent : r = s
    /\ unrecorded = {} =>
          /\ Len(done) <= 1
          /\ done # <<>> => modal.step = "closed" \/ modal.sent # {}
          /\ \A r \in Requests : req[r].pc \in Before => done = <<>>

\* The steps OneAtATime names.
LEMMA BeforeIs == (WorkingSteps \ {"complete"}) \union {"failed"} = Before
BY DEF WorkingSteps, Before

\* The two say the same.
LEMMA AloneIs == OneAtATime <=> (client = "web" /\ ~modal.overlapped => Alone)
BY BeforeIs DEF OneAtATime, Alone

\* No request was sent at first.
LEMMA InitAlone == Init => OneAtATime
<1> SUFFICES ASSUME Init PROVE Alone
  BY AloneIs
<1>1. \A r \in Requests : req[r].pc = "idle"
  BY DEF Init, Idle
<1>2. done = <<>> /\ Len(done) = 0 /\ modal.sent = {}
  BY DEF Init
<1> QED
  BY <1>1, <1>2 DEF Alone, Before

\* The dialog's own steps.
LEMMA DialogAlone ==
    ASSUME Alone, UNCHANGED <<req, done, unrecorded>>, modal'.sent = modal.sent,
           modal.step = "closed" => modal'.step = "closed"
    PROVE  Alone'
BY DEF Alone

\* A request takes a step and the dialog does not: it is the only one.
LEMMA RequestAlone ==
    ASSUME Alone, UNCHANGED <<modal, done>>, NEW r \in Requests, OthersKept(r),
           req[r].pc # "idle",
           unrecorded' = {} => unrecorded = {} /\ (req'[r].pc \in Before => req[r].pc \in Before)
    PROVE  Alone'
BY DEF Alone, OthersKept

\* Who asks does not change.
LEMMA NextClient ==
    ASSUME [Next]_vars
    PROVE  client' = client
<1>1. CASE \E r \in Requests : RequestStep(r)
  BY <1>1 DEF RequestStep, verify, countAttempt, consume, trigger, complete, deleteKey, die,
              loseAnswer, webAnswer
<1>2. CASE \/ cooldownPasses \/ codeExpires \/ handleContinue \/ handleResend \/ onBack
           \/ handleClose \/ UNCHANGED vars
           \/ \E op \in Ops : requestOtpHandler(op) \/ openModal(op) \/ editForm(op)
  BY <1>2
     DEF cooldownPasses, codeExpires, requestOtpHandler, openModal, editForm,
         handleContinue, handleResend, onBack, handleClose, vars
<1>3. ASSUME NEW r \in Requests,
             \/ \E key \in Keys, op \in Ops, code \in {WrongCode} \union DOMAIN codes :
                   apiRequest(r, key, op, code)
             \/ \E code \in {WrongCode} \union DOMAIN codes : handleVerify(r, code)
             \/ handleSubmit(r)
      PROVE  client' = client
  BY <1>3 DEF apiRequest, handleVerify, handleSubmit
<1> QED
  BY <1>1, <1>2, <1>3 DEF Next, RequestStep

\* Every step: a dialog that sends has nothing outstanding, and had it carried something
\* out it would be closed.
LEMMA NextAlone ==
    ASSUME TypeOK, OneAtATime, [Next]_vars
    PROVE  OneAtATime'
<1>0. modal \in Modal /\ done \in Seq(Execution)
  BY DEF TypeOK
<1> SUFFICES ASSUME client' = "web", ~modal'.overlapped
             PROVE  Alone'
  BY BeforeIs DEF OneAtATime, Alone
<1>1. client' = client
  BY NextClient
<1>2. ~modal.overlapped => Alone
  BY <1>1, AloneIs
<1>3. CASE \/ cooldownPasses \/ codeExpires \/ handleResend \/ UNCHANGED vars
           \/ \E op \in Ops : requestOtpHandler(op)
  BY <1>2, <1>3, DialogAlone
     DEF cooldownPasses, codeExpires, handleResend, requestOtpHandler, vars
<1>4. CASE \/ handleContinue \/ onBack \/ handleClose
           \/ \E op \in Ops : openModal(op) \/ editForm(op)
  <2>1. /\ UNCHANGED <<req, done, unrecorded>> /\ modal.step # "closed"
        /\ modal'.sent = modal.sent /\ modal'.overlapped = modal.overlapped
    <3>1. CASE handleContinue \/ onBack \/ handleClose
      BY <1>0, <3>1 DEF handleContinue, onBack, handleClose, Modal
    <3>2. ASSUME NEW op \in Ops, openModal(op) \/ editForm(op)
          PROVE  /\ UNCHANGED <<req, done, unrecorded>> /\ modal.step # "closed"
                 /\ modal'.sent = modal.sent /\ modal'.overlapped = modal.overlapped
      BY <1>0, <3>2 DEF openModal, editForm, Modal
    <3> QED
      BY <1>4, <3>1, <3>2
  <2> QED
    BY <1>2, <2>1, DialogAlone
<1>5. ASSUME NEW r \in Requests, verify(r) \/ consume(r) \/ countAttempt(r)
      PROVE  Alone'
  <2>1. /\ OthersKept(r) /\ UNCHANGED <<modal, done, unrecorded>>
        /\ req[r].pc \in {"verify", "consume", "attempt"}
    <3>1. CASE verify(r)
      BY <3>1, VerifyShape DEF verify
    <3>2. CASE consume(r)
      BY <3>2, ConsumeShape DEF consume
    <3>3. CASE countAttempt(r)
      BY <3>3, StepShape DEF countAttempt
    <3> QED
      BY <1>5, <3>1, <3>2, <3>3
  <2> QED
    BY <1>2, <2>1, RequestAlone DEF Before
<1>6. ASSUME NEW r \in Requests, trigger(r)
      PROVE  Alone'
  <2>0. OthersKept(r) /\ UNCHANGED <<modal, unrecorded>> /\ req[r].pc = "trigger" /\ Alone
    BY <1>2, <1>6, TriggerShape DEF trigger
  <2>1. CASE UNCHANGED done
    BY <2>0, <2>1, RequestAlone DEF Before
  <2>2. CASE req'[r].pc = "complete" /\ Len(done') = Len(done) + 1
    <3>1. \A s \in Requests : s # r => req'[s].pc = "idle"
      BY <2>0 DEF Alone, OthersKept
    <3>2. r \in modal.sent
      BY <2>0 DEF Alone
    <3>3. unrecorded = {} => done = <<>>
      BY <2>0 DEF Alone, Before
    <3>4. unrecorded = {} => Len(done') = 1
      BY <2>2, <3>3
    <3>5. \A s \in Requests : req'[s].pc \notin Before
      BY <2>2, <3>1 DEF Before
    <3>6. \A s \in Requests : req'[s].pc # "idle" => s = r
      BY <3>1
    <3>7. modal'.sent # {} /\ \A s, t \in modal'.sent : s = t
      BY <2>0, <3>2 DEF Alone
    <3>8. \A s \in Requests : req'[s].pc # "idle" => s \in modal'.sent
      BY <2>0, <3>2, <3>6
    <3>u. unrecorded' = unrecorded
      BY <2>0
    <3>n. Len(done') = 1 => Len(done') <= 1
      OBVIOUS
    <3>9. unrecorded' = {} => Len(done') <= 1
      BY <3>4, <3>u, <3>n
    <3> QED
      BY <3>5, <3>7, <3>8, <3>9 DEF Alone
  <2> QED
    BY <1>6, <2>1, <2>2, TriggerShape
<1>7. ASSUME NEW r \in Requests, complete(r)
      PROVE  Alone'
  <2>1. /\ OthersKept(r) /\ UNCHANGED <<modal, done>> /\ req[r].pc = "complete"
        /\ unrecorded' = {} => unrecorded = {} /\ req'[r].pc \in {"idle", "ok"}
    BY <1>7, CompleteShape DEF complete
  <2> QED
    BY <1>2, <2>1, RequestAlone DEF Before
<1>8. ASSUME NEW r \in Requests, deleteKey(r)
      PROVE  Alone'
  <2>1. OthersKept(r) /\ UNCHANGED <<modal, done, unrecorded>> /\ req[r].pc = "delete key"
    BY <1>8, DeleteShape DEF deleteKey
  <2> QED
    BY <1>2, <2>1, RequestAlone DEF Before
<1>9. ASSUME NEW r \in Requests, die(r) \/ loseAnswer(r)
      PROVE  Alone'
  <2>1. /\ OthersKept(r) /\ UNCHANGED <<modal, done, unrecorded>> /\ req[r].pc # "idle"
        /\ req'[r].pc \in {"idle", "lost"}
    BY <1>9, OverShape DEF die, loseAnswer
  <2> QED
    BY <1>2, <2>1, RequestAlone DEF Before
<1>10. ASSUME NEW r \in Requests, NEW key \in Keys, NEW op \in Ops, NEW code,
              apiRequest(r, key, op, code)
       PROVE  FALSE
  BY <1>1, <1>10 DEF apiRequest
<1>11. ASSUME NEW r \in Requests, NEW code, handleVerify(r, code) \/ handleSubmit(r)
       PROVE  Alone'
  <2>1. /\ modal'.sent = modal.sent \union {r}
        /\ modal'.overlapped <=> modal.overlapped \/ modal.sent # {}
        /\ modal.step # "closed"
        /\ UNCHANGED <<done, unrecorded>>
    BY <1>0, <1>11 DEF handleVerify, handleSubmit, Modal
  <2>2. Alone /\ modal.sent = {}
    BY <1>2, <2>1
  <2>3. OthersKept(r)
    BY <1>11, SendShape DEF handleVerify, handleSubmit
  <2>4. \A s \in Requests : req'[s].pc # "idle" => s = r
    BY <2>2, <2>3 DEF Alone, OthersKept
  <2>5. unrecorded = {} => done = <<>>
    BY <2>1, <2>2 DEF Alone
  <2> QED
    BY <2>1, <2>2, <2>4, <2>5 DEF Alone
<1>12. ASSUME NEW r \in Requests, webAnswer(r)
       PROVE  Alone'
  <2>1. OthersKept(r) /\ req[r].pc \in {"ok", "failed", "lost"} /\ UNCHANGED <<done, unrecorded>>
    BY <1>12, OverShape DEF webAnswer
  <2>2. req'[r].pc = "idle"
    BY <1>12 DEF webAnswer, Idle, TypeOK
  <2> DEFINE m == IF req[r].pc = "ok" THEN confirmed(modal)
                  ELSE IF modal.step # "submitting" THEN modal
                  ELSE IF needsCode(modal.op) THEN [modal EXCEPT !.step = "otp"]
                  ELSE IF req[r].pc = "failed" /\ req[r].gateway
                            /\ modal.attempt < VIRTUAL_ACCOUNT_MAX_ATTEMPTS
                  THEN [modal EXCEPT !.step = "retry"]
                  ELSE [modal EXCEPT !.step = "form"]
             left == IF req[r].pc = "lost" THEN m.sent ELSE m.sent \ {r}
  <2>3. /\ m \in Modal /\ m.sent = modal.sent /\ m.overlapped = modal.overlapped
        /\ req[r].pc = "ok" \/ modal.step = "closed" => m.step = "closed"
    BY <1>0 DEF confirmed, Modal
  <2>4. modal' = [m EXCEPT !.sent = left]
    BY <1>12 DEF webAnswer
  <2>5. left = IF req[r].pc = "lost" THEN modal.sent ELSE modal.sent \ {r}
    <3> HIDE DEF m
    <3> QED BY <2>3
  <2> HIDE DEF m, left
  <2>6. modal'.sent = left /\ modal'.overlapped = modal.overlapped /\ modal'.step = m.step
    BY <2>3, <2>4 DEF Modal
  <2>7. Alone
    BY <1>2, <2>6
  <2>8. r \in modal.sent /\ \A s \in Requests : req'[s].pc = "idle"
    BY <2>1, <2>2, <2>7 DEF Alone, OthersKept
  <2>9. unrecorded = {} /\ done # <<>> => req[r].pc # "failed"
    BY <2>7 DEF Alone, Before
  <2>10. unrecorded = {} /\ done # <<>> => modal'.step = "closed" \/ modal'.sent # {}
    BY <2>1, <2>3, <2>5, <2>6, <2>8, <2>9
  <2> QED
    BY <2>1, <2>5, <2>6, <2>7, <2>8, <2>10 DEF Alone, Before
<1> QED
  BY <1>3, <1>4, <1>5, <1>6, <1>7, <1>8, <1>9, <1>10, <1>11, <1>12 DEF Next
-----------------------------------------------------------------------------
(* The theorems *)

\* The invariant holds throughout every behaviour, whatever is lost or dies.
THEOREM Invariance == Spec => []Inv
<1>1. Init => Inv
  BY InitType, InitKeys, InitCodes, InitAlone DEF Inv
<1>2. Inv /\ [Next]_vars => Inv'
  BY NextType, NextKeys, NextChecked, NextAlone DEF Inv
<1> QED
  BY <1>1, <1>2, PTL DEF Spec

\* Whatever the requests, their order and their failures, an action that needs a code is
\* carried out only with a code issued for exactly it, or as a retry under the key that
\* consumed one (ActionOtpService.verify).
THEOREM AsConfirmed == Spec => []ExecutedAsConfirmed
<1>1. Inv => ExecutedAsConfirmed
  BY DEF Inv, CodesChecked, Confirmed, ExecutedAsConfirmed
<1> QED
  BY <1>1, Invariance, PTL

\* A key is carried out at most once, for any number of concurrent and repeated requests,
\* unless its completion could not be written (withIdempotencyKey).
THEOREM KeyCarriedOutOnce == Spec => []OncePerKey
<1>1. Inv => OncePerKey
  <2> SUFFICES ASSUME Inv, NEW k \in Keys, k \notin unrecorded
               PROVE  ExecutionsWhere(LAMBDA e : e.key = k) <= 1
    BY DEF OncePerKey
  <2>1. \A i, j \in {n \in DOMAIN done : done[n].key = k} : i = j
    BY DEF Inv, KeySpent
  <2>2. Cardinality({n \in DOMAIN done : done[n].key = k}) <= 1
    BY <2>1, AtMostOne
  <2> QED
    BY <2>2 DEF ExecutionsWhere
<1> QED
  BY <1>1, Invariance, PTL

\* A code confirms at most one action, races and retries apart (ActionOtpService.verify
\* and its unconditional update of consumedAt).
THEOREM CodeConfirmsOnce == Spec => []OncePerCode
<1>1. Inv => OncePerCode
  <2> SUFFICES ASSUME Inv, NEW c \in DOMAIN codes
               PROVE  ExecutionsWhere(LAMBDA e : e.code = c /\ ~e.raced /\ ~e.retried) <= 1
    BY DEF OncePerCode
  <2>1. c # 0
    BY DEF Inv, TypeOK
  <2>2. \A i, j \in {n \in DOMAIN done : done[n].code = c /\ ~done[n].raced /\ ~done[n].retried} :
           i = j
    BY <2>1 DEF Inv, FirstOnce, FirstDone
  <2>3. Cardinality({n \in DOMAIN done : done[n].code = c /\ ~done[n].raced
                                          /\ ~done[n].retried}) <= 1
    BY <2>2, AtMostOne
  <2> QED
    BY <2>3 DEF ExecutionsWhere
<1> QED
  BY <1>1, Invariance, PTL

\* A dialog that never sends while an answer is outstanding carries out at most one
\* action, though every request of it has a key of its own, unless a completion could not
\* be written (handleConfirm, handleVerify and handleSubmit of the pot page's dialogs).
THEOREM IntentCarriedOutOnce == Spec => []OncePerIntent
<1>1. Inv => OncePerIntent
  BY DEF Inv, OneAtATime, OncePerIntent
<1> QED
  BY <1>1, Invariance, PTL
=============================================================================
