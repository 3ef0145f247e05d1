-------------------------- MODULE ConfirmedActions --------------------------
(***************************************************************************)
(* Payouts, refunds and contributions as they are asked for: the dialogs   *)
(* of the pot page (PayoutDestinationModal, PayoutAmountModal,             *)
(* RefundConfirmModal with OtpStep, and ContributeModal), the handlers     *)
(* behind them (pots.controller.ts), the idempotency keys they run under   *)
(* (idempotency.service.ts) and the one-time codes that confirm them       *)
(* (action-otp.service.ts).                                                *)
(*                                                                         *)
(* The requests of a behaviour come from one client: the web page, which   *)
(* makes a fresh key for each, or a client of the API that picks its keys  *)
(* itself.  Any answer may be lost.  What a trigger does to the pot is     *)
(* Disbursement's subject; here it happens or is refused.                  *)
(***************************************************************************)
EXTENDS Integers, Sequences, FiniteSets

CONSTANTS
    Requests,     \* requests that may be under way at the same time
    Keys,         \* Idempotency-Keys
    Ops,          \* what is asked for: records of action and context
    MaxCodes,     \* bound on the codes issued
    MaxSent,      \* bound on the requests sent
    maxAttempts,  \* wrong tries a code allows
    MaxFaults     \* bound on lost answers, failing statements and crashes

CONSTANT VIRTUAL_ACCOUNT_MAX_ATTEMPTS

ASSUME ActionsAssumption ==
    /\ \A o \in Ops : o.action \in {"trigger_payout", "trigger_refund", "contribute"}
    /\ MaxCodes \in Nat /\ MaxSent \in Nat /\ MaxFaults \in Nat
    /\ maxAttempts \in Nat \ {0} /\ VIRTUAL_ACCOUNT_MAX_ATTEMPTS \in Nat \ {0}

VARIABLES
    keys,        \* idempotency_keys: status ("absent" for no row) and requestHash
    codes,       \* action_otp_codes, in the order of createdAt
    cooling,     \* actions whose newest code is younger than the cooldown
    req,         \* requests under way
    client,      \* who sends the requests
    modal,       \* the dialog: step, what it is for, attempts of ContributeModal, and as
                 \* history the requests not answered and whether it sent another meanwhile
    done,        \* history: what was carried out, in order
    used,        \* history: how many requests were sent, and the keys
    unrecorded,  \* history: keys whose completion could not be written
    faults

vars == <<keys, codes, cooling, req, client, modal, done, used, unrecorded, faults>>

NoRow     == [status |-> "absent", hash |-> <<>>]
Idle      == [pc |-> "idle"]
WrongCode == 0

Init ==
    /\ keys = [k \in Keys |-> NoRow]
    /\ codes = <<>>
    /\ cooling = {}
    /\ req = [r \in Requests |-> Idle]
    /\ client \in {"web", "api"}
    /\ modal = [step |-> "none", op |-> CHOOSE o \in Ops : TRUE, attempt |-> 0, sent |-> {},
                overlapped |-> FALSE]
    /\ done = <<>>
    /\ used = [sent |-> 0, keys |-> {}] /\ unrecorded = {}
    /\ faults = 0

Fault == faults < MaxFaults /\ faults' = faults + 1

At(r, step)   == req[r].pc = step
Goto(r, step) == req' = [req EXCEPT ![r].pc = step]

\* What becomes of an answer is followed for the web page only.
Answered(request, ok) ==
    IF client = "api" THEN Idle ELSE [request EXCEPT !.pc = IF ok THEN "ok" ELSE "failed"]
Answer(r, ok) == req' = [req EXCEPT ![r] = Answered(@, ok)]
-----------------------------------------------------------------------------
(* ActionOtpService.request *)

needsCode(op) == op.action # "contribute"

\* A code for exactly this action and context, at most one a minute.  When the mail
\* fails the row stays and nobody knows its code.
requestCode(op) ==
    /\ needsCode(op)
    /\ IF op.action \in cooling THEN UNCHANGED <<codes, cooling, faults>>
       ELSE /\ Len(codes) < MaxCodes
            /\ \E mailed \in BOOLEAN :
                 /\ codes' = Append(codes, [op |-> op, consumed |-> FALSE, by |-> "none",
                                            attempts |-> 0, expired |-> FALSE, mailed |-> mailed])
                 /\ IF mailed THEN UNCHANGED faults ELSE Fault
            /\ cooling' = cooling \union {op.action}

\* OTP_RESEND_COOLDOWN_SECONDS pass.
cooldownPasses ==
    /\ \E a \in cooling : cooling' = cooling \ {a}
    /\ UNCHANGED <<client, keys, codes, req, modal, done, used, unrecorded, faults>>

\* OTP_TTL_MINUTES pass for the oldest code that has not expired.
codeExpires ==
    /\ \E i \in DOMAIN codes :
          /\ ~codes[i].expired /\ \A j \in 1 .. i - 1 : codes[j].expired
          /\ codes[i].op.action \notin cooling
          /\ codes' = [codes EXCEPT ![i].expired = TRUE]
    /\ UNCHANGED <<client, keys, cooling, req, modal, done, used, unrecorded, faults>>

\* requestPayoutOtpHandler and requestRefundOtpHandler, asked for by a client of the API.
requestOtpHandler(op) ==
    /\ client = "api"
    /\ requestCode(op)
    /\ UNCHANGED <<client, keys, req, modal, done, used, unrecorded>>
-----------------------------------------------------------------------------
(* withIdempotencyKey and what it runs *)

\* A payout's hash covers its body, the code included; a refund's covers none of it.
hashRequest(op, code) ==
    IF op.action = "trigger_refund" THEN <<op.action>> ELSE <<op.action, op.context, code>>

Request(pc, key, op, code) ==
    [pc |-> pc, key |-> key, op |-> op, code |-> code, otp |-> 0, seen |-> 0, fresh |-> FALSE,
     retried |-> FALSE, raced |-> FALSE, gateway |-> FALSE]

\* Mutant of insertKey: a row that is there is taken over.
insertKeyAnyway(r, key, op, code) ==
    /\ keys' = [keys EXCEPT ![key] = [status |-> "in_progress", hash |-> hashRequest(op, code)]]
    /\ req' = [req EXCEPT ![r] = Request(IF needsCode(op) THEN "verify" ELSE "trigger", key, op, code)]

\* The primary key lets one request in.  The others read the row: they are refused
\* when it has another hash or is in progress, and answered from it when it is completed.
insertKey(r, key, op, code) ==
    IF keys[key].status = "absent"
    THEN /\ keys' = [keys EXCEPT ![key] = [status |-> "in_progress", hash |-> hashRequest(op, code)]]
         /\ req' = [req EXCEPT ![r] = Request(IF needsCode(op) THEN "verify" ELSE "trigger",
                                              key, op, code)]
    ELSE /\ req' = [req EXCEPT ![r] = Answered(
                         Request("verify", key, op, code),
                         keys[key] = [status |-> "completed", hash |-> hashRequest(op, code)])]
         /\ UNCHANGED keys

Send(r, key, op, code) ==
    /\ req[r] = Idle /\ used.sent < MaxSent
    /\ insertKey(r, key, op, code)
    /\ used' = [sent |-> used.sent + 1, keys |-> used.keys \union {key}]

ofAction(a) == {i \in DOMAIN codes : codes[i].op.action = a}

Newest(S) == CHOOSE i \in S : \A j \in S : j <= i

\* Mutant of unconsumed: codes that confirmed something are offered again.
unconsumedOrNot(a) == ofAction(a)

unconsumed(a) == {i \in ofAction(a) : ~codes[i].consumed}

\* Mutant of isValid: the context is not compared.
isValidForAnyContext(i, op, code) == code = i

isValid(i, op, code) == code = i /\ codes[i].op = op

\* ActionOtpService.verify up to its first write.  The newest code that is not
\* consumed counts; when there is none, a request whose key consumed the newest one
\* passes, whatever its context.
verify(r) ==
    LET op    == req[r].op
        all   == ofAction(op.action)
        fresh == unconsumed(op.action)
    IN
    /\ At(r, "verify")
    /\ \/ /\ fresh = {}
          /\ IF all # {} /\ codes[Newest(all)].by = req[r].key
             THEN req' = [req EXCEPT ![r].pc = "trigger", ![r].otp = Newest(all), ![r].retried = TRUE]
             ELSE Goto(r, "delete key")
       \/ /\ fresh # {}
          /\ LET i == Newest(fresh) IN
             IF codes[i].expired \/ codes[i].attempts >= maxAttempts
             THEN Goto(r, "delete key")
             ELSE req' = [req EXCEPT ![r].otp = i, ![r].seen = codes[i].attempts,
                                     ![r].fresh = ~codes[i].consumed,
                                     ![r].pc = IF isValid(i, op, req[r].code)
                                               THEN "consume" ELSE "attempt"]
    /\ UNCHANGED <<client, keys, codes, cooling, modal, done, used, unrecorded, faults>>

\* The count that was read, plus one: of two requests that read the same, one is lost.
countAttempt(r) ==
    LET i == req[r].otp IN
    /\ At(r, "attempt")
    /\ codes' = [codes EXCEPT ![i].attempts = req[r].seen + 1]
    /\ Goto(r, "delete key")
    /\ UNCHANGED <<client, keys, cooling, modal, done, used, unrecorded, faults>>

\* Unconditional: a request that read the code before another consumed it passes too.
consume(r) ==
    LET i == req[r].otp IN
    /\ At(r, "consume")
    /\ codes' = [codes EXCEPT ![i].consumed = TRUE, ![i].by = req[r].key]
    /\ req' = [req EXCEPT ![r].pc = "trigger", ![r].raced = req[r].fresh /\ codes[i].consumed]
    /\ UNCHANGED <<client, keys, cooling, modal, done, used, unrecorded, faults>>

\* triggerPayout, triggerRefund or ContributionsService.create: carried out, or thrown
\* (a pot that is locked or closed; a provider that gives no account, a 502).
trigger(r) ==
    /\ At(r, "trigger")
    /\ \/ /\ done' = Append(done, [key |-> req[r].key, op |-> req[r].op, code |-> req[r].otp,
                                   retried |-> req[r].retried,
                                   raced |-> req[r].raced])
          /\ Goto(r, "complete")
       \/ /\ \E g \in BOOLEAN :
                /\ g => ~needsCode(req[r].op)
                /\ req' = [req EXCEPT ![r].pc = "delete key", ![r].gateway = g]
          /\ UNCHANGED done
    /\ UNCHANGED <<client, keys, codes, cooling, modal, used, unrecorded, faults>>

\* The update that records the completion is inside the try: its failure deletes the
\* key of an action that was carried out.
complete(r) ==
    /\ At(r, "complete")
    /\ \/ /\ keys' = [keys EXCEPT ![req[r].key].status = "completed"]
          /\ Answer(r, TRUE)
          /\ UNCHANGED <<unrecorded, faults>>
       \/ /\ Fault
          /\ Goto(r, "delete key")
          /\ unrecorded' = unrecorded \union {req[r].key}
          /\ UNCHANGED keys
    /\ UNCHANGED <<client, codes, cooling, modal, done, used>>

\* No code throws IndeterminateFailureError, so that every failure deletes the key.
deleteKey(r) ==
    /\ At(r, "delete key")
    /\ keys' = [keys EXCEPT ![req[r].key] = NoRow]
    /\ Answer(r, FALSE)
    /\ UNCHANGED <<client, codes, cooling, modal, done, used, unrecorded, faults>>

\* The process dies under the request; nothing looks at expiresAt, so that a key in
\* progress stays.
die(r) ==
    /\ req[r].pc \notin {"idle", "ok", "failed", "lost"}
    /\ Fault
    /\ IF client = "api" THEN req' = [req EXCEPT ![r] = Idle] ELSE Goto(r, "lost")
    /\ UNCHANGED <<client, keys, codes, cooling, modal, done, used, unrecorded>>

loseAnswer(r) ==
    /\ req[r].pc \in {"ok", "failed"}
    /\ Fault
    /\ Goto(r, "lost")
    /\ UNCHANGED <<client, keys, codes, cooling, modal, done, used, unrecorded>>

\* A client of the API: it sends any key, also one it used before.
apiRequest(r, key, op, code) ==
    /\ client = "api"
    /\ needsCode(op) \/ code = WrongCode
    /\ code \in DOMAIN codes => codes[code].mailed
    /\ Send(r, key, op, code)
    /\ UNCHANGED <<client, codes, cooling, modal, done, unrecorded, faults>>
-----------------------------------------------------------------------------
(* The dialogs of the pot page *)

\* The page opens a dialog for one payout, refund or contribution (once a run).
openModal(op) ==
    /\ client = "web" /\ modal.step = "none"
    /\ modal' = [modal EXCEPT !.step = "form", !.op = op]
    /\ UNCHANGED <<client, keys, codes, cooling, req, done, used, unrecorded, faults>>

\* Another destination or amount: the step before the code, to which Back returns.
editForm(op) ==
    /\ modal.step = "form"
    /\ op.action = modal.op.action /\ op # modal.op
    /\ modal' = [modal EXCEPT !.op = op]
    /\ UNCHANGED <<client, keys, codes, cooling, req, done, used, unrecorded, faults>>

\* OtpStep asks for a code when it appears; a refusal only shows a toast.
handleContinue ==
    /\ modal.step = "form" /\ needsCode(modal.op)
    /\ modal' = [modal EXCEPT !.step = "otp"]
    /\ requestCode(modal.op)
    /\ UNCHANGED <<client, keys, req, done, used, unrecorded>>

handleResend ==
    /\ modal.step = "otp"
    /\ requestCode(modal.op)
    /\ UNCHANGED <<client, keys, req, modal, done, used, unrecorded>>

\* Back is not disabled while a request is under way.
onBack ==
    /\ modal.step \in {"otp", "submitting"} /\ needsCode(modal.op)
    /\ modal' = [modal EXCEPT !.step = "form"]
    /\ UNCHANGED <<client, keys, codes, cooling, req, done, used, unrecorded, faults>>

handleClose ==
    /\ modal.step \notin {"none", "closed"}
    /\ modal' = [modal EXCEPT !.step = "closed"]
    /\ UNCHANGED <<client, keys, codes, cooling, req, done, used, unrecorded, faults>>

\* handleConfirm and handleVerify: a request with a fresh key and the code typed in.
handleVerify(r, code) ==
    /\ modal.step = "otp"
    /\ code \in DOMAIN codes => codes[code].mailed
    /\ \E key \in Keys \ used.keys : Send(r, key, modal.op, code)
    /\ modal' = [modal EXCEPT !.step = "submitting", !.sent = @ \union {r},
                              !.overlapped = @ \/ modal.sent # {}]
    /\ UNCHANGED <<client, codes, cooling, done, unrecorded, faults>>

\* ContributeModal: up to three requests, each with a fresh key.
handleSubmit(r) ==
    /\ modal.step \in {"form", "retry"} /\ ~needsCode(modal.op)
    /\ \E key \in Keys \ used.keys : Send(r, key, modal.op, WrongCode)
    /\ modal' = [modal EXCEPT !.step = "submitting", !.sent = @ \union {r},
                              !.overlapped = @ \/ modal.sent # {},
                              !.attempt = IF modal.step = "form" THEN 1 ELSE @ + 1]
    /\ UNCHANGED <<client, codes, cooling, done, unrecorded, faults>>

\* Mutant of confirmed: the dialog stays where it is.
confirmedStaysOpen(m) == [m EXCEPT !.step = "otp"]

\* onConfirmed or onContributed, then handleClose.
confirmed(m) == [m EXCEPT !.step = "closed"]

\* The page takes the answer, from wherever the dialog is by now.  A contribution is
\* tried again after a 502 only, which says that nothing was carried out.
webAnswer(r) ==
    /\ req[r].pc \in {"ok", "failed", "lost"}
    /\ req' = [req EXCEPT ![r] = Idle]
    /\ modal' = [IF req[r].pc = "ok" THEN confirmed(modal)
                 ELSE IF modal.step # "submitting" THEN modal
                 ELSE IF needsCode(modal.op) THEN [modal EXCEPT !.step = "otp"]
                 ELSE IF req[r].pc = "failed" /\ req[r].gateway /\ modal.attempt < VIRTUAL_ACCOUNT_MAX_ATTEMPTS
                 THEN [modal EXCEPT !.step = "retry"]
                 ELSE [modal EXCEPT !.step = "form"]
                 EXCEPT !.sent = IF req[r].pc = "lost" THEN @ ELSE @ \ {r}]
    /\ UNCHANGED <<client, keys, codes, cooling, done, used, unrecorded, faults>>
-----------------------------------------------------------------------------
Next ==
    \/ cooldownPasses \/ codeExpires
    \/ \E op \in Ops : requestOtpHandler(op) \/ openModal(op) \/ editForm(op)
    \/ handleContinue \/ handleResend \/ onBack \/ handleClose
    \/ \E r \in Requests :
          \/ verify(r) \/ countAttempt(r) \/ consume(r)
          \/ trigger(r) \/ complete(r) \/ deleteKey(r) \/ die(r) \/ loseAnswer(r)
          \/ \E key \in Keys, op \in Ops, code \in {WrongCode} \union DOMAIN codes :
                apiRequest(r, key, op, code)
          \/ \E code \in {WrongCode} \union DOMAIN codes : handleVerify(r, code)
          \/ handleSubmit(r) \/ webAnswer(r)

Spec == Init /\ [][Next]_vars
-----------------------------------------------------------------------------
(* Properties *)

ExecutionsWhere(P(_)) == Cardinality({i \in DOMAIN done : P(done[i])})

\* What is carried out is what the mail asked to confirm: a code confirms the exact
\* destination and amount it was issued for ("so it can't be reused for a different
\* one", requestPayoutOtpHandler).  The one way around it is a retry under the key
\* that consumed the code, whose context nobody compares.
ExecutedAsConfirmed ==
    \A i \in DOMAIN done :
        needsCode(done[i].op) => codes[done[i].code].op = done[i].op \/ done[i].retried

\* A key is carried out once, whatever is sent how often and at the same time, unless
\* the completion could not be written: then its row is deleted, and a retry pays again.
OncePerKey ==
    \A k \in Keys : k \in unrecorded \/ ExecutionsWhere(LAMBDA e : e.key = k) <= 1

\* A code confirms one action, but for requests that had read it before the first of
\* them consumed it and for retries of the one that did.
OncePerCode ==
    \A c \in DOMAIN codes :
        ExecutionsWhere(LAMBDA e : e.code = c /\ ~e.raced /\ ~e.retried) <= 1

\* Who means one payout, refund or contribution gets at most one out of the dialog,
\* though each of its requests has a key of its own: sending again while an answer is
\* outstanding or lost, or after a failed completion, is the way to two.
OncePerIntent ==
    modal.overlapped \/ unrecorded # {} \/ (client = "web" => Len(done) <= 1)
=============================================================================
