--------------------------- MODULE ProviderClient ---------------------------
(***************************************************************************)
(* What shares the one NombaClient of a process: transfer jobs that the    *)
(* per-recipient throttle lets through (worker.ts, transfer-throttle.ts),  *)
(* the nightly reconciliation pass (reconciliation.service.ts), and the    *)
(* token cache that every request goes through (nomba.client.ts).          *)
(***************************************************************************)
EXTENDS Integers, Sequences, FiniteSets

CONSTANTS
    Jobs,                 \* transfers, all to one recipient
    limit,                \* transfers to a recipient in a minute
    Refs,                 \* references both books know
    Due,                  \* the amount of each in our books
    Paid,                 \* the amounts Nomba may report for one
    MaxListed,            \* bound on Nomba's list
    MAX_RECONCILE_PAGES,
    MaxFaults             \* bound on outages and Redis errors

ASSUME ProviderClientAssumption ==
    /\ limit \in Nat \ {0} /\ MAX_RECONCILE_PAGES \in Nat
    /\ MaxListed \in Nat /\ MaxFaults \in Nat
    /\ Due \in [Refs -> Nat] /\ Paid \in [Refs -> SUBSET Nat]

VARIABLES
    token,      \* cachedToken: "none", "fresh", or "stale" past the 55th minute
    refreshOk,  \* Nomba: the refresh token we hold is still good
    inFlight,   \* inFlightTokenRequest: "none" or the endpoint it is at
    call,       \* the request each caller has under way
    job,        \* where each transfer job is
    window,     \* the throttle's sorted set: reservations of the last minute
    posted,     \* the references in our transactions table
    listed,     \* Nomba's successful transactions of the period, oldest first
    pass,       \* the reconciliation pass and its batch
    faults

clientVars == <<token, refreshOk, inFlight, call, job, window, posted, listed, pass, faults>>
auth  == <<token, refreshOk, inFlight>>
books == <<posted, listed>>

Pass    == "reconciliation"
Callers == Jobs \union {Pass}

NewPass == [pc |-> "idle", expected |-> {}, cursor |-> 0, pages |-> 0, seen |-> {},
            findings |-> {}, reportedAmount |-> 0, batch |-> "none"]

ClientInit ==
    /\ token = "none" /\ refreshOk = FALSE /\ inFlight = "none"
    /\ call = [c \in Callers |-> "none"]
    /\ job = [j \in Jobs |-> "queued"]
    /\ window = 0
    /\ posted = {} /\ listed = <<>>
    /\ pass = NewPass
    /\ faults = 0

fault == faults < MaxFaults /\ faults' = faults + 1
-----------------------------------------------------------------------------
(* getAccessToken and request *)

\* What a caller that needs an answer from Nomba does first.  Nobody asks for a token
\* while a request for one is under way: they all wait for that one.
getAccessToken(c) ==
    /\ call[c] = "none"
    /\ c \in Jobs => job[c] = "transfer"
    /\ c = Pass => pass.pc = "fetch"
    /\ IF token = "fresh"
       THEN call' = [call EXCEPT ![c] = "sent"] /\ UNCHANGED inFlight
       ELSE /\ call' = [call EXCEPT ![c] = "token"]
            /\ inFlight' = IF inFlight # "none" THEN inFlight
                           ELSE IF token = "none" THEN "issue" ELSE "refresh"
    /\ UNCHANGED <<token, refreshOk, job, window, books, pass, faults>>

Settle(outcome) == [c \in Callers |-> IF call[c] = "token" THEN outcome ELSE call[c]]

\* Either endpoint answers: everyone who waited goes on with the new token.
tokenArrives ==
    /\ inFlight = "issue" \/ (inFlight = "refresh" /\ refreshOk)
    /\ token' = "fresh" /\ refreshOk' = TRUE
    /\ inFlight' = "none"
    /\ call' = Settle("sent")
    /\ UNCHANGED <<job, window, books, pass, faults>>

\* A refusal or an outage of the refresh endpoint: a full login follows.
refreshFails ==
    /\ inFlight = "refresh"
    /\ IF refreshOk THEN fault ELSE UNCHANGED faults
    /\ inFlight' = "issue"
    /\ UNCHANGED <<token, refreshOk, call, job, window, books, pass>>

issueFails ==
    /\ inFlight = "issue"
    /\ fault
    /\ inFlight' = "none"
    /\ call' = Settle("error")
    /\ UNCHANGED <<token, refreshOk, job, window, books, pass>>

\* Time: the cached token passes its refreshAt, the refresh token its own end later.
tokenAges ==
    /\ token = "fresh"
    /\ token' = "stale"
    /\ UNCHANGED <<refreshOk, inFlight, call, job, window, books, pass, faults>>

refreshTokenEnds ==
    /\ refreshOk /\ token = "stale"
    /\ refreshOk' = FALSE
    /\ UNCHANGED <<token, inFlight, call, job, window, books, pass, faults>>

\* request() turns a refusal, a timeout and a network error alike into a NombaApiError.
requestFails(c) ==
    /\ call[c] = "sent"
    /\ fault
    /\ call' = [call EXCEPT ![c] = "error"]
    /\ UNCHANGED <<auth, job, window, books, pass>>
-----------------------------------------------------------------------------
(* The transfers worker *)

\* Mutant of reserve: a job over the cap fails instead of waiting.
reserveRefused(j) ==
    /\ job[j] = "queued"
    /\ IF window < limit
       THEN window' = window + 1 /\ job' = [job EXCEPT ![j] = "transfer"]
       ELSE job' = [job EXCEPT ![j] = "failed"] /\ UNCHANGED window
    /\ UNCHANGED <<auth, call, books, pass, faults>>

\* One EVAL: at the cap nothing is counted, and the job is moved to delayed before it
\* touched the ledger.
reserve(j) ==
    /\ job[j] = "queued"
    /\ IF window < limit
       THEN window' = window + 1 /\ job' = [job EXCEPT ![j] = "transfer"]
       ELSE job' = [job EXCEPT ![j] = "delayed"] /\ UNCHANGED window
    /\ UNCHANGED <<auth, call, books, pass, faults>>

\* The throttle's own Redis connection fails: the lock is released, the job fails.
reserveFails(j) ==
    /\ job[j] = "queued"
    /\ fault
    /\ job' = [job EXCEPT ![j] = "failed"]
    /\ UNCHANGED <<auth, call, window, books, pass>>

delayForThrottle(j) ==
    /\ job[j] = "delayed"
    /\ job' = [job EXCEPT ![j] = "queued"]
    /\ UNCHANGED <<auth, call, window, books, pass, faults>>

\* A reservation is a minute old.
slide ==
    /\ window > 0
    /\ window' = window - 1
    /\ UNCHANGED <<auth, call, job, books, pass, faults>>

\* transferToBankAccount; the look-up before it is another request like it, and what the
\* ledger does between the two is in Disbursement.
callNomba(j) ==
    /\ call[j] = "sent" /\ job[j] = "transfer"
    /\ call' = [call EXCEPT ![j] = "none"]
    /\ job' = [job EXCEPT ![j] = "done"]
    /\ UNCHANGED <<auth, window, books, pass, faults>>

jobFails(j) ==
    /\ call[j] = "error" /\ job[j] = "transfer"
    /\ call' = [call EXCEPT ![j] = "none"]
    /\ job' = [job EXCEPT ![j] = "failed"]
    /\ UNCHANGED <<auth, window, books, pass, faults>>
-----------------------------------------------------------------------------
(* Reconciliation *)

\* The two books move on while a pass is under way: a row is posted, or Nomba settles.
\* A contribution paid in parts is listed once for each part.  What happens after the
\* pass is the next pass's.
Reading == pass.pc \notin {"closed", "failed"}

post(r) ==
    /\ r \notin posted /\ Reading
    /\ posted' = posted \union {r}
    /\ UNCHANGED <<auth, call, job, window, listed, pass, faults>>

settles(r) ==
    /\ Len(listed) < MaxListed /\ Reading
    /\ \E amount \in Paid[r] : listed' = Append(listed, [ref |-> r, amount |-> amount])
    /\ UNCHANGED <<auth, call, job, window, posted, pass, faults>>

\* The rows of the period are read, then the batch is opened.
runForWindow ==
    /\ pass.pc = "idle"
    /\ pass' = [NewPass EXCEPT !.pc = "fetch", !.expected = posted, !.batch = "open"]
    /\ UNCHANGED <<auth, call, job, window, books, faults>>

\* Mutant of buildLineItem: only what is overpaid counts as a mismatch.
buildLineItemOverpaid(tx) ==
    [ref |-> tx.ref, status |-> IF tx.ref \notin posted THEN "orphan"
                                ELSE IF tx.amount <= Due[tx.ref] THEN "matched" ELSE "overpaid"]

buildLineItem(tx) ==
    [ref |-> tx.ref, status |-> IF tx.ref \notin posted THEN "orphan"
                                ELSE IF tx.amount = Due[tx.ref] THEN "matched"
                                ELSE IF tx.amount > Due[tx.ref] THEN "overpaid" ELSE "underpaid"]

\* After a page: another one if there is a cursor, but not for ever.
nextPage(p, more) ==
    [p EXCEPT !.pages = @ + 1,
              !.pc = IF p.pages + 1 > MAX_RECONCILE_PAGES THEN "failed"
                     ELSE IF more THEN "fetch" ELSE "missing"]

\* A page of one transaction: classified against our books as they are now, recorded.
fetchTransactions ==
    /\ pass.pc = "fetch" /\ call[Pass] = "sent"
    /\ call' = [call EXCEPT ![Pass] = "none"]
    /\ IF pass.cursor < Len(listed)
       THEN LET tx == listed[pass.cursor + 1] IN
            pass' = nextPage([pass EXCEPT !.cursor = @ + 1, !.seen = @ \union {tx.ref},
                                          !.findings = @ \union {buildLineItem(tx)},
                                          !.reportedAmount = @ + tx.amount],
                             pass.cursor + 1 < Len(listed))
       ELSE pass' = nextPage(pass, FALSE)
    /\ UNCHANGED <<auth, job, window, books, faults>>

\* Nomba repeats an empty page with a cursor, again and again.
endlessCursor ==
    /\ pass.pc = "fetch" /\ call[Pass] = "sent"
    /\ call' = [call EXCEPT ![Pass] = "none"]
    /\ pass' = nextPage(pass, TRUE)
    /\ UNCHANGED <<auth, job, window, books, faults>>

\* The expected references that no page had.
listExpectedRefs ==
    /\ pass.pc = "missing"
    /\ pass' = [pass EXCEPT !.pc = "close",
                            !.findings = @ \union {[ref |-> r, status |-> "missing_on_nomba"] :
                                                     r \in pass.expected \ pass.seen}]
    /\ UNCHANGED <<auth, call, job, window, books, faults>>

closeBatch ==
    /\ pass.pc = "close"
    /\ pass' = [pass EXCEPT !.pc = "closed",
                            !.batch = IF \A f \in pass.findings : f.status = "matched"
                                      THEN "matched" ELSE "mismatched"]
    /\ UNCHANGED <<auth, call, job, window, books, faults>>

\* An error leaves the batch open, with the findings it has.
passFails ==
    /\ pass.pc = "fetch" /\ call[Pass] = "error"
    /\ call' = [call EXCEPT ![Pass] = "none"]
    /\ pass' = [pass EXCEPT !.pc = "failed"]
    /\ UNCHANGED <<auth, job, window, books, faults>>
-----------------------------------------------------------------------------
work(c) ==
    \/ getAccessToken(c)
    \/ c \in Jobs /\ (reserve(c) \/ delayForThrottle(c) \/ callNomba(c) \/ jobFails(c))
    \/ c = Pass /\ (fetchTransactions \/ listExpectedRefs \/ closeBatch \/ passFails)

ClientNext ==
    \/ \E c \in Callers : work(c) \/ requestFails(c)
    \/ \E j \in Jobs : reserveFails(j)
    \/ tokenArrives \/ refreshFails \/ issueFails \/ tokenAges \/ refreshTokenEnds
    \/ slide \/ runForWindow \/ endlessCursor
    \/ \E r \in Refs : post(r) \/ settles(r)

ClientSpec == ClientInit /\ [][ClientNext]_clientVars

\* Every call and job goes on, Nomba answers in the end (or the request times out),
\* and minutes pass.
ClientFairness ==
    /\ \A c \in Callers : WF_clientVars(work(c))
    /\ WF_clientVars(tokenArrives \/ refreshFails \/ issueFails)
    /\ WF_clientVars(slide)

FairClientSpec == ClientSpec /\ ClientFairness
-----------------------------------------------------------------------------
(* Properties *)

\* A batch that is marked matched saw every row it expected at Nomba, and every
\* transaction it read agrees with the books in reference and amount.
MatchedIsAgreement ==
    pass.batch = "matched" =>
        /\ pass.expected \subseteq {listed[i].ref : i \in 1 .. pass.cursor}
        /\ \A i \in 1 .. pass.cursor :
              listed[i].ref \in posted /\ listed[i].amount = Due[listed[i].ref]

\* Everything comes to its end, and to a good one unless there was an outage: an old
\* token, a refused refresh or the cap never costs a transfer, a delayed job is not
\* starved, and a pass gives up only on a cursor that never ends.
WorkEnds ==
    /\ \A j \in Jobs : <>(job[j] = "done" \/ (job[j] = "failed" /\ faults > 0))
    /\ pass.pc # "idle" ~>
          \/ pass.pc = "closed"
          \/ pass.pc = "failed" /\ (faults > 0 \/ pass.pages > MAX_RECONCILE_PAGES)
=============================================================================
