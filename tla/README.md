# Glasspot in TLA+

Glasspot pools money: contributors pay into a *pot* through virtual bank
accounts, and payouts and refunds leave it as bank transfers. This directory
models the backend that moves the money, the inbox, keys, codes and sessions in
front of it, and the web pages that ask for it; checks the models with TLC on
small instances; and proves with TLAPS, for every instance, that all of them keep
their safety promises.

Paths below are relative to `src/apps/backend/src`; `web/` stands for `src/apps/web/`.

## The system

| Component | State | Operations | Talks to |
| --- | --- | --- | --- |
| Ledger (`modules/ledger/ledger.service.ts`) | `transactions`, `ledger_entries`, `balances` | `postTransaction`, `reverseTransaction`, `markCompleted`, `getBalance` | everything that moves money |
| Fees (`lib/fees.ts`) | none | the legs of a contribution, a disbursement, a suspense refund | ledger |
| Pots (`modules/pots/pots.service.ts`) | `pots`, the payout config tables | create, update, activate, `close`, `triggerPayout`, `triggerRefund`, `resolvePendingTransfer` | ledger, queue |
| Sweeps (`target-based-payout.service.ts`, `payout-scheduler.service.ts`) | `fired`, `nextRunAt`, scheduled legs | fire what is due | pots, queue |
| Transfers worker (`workers/worker.ts`) | BullMQ jobs | `processLedgerDisbursement`, `processContributionRefund` | throttle, provider, ledger, pots |
| Failed jobs (`modules/scheduler/failed-job-tracker.ts`) | `failed_jobs` | track, retry, ignore | queue |
| Contributions (`contributions.service.ts`, `expiry.service.ts`) | `contributions`, `contribution_payments` | create, `confirmFunding`, `reverseFunding`, expiry sweep | ledger, provider, queue |
| Webhook inbox (`integrations/nomba/nomba-webhooks.service.ts`) | `provider_events`, ids in Redis | insert, claim, dispatch, release | contributions, pots |
| Keys and action codes (`lib/idempotency.service.ts`, `action-otp.service.ts`) | `idempotency_keys`, `action_otp_codes` | reserve, replay; request, verify, consume | controllers |
| Members (`pot-members.service.ts`, `pending-members.service.ts`) | `pot_members`, `pot_pending_members` | invite, activate, promote, remove | pots, auth |
| Sessions (`modules/auth/auth.service.ts`, `web/proxy.ts`, `web/lib/server/session.ts`) | refresh token hash, `otp_codes`, cookies | sign-up, login, refresh, logout, reset | |
| Provider client (`integrations/nomba`) | access token, transfer throttle | token refresh, transfers, listing | Nomba |
| Reconciliation (`modules/ledger/reconciliation.service.ts`) | `settlement_batches`, `reconciliation_records` | compare a window | provider, ledger |
| Pot pages (`web/app/(app)/pots`, `web/components/pot`) | forms, dialogs, lookups under way | draft, edit, pay out, refund, contribute | the API |

What is hard here is that nearly everything is carried by several parties in
turn, without a common database transaction. A disbursement is claimed by a
request or a cron sweep, posted and sent by a worker, and settled by whichever
of the worker and a webhook comes first. A payment meets other payments of the
same contribution, the sweep that expires it and a reversal. A pot is edited by
requests that read, check and then write unconditionally. A page sends again
what was lost, and renders with state an effect has already overwritten. Any of
them can die, fail, be retried or be late. What makes the parts correct:

* ledger: one posting per reference, all of its entries or none, no negative
  balance, debits equal credits;
* disbursement: one operation in flight on a pot, the lock held as long as a leg
  is unresolved and no longer, money given back only if it did not leave, each
  side effect applied once;
* calendar payouts: a leg is paid once, and in the end;
* contributions: a payment is credited once or sent back, never both, and an
  excess is sent back once;
* inbox: an event is dispatched by one delivery at a time and takes effect once,
  and the provider is not told of a success that did not happen;
* keys and codes: what is carried out is what was confirmed, once;
* pot: it keeps an admin, its configuration fits its mode, its terms do not
  change once it is open, it closes only when settled;
* sessions: a refresh token is exchanged once, a reset ends sessions, a dead
  session ends at the login page;
* pages: what is sent was confirmed by its owner's name, what is saved is what
  was shown.

`PROJECT.json` lists every hazard at its line with the properties aimed at it.

## Modules

| Module | Models |
| --- | --- |
| `LedgerBook` | the accounts, `applyEntryToBalance`'s arithmetic, and the legs of `lib/fees.ts` with the code's constants, as pure operators |
| `Ledger`, `LedgerPosting`, `LedgerPostingProofs` | what the ledger promises; `postTransaction` and `reverseTransaction` statement by statement; the proof that they keep the promise |
| `Withdrawals`, `Disbursement`, `DisbursementProofs` | what a pot promises when money leaves it; money leaving one open pot, statement by statement; its theorems, among them that the second keeps the promise |
| `PayoutScheduler`, `PayoutSchedulerProofs` | the sweep over scheduled legs and recurring occurrences, with the jobs it adds; its theorems |
| `Contributions`, `ContributionsProofs` | money coming in: payments, overpayments, expiry, refunds, reversal; its theorems |
| `SumTheorems` | what the proofs need about sums over finite sets |
| `EventInbox`, `WebhookInbox` | what the inbox promises its handlers; the deliveries that implement it |
| `ConfirmedActions`, `ConfirmedActionsProofs` | dialogs, API clients, idempotency keys and one-time codes around a trigger; its theorems |
| `PotLifecycle`, `PotLifecycleProofs` | a pot's draft, terms, members, invitations, activation, and what it accepts; its theorems |
| `Sessions` | one account, its codes and tokens, and the browsers that use it |
| `ProviderClient` | token cache, throttle and reconciliation of one process |
| `PotWizard` | the create wizard and the edit form, with the server's validation |
| `EdgeProofs` | the theorems of `WebhookInbox`, `Sessions`, `ProviderClient` and `PotWizard`, a section each |
| `MC*` | constants for TLC |

How they fit together. `Disbursement`, `PayoutScheduler` and `Contributions`
take a posting as one step, which `LedgerPosting` justifies: every behaviour of
the statements, seen through the committed tables, is a behaviour of `Ledger`,
whose only step is a whole posting. `Contributions` uses `EventInbox`'s actions to
dispatch its events, and `WebhookInbox` is shown to implement `EventInbox`.
`Disbursement` and `Contributions` share `LedgerBook`. `ConfirmedActions` ends
where a trigger starts, which is `Disbursement`'s subject.

In every module each `await` between two statements on shared state is a step
boundary; two reads whose separation changes nothing are one step. Failures are
counted against a bound. Where the code leaves a window in which a promise can
break, a history variable (`windows`, or one named for it) records that a
behaviour went through it; a property then says that the promise holds unless
that exact window was hit. This makes the list of windows complete for the
instance: any other way to break the promise is a violation.

### Disbursement

One pot, whose payout mode, refund type and target date (`config`) are fixed
once it is open. A leg is identified by its reference, and every per-leg variable is
a function on `Refs`.

| Actions | Code |
| --- | --- |
| `postFixedAmountDisbursement`, over the offers `triggerPayout`, `triggerRefund`, `tryFire`, `fireDueRecurringPayouts` | the checks before the lock |
| `distributeExactly`, `nextFiring`, `narrowToFeeCoveredLegs` | the split of a balance among legs, without the legs that do not clear their fee |
| `postContributorsRefund` | the checks of a fan-out refund |
| `claimLock` | `UPDATE pots ... WHERE pending_operation IS NULL` and, for a fan-out, the re-read of the balance and the rescaling |
| `enqueue`, `dropLeg` | the loop that adds a job per leg, or releases a leg left with nothing |
| `startJob`, `checkBalance`, `checkExisting`, `post`, `call*`, `complete`, `reverse`, `releaseLock`, `clearLock`, `apply` | `transfersWorker` and `processLedgerDisbursement`, in order; `pc` is the next statement and `end` how the processor will end |
| `dbFailure`, `workerCrash`, `retryFailedJob` | a failing statement, a stalled job, the operator's retry |
| `resolveRead`, `resolveLedger`, `resolveApply`, `resolveRelease` | `resolvePendingTransfer`, in order |
| `confirmFunding`, `reverseFundingCheck`, `reverseFundingPost` | `contributions.service.ts`: the posting, and the reversal with the gap between its check and its posting |
| `closeCheck`, `closeUpdate` | `close` |
| `settle`, `Notify`, `Fresh` | the provider (external) |

`Withdrawals` is the promise: an operation starts when none is in flight; each of
its legs is declined, or withdrawn once if the pot covers it, and a withdrawn leg is
paid or given back; then it gives up its share of the lock. `ImplementsWithdrawals` maps the
tables to it: a leg's state from its transaction and the provider's record (`Outcome`;
"lost" if the two disagree, which `Withdrawals` does not have), its cost from the job's
data, and the operation in flight is the legs that hold a share (`Holding`). The steps of
callers and workers between the statements that count are stutters.

`end` tells the branches of the code apart: `definitive` is the failure status
handled inside the try block, whose own failing statements reach the catch block;
`unrecoverable` and `throw` are handled in the catch block or before the try
block, and a statement failing there ends the attempt.

Abstractions. The amounts are kobo, with the code's fees. Contributions are all
of `IntendedAmount`, and each is one leg of a fan-out refund. Time is absent:
a due date may have come whenever a sweep runs. `applied` counts what
`applyOnSuccess` did to the config instead of holding its columns.
`pendingOperationTransactionId` is written and never read, and is left out. The
throttle's refusal only delays a job and is no step (`ProviderClient` has it). A
retry by the operator gets 3 attempts where the first run had 5; `Attempts`
stands for both.

About the provider the model assumes: it answers a transfer at once (success or
refusal) or accepts it (`PENDING_BILLING`) and settles it later; it sends a
webhook for what executed or failed later, and perhaps for an immediate refusal;
it attempts a `merchantTxRef` again only if the first attempt failed, and
otherwise answers with what became of it.

### LedgerPosting

Each caller makes one call. `refOwner` is the uncommitted unique index entry of a
reference, `rowOwner` the locked or uncommitted balance row of an account, and
`writes` what the caller wrote and nobody else sees. `commit` publishes all of
it at once; `crash` and every thrown error drop it. A SELECT ... FOR UPDATE of a
missing row locks nothing, as PostgreSQL has it. The account id order is that of
the integers standing for the ids.

### PayoutScheduler

`sweepStep` is one run of the cron job, in three statements: `readDue` (the legs
of an unordered pot that are due, or the next of an ordered or recurring one),
`readBalance` (with `admitted`, which reserves what earlier legs need) and
`claimLock`, then one `enqueue` per leg. A leg's number is its `sequenceOrder`, so a
set of legs stands for the sorted list the code loops over, and `admitted` is the
set that the loop ends with: a leg is in it exactly when the balance, less what the
admitted legs before it need, covers it. A job posts, transfers, completes (which
releases the lock) and only then applies `onSuccess`, which marks the leg; a
webhook does the last two for a transfer that was accepted. `rivalClaims` and
`rivalEnds` are an admin's payout or refund on the same pot. An occurrence of a
recurring payout is a leg whose date is its number of intervals.

### Contributions

One contribution and the payments into its virtual account. `confirmFunding` to
`refundOverpayment` are the statements of the handler of a payment; `selectExpired`
to `finishSweep` those of the expiry sweep, `startRefund` to `reverseRefund` those of
`processContributionRefund`, and `reverseFunding`, `reverseContribution`,
`markReversed` those of a reversal. The books are those of `LedgerBook`, with the
suspense account the refunds are posted against. A refund is reversed under a
reference of its own (`reversals`), so that a job that is retried after its
reversal may find its transaction 'reversed' and send the money again, but never
reverses it twice. `windows` has one name for each
gap the code leaves: `sweep` and `payments` for a claim or another payment between
a handler's read and its write, `rollback`, `uncounted` and `interrupted` for
what stops half-way (the comments at their actions say which).

### WebhookInbox and EventInbox

A delivery goes through `checkStore` (Redis), `readRow`, `insertRow`, `claimRow`,
`dispatch`, `markProcessed` or `releaseClaim`, and `addToStore`, statement by
statement. The provider may give up waiting and deliver again while the first
delivery is still at work; a process may die anywhere. `EventInbox` has three
states per event: new, claimed, processed.

### ConfirmedActions

`client` is who sends: the web page, whose dialog (`modal`) makes a fresh key for
every request, or a client of the API that picks its keys. A request inserts its
key (`insertKey`), reads and checks the code (`verify`, `countAttempt`, `consume`),
triggers, and records its completion (`complete`) or deletes the key (`deleteKey`).
Answers may be lost, statements fail and the process die. `done` records what was
carried out and whether it was a retry under the consuming key (`retried`) or had
read the code before it was consumed (`raced`).

### PotLifecycle

A request is a record in `req`: the reads and checks of a handler are its first
step, each write that others can see is another. The schemas are sets of fields
(`createPotSchema` and its four config schemas), so that a body is a set of the
fields it has. Windows: `orphan` (creation breaks off), `updates` (an update stops
half-way or overlaps another), `straddle` (a change checked before the activation
is written after it), `admins` (two requests count each other's admin),
`invitation` (an invitation and a verification cross).

### Sessions

The row of `users`, the codes of each purpose, the cookies of each browser and the
page and request of each tab. `register` may fail between the row and its code, which
`LoginForm` makes up for. A request carries the cookies of the moment it is
sent, and its answer sets or clears them when it arrives; a lost answer leaves
them. `forward` is the catch-all route with its refresh, `proxy` the check of the
cookies' presence on a page load. A token is a number, and its version that of
the user when it was issued.

### ProviderClient

Jobs to one recipient go through `reserve` (or are delayed until the window
slides) and then, like the reconciliation pass, through the shared client: a
cached token, or one request for a new token that everyone waits for
(`getAccessToken`, `tokenArrives`, `refreshFails`, `issueFails`). The pass turns the
pages of a list that grows meanwhile and compares each item with the books.

### PotWizard

A step of a page is one React commit: an event, or the lookups that have answered,
and then the sync effect of every card whose `confirmedName` changed, each run
with the form of that same render, in the order of the cards. A destination is
blank, half filled in, too short, or an account, and a name is the account it
belongs to. Amounts are typed in tenths of a kobo, with or without a trailing
point, so that `isPositiveAmount`, `toNairaAmount` and the server's schema can
differ. `serve` is the server's validation and write (create or update), and
`openEdit` reads the draft back through `potToWizardState`.

## Runs

All runs allow the system to stop (`CHECK_DEADLOCK FALSE`): the bounded references,
requests, edits and failures run out. Where everything has to come to an end, a
liveness property says so.

| Run | Question | Instance |
| --- | --- | --- |
| `DisbursementSettlement` | does the lock count exactly the unresolved legs, is one operation in flight at a time, is money that left never given back, a side effect applied once, a pot closed only when settled; do the statements keep the promise of `Withdrawals`; does every operation end and every posting settle? | 2 references, 2 contributions, four configurations over all modes, fair, no failure |
| `DisbursementFaults` | do the books balance and the pot reconcile after any one failure of any kind? | 2 references, 1 contribution, all eight failures, at most 1 |
| `LedgerPosting` | do the statements implement the atomic ledger, and does every call return? | 5 callers: two deposits, a withdrawal that may find no money, two reversals of one deposit; two accounts without rows; deaths anywhere |
| `Contributions` | is every payment credited or sent back, once? | 2 payments of 12000 or 40000 kobo towards 18000 and its fees, three kinds of payload, 7 failures, at most 1 |
| `WebhookInbox` | is every event handled once and in the end? | 2 events, 3 deliveries under way, 3 failures |
| `PayoutScheduler` | is every leg paid once and in the end? | 3 legs on two days, three modes, balances that cover one, two or all legs, 1 operation of an admin, 1 failure, 4 jobs |
| `PotLifecycle` | does a pot stay administered, configured and, once open, unchanged? | 2 people, 2 requests at a time, two modes, complete and incomplete configs, 1 contribution, one kind of window per behaviour |
| `ConfirmedActions` | is what is carried out what was confirmed, once? | 2 requests at a time and 3 in all, 2 keys, two payouts and a contribution, 2 codes, 1 fault |
| `Sessions` | is a refresh token exchanged once, does a reset end sessions, does a dead one reach `/login`? | 2 tabs in one browser or two, 1 code of each purpose, 1 mishap, fair |
| `ProviderClient` | does everything end well, and is a matched batch right? | 2 jobs under a cap of 1, a pass of 2 pages, 1 outage, fair |
| `PotWizard` | is what is sent confirmed, and what is saved what was shown? | 2 accounts, 2 legs, 5 edits on the new page, 2 on the edit page, 4 stored drafts, 1 request; amounts of 0, a tenth of a kobo, the fee, a tenth of a kobo more, and 6 kobo with a trailing point |

Bounds. Two contributions of 20000 kobo make a fan-out of two legs, and two
references two competing payouts, or a fan-out of one leg next to a payout. With
three references and symmetry the safety half of `DisbursementSettlement` passes
too (a fan-out of two next to a payout, or three payouts in a row); with fairness
it takes too long for a routine run. A payout of 9000 leaves a balance of 6000 out of
one contribution, so that a later fan-out has legs that cannot pay their fee
of 5000. `Attempts = 2` has a first attempt, a retry and an exhausted job; the
code's 5 adds more of the same retry. In `Contributions` 20000 are asked for, so that
one payment of 12000 is too little, two are 4000 too much and one of 40000 is far
too much; the pot's other funds of 15000 are what a wrong refund would take. In
`PayoutScheduler` the amounts are 30, 20 and 10 with a fee of 5: a balance of 40
pays the first leg only, or the two smaller ones of an unordered pot. Three
deliveries are the one at work, the redelivery that overlaps it and one that
comes later. `PotLifecycle` bounds the kinds of window per behaviour because each
is shown to be one; two at once add no new kind. `MaxEdits` allows a leg to be
added, filled in and removed. References, payments, requests and keys are
interchangeable where a run declares them symmetric; runs with liveness
properties use no symmetry.

Fairness, always weak. `Disbursement`: a caller that claimed the lock runs on,
workers take waiting jobs and webhooks that were sent are handled (both BullMQ and
the provider redeliver), and the provider settles what it accepted.
`LedgerPosting`: a connection that waits for no lock runs on. `WebhookInbox`: a
delivery that is under way runs on, and the provider redelivers what was not
answered. `PayoutScheduler`: the cron job runs every day, jobs are taken, webhooks
arrive and an admin's operation ends. `Sessions`: requests under way finish and an
open page keeps asking (the pages poll). `ProviderClient`: jobs and the pass run on,
a token request is answered one way or the other, and minutes pass. New requests,
edits, failures, contributions and closes are never forced.

### Disagreements between the code and its own text

`TimeoutFreesLock` checks what a comment states, and TLC finds a behaviour of the
code that violates it: the retry after a timeout finds the pot short of what its
own first attempt took and frees the lock of a transfer in flight.

The same model shows further ones when the instance of `TimeoutFreesLock`
(`ManualAdmin`, 2 references, 2 contributions) is given other failures or another
property; `FairSpec` for the temporal ones:

| Change of the instance | Property | What happens |
| --- | --- | --- |
| faults {overtake}, 3 references | `OneOperationInFlight` | the webhook of a synchronous success is handled before the worker's `markCompleted`; both release, and the later release is that of the next operation (`pots.service.ts:1107`; `docs/system-rules.md:12` calls two racing operations "the classic double-spend bug") |
| faults {db} | `ReversedNeverExecuted` | every error that is not a `NombaApiError` counts as not executed (`worker.ts:214`), so a database error after a successful transfer reverses it, where the comment says "confirm not-executed before reversing" |
| faults {lookup}, at most 2 | `LockReleased` | `lookupBankAccount` is outside the try block (`worker.ts:141`): failing on every attempt it leaves the lock held, where `worker.ts:225` says "just release the lock" |
| `TargetDatePot`, no faults | `FiredTargetDateCloses` | a target date payout settled by webhook applies `onSuccess` before the lock is released (`pots.service.ts:700`), and `applyFired` closes the pot only without a lock; `target-based-payout.service.ts:52`: "fires once then closes the pot" |
| no faults | `ClosesOnlyAtZero` | a contribution lands between `close`'s check and its update (`pots.service.ts:527`); `db/schema/pots.ts:9`: "only reachable at zero balance" |
| faults {timeout} | `ReversedNeverExecuted` | the timed out transfer failed and was reversed by its webhook; the retry finds the row 'reversed', which `worker.ts:137` does not stop, and sends it again without a posting |
| faults {timeout} | `ProcessingResolved` | a call that never reached the provider stays 'processing': reconciliation only records, though `worker.ts:236` counts on it |
| faults {reserve} | `OneOperationInFlight` | the throttle fails, the lock is released and the job retried without it; the comment at `worker.ts:360` still assumes a single attempt |
| faults {operator} | `OneOperationInFlight` | a retried failed job runs without claiming the lock (`failed-job-tracker.ts:40`) |
| faults {enqueue} | `LockReleased` | a job that cannot be added leaves the lock held, and no sweep can retry (`pots.service.ts:798`) |
| `LedgerPosting`'s own instance | `RacingIsNoError` | two first postings on an account without a balance row have nothing to lock: the loser fails on the winner's insert (`ledger.service.ts:95`; line 61 says "serializes concurrent postings against the same account") |

Two of these rest on more than the code: the resent transfer on the provider
attempting a failed `merchantTxRef` again, and the overtaking webhook on its
arriving before the worker has written what the response said.

The windows of the other modules are disagreements too; dropping the exception
from the property gives the behaviour. The main ones:

| Property | Exception | What happens |
| --- | --- | --- |
| `CreditedOrRefundedOutsideWindows` | `windows = {}` | the UPDATE to 'funded' is unconditional: a contribution the sweep has claimed is credited and refunded, where `expiry.service.ts` calls its claim atomic |
| `ExcessRefundedOnce` | `payments` | two payments handled together both see the whole excess and both send it back |
| `FullyPaidIsCredited` | `uncounted` | a handler that fails after it recorded the payment is never resumed: the redelivery takes the unique violation for "already accounted for" |
| `AnsweredIsHandled` | `Lost` | the delivery that loses the insert or claim race answers 200 though the winner fails; a claim held by a process that died is never cleared |
| `LegPaidOnce` | `overlap` | the lock is released before the leg is marked, and the claim does not look at the leg again |
| `KeepsAnAdmin` | `admins` | two admins demote or remove each other, or leave, at once |
| `PaysByItsMode` | `updates` | an update deletes the configuration before the new one is verified; a draft that lost its configuration cannot be opened in the edit page, which waits for ever since `potToWizardState` throws |
| `OncePerKey` | `unrecorded` | the update to 'completed' is inside the try block: if it fails the key is deleted and a retry acts again |
| `ExecutedAsConfirmed` | `retried` | a retry under the key that consumed a code is not compared with the code's context |
| `ForcedToLogInAgain` | `crossed` | a login code asked for before a reset still opens a session after it |
| `SubmittedWasConfirmed` | `kept` | opening a draft with two legs, both cards reset their leg's name with the legs of the same render and the last one wins: the first leg keeps a name its card does not have, an edit before its lookup answers does not clear it, and an account nobody confirmed passes `isConfigStepValid`. `wizard-types.ts:6` says the field "mirrors useBankAccountLookup's own return value" |
| `PageAgreesWithServer` | the amounts it names | "500." and "0.001" pass `isPositiveAmount` and are sent as "0.00" (`wizard-helpers.ts:31`: "never expected to fire") or dropped; a target amount at or below the fee passes next to a date and is refused by the server; so is one above the fee by less than a kobo ("50.001"), which `isValidTargetAmount` accepts, though `wizard-helpers.ts:20` says it "Mirrors the backend's own targetBasedPayoutConfigSchema refine", and which `toNairaAmount` cuts to the fee. The run did not have such an amount until the proof stopped at it |

Met while modelling, and in no run: `pot-to-wizard-state.ts` pre-fills names so
that "re-opening doesn't demand re-verifying", and the cards' first effect resets
them; two lookups that answer in one render lose one of the names; the edit form
cannot clear a limit or the description; `createPot` has no idempotency key, so
that a lost answer and a second try make two drafts; the system accounts' unique
constraint includes a NULL owner and does not keep them unique
(`accounts.service.ts:17`); `narrowToFeeCoveredLegs` returns nothing when no leg clears
its fee in the first split, where its comment says "an empty array if no leg can clear
its own fee even alone" (`pots.service.ts:853`): three equal contributors of a balance of 12000
kobo are all dropped, though one leg alone would clear the fee of 5000; what dropped legs
leave goes to the largest leg only, not pro rata; `runForWindow` says "[dateFrom, dateTo)" and
compares with `lte`; the throttle counts the time of the reservation and
`refundOverpayment` does not go through it; the awaiting-payment dialog keeps polling
after it was dismissed.

## Proofs

For every set of references, configuration, amount, number of contributions and
combination of failures, `DisbursementProofs` proves from `ConstantsAssumption`:

* `TypeCorrect`: types, hence no negative leg or counter;
* `BooksAlwaysBalance`: the books balance and no account goes negative;
* `PostedFirst`: no transfer reaches the provider before its posting (`PostedBeforeSent`, in no run);
* `ReversedOnlyIfRefused`: if no failure hides the outcome of a call (timeout,
  crash, database, operator), what was reversed was refused;
* `LegsBalanced`: every list of legs has equal debits and credits, whatever the
  amount.

The invariant is `TypeOK /\ ReversingFunded /\ SettlesOnlyPosted /\ FeesReconcile
/\ BooksBalance`. `BooksBalance` alone is not inductive: reversing a
disbursement subtracts fees from `platform_revenue` and `nomba_clearing`, and
nothing in it says they are there. `FeesReconcile` does, by counting one fee per
standing contribution and per disbursement posted and not reversed; it needs
`SettlesOnlyPosted`, that only posted references are reversed, and
`ReversingFunded`, that a payment reversal has a contribution to reverse.
`ReversedOnlyIfRefused` rests on `CalledOnce`: without those failures a job runs
only for a reference that has no row, so that its transfer is called once.

`LedgerPostingProofs` proves from `PostingAssumption`, for any callers, accounts,
transactions, missing rows and deaths:

* `Refinement`: `Spec => L!Spec`, the statements implement the atomic ledger;
* `NeverNegative` and `ReversalAtomic`.

The argument: `RefOwned` (an inserted reference belongs to one caller and is not
committed), `Progressing` (who applies entries has inserted; who reaches the
commit without having inserted found the reference committed) and `WritesCurrent`
(what a caller wrote equals the committed balance plus its entry, and it still
holds the row). So a commit that inserted is `Ledger`'s posting, a commit that
did not changes nothing, by `ReversedIffPosted`, and no other step touches the
committed tables. `NoRowNoBalance` covers the accounts without a row: the
balance 0 a first posting starts from is the right one.

`EdgeProofs` proves of `WebhookInbox`, for any events, deliveries under way and failures:

* `InboxRefinement`: `Spec => I!Spec`, the deliveries implement the abstract inbox;
* `AnsweredTruly`: what was answered as handled was handled, is being handled, or is
  one of the events in `Lost`.

The first rests on `ClaimOwned`: one delivery at a time is between an event's claim
and its end, the row is then claimed and not processed, and a processed row is a
claimed one; so a claim starts from "new", and a release or `markProcessed` from
"claimed". The second needs to know why a delivery may answer 200: `AnswersAccounted`
says that the effect is there, the claim is stranded, or the event was left to another
delivery, and `RowsAccounted` follows that other delivery: it still has the row, has
done its work, or has failed. `RanOnce` ties the count of effects to the claim's
progress, `Carrying` says that a delivery under way has an event.

### Further theorems

Of `Disbursement`, from `ConstantsAssumption`:

* `PotAlwaysReconciles`: the pot holds its contributions less every standing
  disbursement and its fee, whatever fails;
* `AppliedOnce`: a side effect is applied once per executed transfer, if no failure
  makes a job run again after its call (`RestartsClean`: lookup, enqueue and
  reserve may fail);
* `OneAtATime` and `ClosedSettled`: one operation is in flight, and a pot closes
  only when settled, if lookups or enqueuing fail (`KeepsLock`);
* `PromisesKept`: `Spec => ImplementsWithdrawals` under the same failures (`KeepsLock`);
* `LockAccurate`: without failures the lock counts exactly the unresolved legs;
* `RefundIsExact`: the split of a contributors' refund leaves no kobo behind. For any
  truncated shares that add up to no more than the pool, the legs that fire and
  their fees add up to exactly the pool, or no leg fires; a leg gets something if
  and only if it fires; and the second round drops no further leg, so that the
  model's two rounds are the whole loop of `narrowToFeeCoveredLegs`. `ProRataShares`
  shows that the pro-rata shares of contributions of any size, one leg each, are
  such shares.

The hypotheses on `Faults` are needed. With three references TLC finds
`OneOperationInFlight` violated under each single kind that `KeepsLock` excludes, and
`AppliedOncePerTransfer` under overtake, timeout, crash and db; under operator alone it
found no violation within the time given, and the theorem leaves that kind out because a
job retried by hand runs again after its call. With two references a single failure of any
kind that `KeepsLock` excludes breaks `ImplementsWithdrawals`: the promise ends there. A failed lookup or enqueue leaves a
lock that counts too many, hence `LockAccurate` without failures. The argument goes by
`Phases`: where a worker and a webhook handler stand determines what has happened
to the transaction, so that one job and at most one handler ever settle a leg.
`LockCovers` then follows the shares: the counter is at least the number of legs
that hold one, a leg about to clear the lock is alone and the count is 0, and who
releases does not run again. `LegsTogether` says that the legs of a fan-out know each
other, so that a claim while the lock is free starts an operation with no other leg.
For the pot, `EnqueuedFirst` says that a posting is of the amount the leg was
claimed with. The refinement takes them all (`Promised`) and adds `ReversedMarked`, that a row
reads 'reversed' exactly if its reversal is posted, so that a reversal gives the money back
once; each statement is then one step of `Withdrawals` (`OneLegMoves`, `LegsDeclined`,
`OperationStarts`, `PotMoves`) or a stutter (`NothingMoves`): a claim is a start because a free
lock means that nobody holds a share, a completion pays and a reversal gives back because
the phases know what the provider has recorded by then.

Of `Contributions`, from `FundingAssumption`, with any payments, amounts and
failures: `BooksAlwaysReconcile`, `FullyPaid`, `ExcessOnce`, `CreditedOrRefundedOnly`.
`Accounted` is the whole balance sheet as sums over the standing transactions;
`HandlersHoldClaims`, `RecordedOnce` and `RefundsInOrder` say that a payment has one
handler at a time, is recorded by one and posts its excess once, and that a
refund's posting precedes its call. `ExcessCovered` adds to the excesses posted
those that handlers have still to post, and measures them against the payments
already counted; `Decided` ties the status to which of credit and refund was chosen,
as long as no window was hit.

Of `PayoutScheduler`, from `SchedulerAssumption`, with any legs, dates, amounts and
balances: `LegsPaidOnce`, `AdmittedAlwaysCovered`, `LockAlwaysCounts`, and `AdmittedFits`:
what `admitted` chooses exists and adds up to no more than the balance. `LockCounts`
is the lock's accounting, from which `OneSweep` follows: outside the windows the
payouts under way are those of one sweep, of different legs that have not fired.
`PaidFires` says that what was paid has fired or is about to, `NextOccurrence`
the same of recurring payouts, where firing moves the next date, and `Covered`
that the balance covers the legs admitted and not yet posted; `Numbered` keeps
two jobs of a leg apart.

Of `ConfirmedActions`, with any requests, keys, codes and faults: `AsConfirmed`,
`KeyCarriedOutOnce`, `CodeConfirmsOnce`, `IntentCarriedOutOnce`. `KeyOwned`: a key in
progress has one request; `KeySpent`: what was carried out under it keeps its row, so
nobody gets to the trigger with it again; `CodesChecked` carries the comparison made
at `verify` to the execution; `FirstOnce`: of the requests that did not race or
retry, one consumes the code; `OneAtATime`: what a dialog carried out has closed it or
is still to be answered.

Of `PotLifecycle`, from `LifecycleAssumption`, with any people, requests and
configurations: `AlwaysAnAdmin`, `AlwaysPaysByItsMode`, `InvitationsAlwaysResolve` and the action
property `TermsStayFrozen`. `CreatedAlone` says that nobody acts on a pot being
created; `AdminLeft` that at most one request is about to take an admin away and
leaves another; `ConfigFits` and `RowsByMode` follow a change of mode through its three
writes; `JoinedOnce` follows an invitation to the one request that verified its
e-mail; `NoneDrafting` says that who saw the pot in draft is done when it opens.

Of `ProviderClient`, from `ProviderClientAssumption`: `MatchedBatchAgrees`. However long the
list Nomba keeps, however it grows while its pages are turned, whatever is posted
meanwhile and whichever requests fail, a batch is matched only if every transaction
read agrees with the books and nothing expected is missing from what was read. The invariant of the pass is `ReadToCursor` (what was
seen is what stands before the cursor: the list only grows at its end), `Classified`
(each of those has a line item, which says "matched" only of an agreement; books only
grow, so that it stays one), `MissingListed` and `Verdict`.

Of `Sessions`, from `SessionsAssumption`, for any browsers, tabs, numbers of codes and
mishaps: `RotatedOnce` and `ResetForcesLogin`. `TokensFit` says that the token on file
has not been exchanged and that none was twice. It holds because an issued token is a
new one: `Fresh` takes a number nobody holds, which exists because finitely many
browsers and tabs hold finitely many (the one place where the assumption that they are
finite is used). `ForcedToLogInAgain` needs to know under which password a session to
come was asked for: `CodesFit` says it of the codes that can still be used, `TabsFit`
of the tabs between a code and its tokens, both until a reset has met a login.

Of `PotWizard`, from `WizardAssumption`, for any accounts, legs, dates, amounts, edits and
stored drafts: `DestinationsConfirmed`, `PageAndServerAgree` and `ReadInOrder`. A commit
runs a chain of effects, and the lemmas follow it: `Prepared` is what the event
leaves (every name in the form is that of its own account, was confirmed, is one that
was `kept`, or is about to be reset by its card), and each effect keeps that for the
cards it has passed. `FormFits` and `CardsFit` are what holds again after the last.
`MadeFrom` ties a request to the form it was made from, `SavedAsShown` the draft on the
server to it; the agreement of page and server then is arithmetic, that of a form
`isConfigStepValid` accepts with `wireValid` on what `buildPayoutConfig` makes of it.
`ReadInOrder`: sorting numbered legs by `sequenceOrder`, as `potToWizardState` does, is
the identity. `WizardAssumption` says that the drafts found in the database are drafts
(numbered legs, and a configuration of the pot's mode or none), that what is typed is a
number, and that "error" and the like are not account names.

`SumTheorems`. The library's sums are recursive over finite sets, and the induction
rules that would unfold them take an operator the provers cannot instantiate. The
facts used here (`SumRemove`, `SumSubset`, `SumScaled` and those next to them) are proved by a
minimal counterexample instead: strict inclusion is well founded on finite
subsets, so a set that violates the fact has a smallest one, which taking away one
element contradicts.

### Only model-checked

Liveness, fairness and ENABLED are out of the prover's reach: that every operation
ends and every posting settles (`Disbursement`), that calls return (`LedgerPosting`),
events are handled (`WebhookInbox`), legs are paid (`PayoutScheduler`), work ends
(`ProviderClient`) and a dead session reaches the login page (`Sessions`) is checked on
the instances only. The same goes for the violation `TimeoutFreesLock` shows. Every
other property of the runs is stated by a theorem.

## Not modelled

Mail, bank lists, profiles, health checks, response shaping, the landing pages,
lists and the UI kit hold no state worth checking. Hashing, signing and signature
checks are taken to work. Registration of cron jobs is I/O with the queue; a sweep
is something that may happen. The `failed_jobs` table and an operator's "ignore" are
left out, and so is `IndeterminateFailureError`, which nothing throws. Get-or-create
of accounts is left out: every model takes the accounts as created. Two jobs with
the same reference running at once (a stalled worker that is still alive, or two
operators retrying the same failed job) are left out: a reference has one job.
Contributions of a fan-out refund are of equal size in the runs and in `Spec`;
`RefundIsExact` is about legs of any size.

## Plan

Done: a module for every part that keeps state, and proofs of the safety properties
of all of them. Left, in order:

1. `Accounts`: get-or-create under concurrency;
2. unequal contributions in `Disbursement` itself, and a leg per payment (the
   fractions of `postContributorsRefund` with unlike denominators).
