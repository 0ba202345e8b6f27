# Resilience Brothers P2P: verification development

The repository is a remittance and marketplace platform: a FastAPI server over
MongoDB (`src/backend`), with a React client (`src/frontend`). Clients hold
balances in several currencies; they buy, withdraw in cash or by bank, redeem
products; couriers carry the cash and the products; companies keep funds, cash
boxes and shelves with the platform.

MongoDB is used without multi-document transactions. Every operation that
touches two documents is therefore a protocol of single-document updates: the
first update publishes an intention in one document, the money moves in another
under an `op_id`, a last update clears the intention, and a healer started every
two minutes completes what a dead request left. The comments of the code number
the races each guard closes (S01, R02, D11, DR05, ...). Those protocols are what
a test hardly reaches and what this development is about. The client is the
other end of them: its requests time out, are retried and overtake one another,
so what it remembers between two requests (the `op_id` of an intention, the
generation of a session) is part of the protocol.

## Inventory

Each entry: the state, the operations, how it interacts, what is hard, what
makes it correct. The names in brackets are the modules that model it.

**Exactly-once balance operations** (`services/balances.py`) [CreditOps,
OpLedger]. State: `users` (balance per currency and the embedded registry
`applied_credit_ops`, updated together), `credit_ops` (the durable log, one row
per `op_id`). Operations: `credit_balance_idempotent`,
`debit_balance_idempotent`, `burn_or_undo_debit`, `op_was_applied`, the
compaction of the registry, repayment plans. Every flow with money calls them.
Hard: crash between the two documents, late executors of an aborted debit, two
recoverers at once, an upsert whose query and insert are not one step. Correct:
each operation moves its money at most once; only a charged debit is given
back; a decision about a debit is final; the log never claims money that did
not move.

**Withdrawals** (`routes/orders.py`, `routes/admin_withdrawals.py`,
`services/courier_fee.py`, `services/credit_markers.py`,
`services/credit_recovery.py`) [Withdrawals]. State: the document of
`withdrawals` with its `status`, `balance_refunded`, courier fee and four
intentions (`init_op_id`, `credit_pending`, `redebit_pending`,
`courier_fee_op_pending`). Operations: creation, the client's cancellation, the
staff's transitions into, out of and around `rejected`, payment from a
delivery, fee changes, and the healer's passes. Hard: any two of them overlap,
each can die between two updates, and the healer takes over what only looks
dead. Correct: the client pays exactly what the withdrawal is worth while it
lives and nothing otherwise; a refund is never dropped or doubled; every
intention is resolved.

**Deliveries and cancel intents** (`services/deliveries.py`,
`routes/deliveries.py`) [CancelIntent]. State: the job in `deliveries`: status,
`active_key` (unique while not cancelled), `origin_cancel_intent`,
`needs_origin_check`, `settlement_pending`, `origin_conflict`. Operations: the
courier's accept, travel and seal, the dispatcher's cancellation, publication
and synchronisation of the fee, confirmation and settlement, reservation of a
job by a refund. It calls and is called by the withdrawals. Hard: a refund and a
handover are decided in different documents. Correct: a refund protects the
delivery it reserved; an abandoned reservation is let go; what was handed over
in spite of a refund is flagged.

**Redemptions** (`routes/orders.py`, `routes/market.py`). State: `redemptions`,
the stock of the product, a store's shelf, sale traces. One attempt has three
effects, each with its own `op_id` and undo. Hard: partial failure, healer
against creator. Correct: all three effects or none; a rejected sale leaves no
inflow in the company's fund.

**Stock operations and the point of sale** (`services/inventory.py`,
`routes/pos.py`). State: stock, `applied_stock_ops`, `effect_seq` and
`effect_seq_log` in `products`; `stock_ops`; `inventory_movements`;
`pos_cobros` with owner and lease. Hard: the order of effects has to survive
repairs; a cobro is stolen by lease age. Correct: stock equals the sum of the
applied movements; a committed cobro is never reversed.

**Physical counts** (`services/inventory_ipv.py`). State: versioned
`inventory_counts`. Hard: a recount during an authorisation. Correct: an
adjustment is applied once and for the version that was authorised.

**Deposits** (`routes/deposits.py`). State: `deposits`,
`crypto_evidence_claims` with a unique key, a generation counter. Hard: an
evidence is moved while an older confirmation is running. Correct: one payment
credits one deposit, and a confirmed deposit agrees with its live claim.

**Conversions** (`routes/orders.py`, `services/conversions.py`, and in the
client `BalanceConverterCard.jsx`, `DustSweepDialog.jsx`,
`useConverterData.js`) [Conversions]. State: the rows of `conversions` with
their `status`; in `users` the balances, `recent_conversion_ids` and
`cancelled_conversion_markers`; in the browser the form and `opIdRef`.
Operations: the conversion of one currency, the preview and the sweep of small
balances, the healer of rows left in `applying`, the compaction of markers and
the pruning of tombstones; filling, editing, closing and reloading the form.
Hard: the healer buries the marker of an executor that is only slow; an answer
is lost and the user retries, edits or reloads. Correct: rows and receipts tell
the truth for ever, one identity moves once, the applied rows explain the
balances, every row settles.

**The session of a browser tab** (`AuthContext.jsx`, `authGuard.js`,
`AuthCallback.jsx`, `OnboardingDialog.jsx`, `App.js`; `routes/auth.py`,
`auth_utils.py`) [AuthSession]. State: the user, the status, `loading` and the
generation of the provider; the cookie jar; `user_sessions`. Operations: the
check with its retries, sign-in with its confirmation, both logouts, the OAuth
callback, the patch of the onboarding dialog, expiry and revocation. Hard: the
async functions interleave at every await. Correct: an overtaken answer changes
nothing, an outage never drops an identity, the page always settles.

**Company funds and the spending turn** (`services/company_fund_budget.py`,
`routes/admin_company_funds.py`, `routes/company_fund_accounts.py`, and the
forms of `pages/admin/company-funds`) [SpendLock]. State:
`company_fund_budgets` (reserved amount, lock, authority), `company_withdrawals`
with their fences, `fund_account_transfers`. Operations: creation, payment,
approval and rejection of company withdrawals, transfers, the healing and the
resynchronisation of the reservation. Hard: a lock stolen from a slow owner.
Correct: two payments never lean on the same balance.

**Courier cash** (`services/courier_cash.py`, `CourierCashTab.jsx`)
[SpendLock]. State: one document of `fund_account_transfers` per operation key,
revived by each retry; then a mirror and a ledger event. Hard: retries that
overlap.

**Company deliveries and shelves** (`routes/company.py`,
`services/company_inventory.py`, `services/company_delivery_recovery.py`),
**VIP batches** (`services/vip_batch_ops.py`), **cash boxes**
(`services/cash_box_sync.py`), **reconciliation**
(`services/reconciliation_matcher.py`): variations of the same protocols. An
activation of a delivery request races its recovery with the courier's job
already published; a cash movement and the arqueo it invalidates are two writes;
the writer and the healer of an upload plan decide once between releasing its
places and completing it.

**The scheduler** (`scheduler.py`) starts `run_credit_recovery` every 120
seconds, and `run_cash_box_sync` with the resynchronisation of the budgets.
Identity checks, bookings, notifications and reports keep no state shared
between documents and are left aside, as are the other pages of the web client,
which show what the API answers.

## Modules

| module | what it is |
|---|---|
| `OpLedger` | what balances.py promises: abstract operations, each applied once, sealed or given back |
| `CreditOps` | the helpers of balances.py, one database call per action; implements `OpLedger` |
| `CreditOps_proofs` | its invariants and the refinement, proved |
| `Withdrawals` | one withdrawal and the client's money, over balance operations seen at the steps that matter to it; its `op_id`s implement `OpLedger` |
| `Withdrawals_proofs` | its invariants, what the client is charged and the refinement, proved |
| `CancelIntent` | one withdrawal and its deliveries: reservation, seal, publication |
| `CancelIntent_proofs` | its invariants, proved |
| `Conversions` | the converter from the browser's form to the last database call, with its healer |
| `Conversions_proofs` | its invariants, proved |
| `AuthSession` | the identity shown by one browser tab, the cookie jar and the session rows |
| `AuthSession_proofs` | its type correctness and its action properties, proved |
| `SpendLock` | one currency's spending turn and the requests that spend under it |
| `SpendLock_proofs` | what it keeps of the fund, the account and the confirmed transfers, proved |
| `Reservation_proofs` | its types and the sums of the reservation, proved |
| `Sums` | finite sums: that the community modules' fold over a set is a sum, proved |
| `MC*` | model values, amounts and symmetry for TLC |

A definition named after another one with a suffix (`CreditApplyUnfiltered`,
`PlainClaimBlind`) is a mistake the code avoids. No other definition uses it; it
is there to see which property notices.

### CreditOps

`balance` and `registry` are the user's document, `log` is `credit_ops`, `task`
says for each running request which call it makes next and on which operation.
An action is one call: `EnsureFind`, `EnsureInsert`, `EnsureReread` for
`_ops_log_ensure`, `CreditApply` and `DebitApply` for the conditional update of
the user, `DebitRelease` for the deletion of a pending row, `BurnRead`,
`BurnClaim`, `BurnUpsert`, `BurnToken`, `BurnEvidence`, `SealUndone` for the
iterations of `burn_or_undo_debit`, whose give-back runs the credit inside. The
upsert of the claim is two actions, since its query and its insert are not
atomic. `BurnClaimRaised` is an exception of the driver in either of them, with
the write made or not: the loop takes it for the duplicate key and spends an
iteration (`balances.py:473`). The insert of `_ops_log_ensure` swallows its
exceptions too. `Die` is a crash, or an exception of the driver anywhere else,
which ends the call. `settled`, `gaveUp`, `called` and `erred` are history.

One currency is modelled, since an operation touches one. Amounts are integers;
`Tolerance` stands for the `1e-6` of the guards, in the unit of the amounts.
`OpStatus`, the refinement mapping, looks at the registry alone, which is where
the money is; `op_was_applied` also accepts a log row in `applied`, and
`LogTellsTheTruth` is what makes that sound.
`Once` are the debits that only one request executes, as in the creation flows.

### Withdrawals

`doc` is the withdrawal, `log`, `sealed` and `money` are how far each `op_id`
got in balances.py, `charged` is what the client has paid, `proc` holds for each
request what it read and what it does next. The steps of the helpers that other
processes can tell apart are kept (log, charge, outcome, burn, token,
give-back, mark); the rest is CreditOps' subject. Whether the client has enough
money is free at every charge, since his other operations move the same
balance. The healer may take over an obligation whose request is still alive:
the cutoffs of 90 and 120 seconds are meant to exclude it and cannot. A burn may
end undecided, as in `CreditOps`.

`strayed` is history: which of six things happened that the flows do not allow
for and nothing prevents. No guard reads it; the properties that fail after one
of them name it, and TLC finds an inexact charge after each one alone.

| `Stray` | what a step does |
|---|---|
| `Unseen` | the staff's second read finds the withdrawal cancelled since the first (`admin_withdrawals.py:149`) |
| `OldFee` | a reactivation debits a courier fee that has changed since it was read |
| `EarlyFee` | `set_courier_fee` changes the fee of a withdrawal still half made |
| `Reopening` | the fee changes while a reactivation is still to be debited |
| `Overtaken` | the healer takes up a re-debit or a fee plan that a slow request still carries out |
| `Undecided` | `burn_or_undo_debit` reports `burned` with nothing decided (`balances.py:496`) |

The payment from a delivery is asked for an activated withdrawal (`Delivered`):
that is what the courier's flow confirms. The administrator's own form
(`routes/deliveries.py:1818`) can publish a delivery for one still half made;
that case is left out.

### CancelIntent

`status`, `intent`, `unchecked`, `settling` and `flagged` are fields of the
deliveries, `origin` the status of the withdrawal. An attempt is a request that
cancels (`Client`) or rejects (`Staff`); its calls are those of
`reserve_origin_cancel_intent`, `commit_origin_cancel_intent`, the claim, and
`force_release_origin_cancel_intent` when the claim is lost. `Rider` is the
courier, who reads, checks the origin and writes conditionally. `Creator` and
`Syncer` publish deliveries. `Age` lets 120 seconds go by for an intent.
An attempt of the client reserves whatever the status is, as
`orders.py:1437` does; the claim decides. The exception `OriginConflict` of a
settlement, which flags the delivery, is raised only for deposits
(`deliveries.py:1027`), so `Settle` of a withdrawal does not have it.
Simplified: a closed withdrawal stays closed (reopening is in `Withdrawals`, so
a reopened withdrawal with a new delivery is not covered); one courier, so the
assignment is not modelled; the three tries of `handle_origin_rejected` are a
loop, which would need as many deliveries to change state in between; the
origin is checked again for its status and not for the revision of its fee
(`deliveries.py:827`).

### Conversions

`card` and `sweep` are the browser: the form, `opIdRef` and the request each
component awaits. `exec` holds per request the next call of its executor and its
locals; the op_id, the plan and the intention stay there as history once it is
over. `rows` is `conversions` (one row per source currency of a request),
`funds`, `markers` and `tombs` are the fields of `users`, `healer` is the
recovery loop. `Enter`, `Lookup`, `Quote`, `Record`, `Move`, `MarkFailed`,
`CheckClosed`, `MarkApplied` are the calls of `vip_convert` and
`vip_convert_dust`; `Submit`, `OnAnswer`, `OnSilence` the two halves of
`submit`; `EditCard`, `OpenCard`, `CloseCard` the effect that resets
`opIdRef`; `Reload` a new page. `HealPick` to `PrunePull` are the calls of
`heal_pending_conversions`, `compact_conversion_markers` and
`prune_conversion_tombstones`. Abstracted: an old preview is the delay between
`Submit` and `Quote`; the oldest markers are any choice of as many; the time
since `created_at` is one of three ages; the legacy USD balance, which the same
update drains first, is part of `funds`; the minimum amounts are part of the
refusals of `Quote`; a balance suffices when it is at least the amount, while
the code allows a relative difference of `1e-9` for its floats
(`sufficiency_epsilon`, `orders.py:1954`). `moved`, `told` and `drawn` are history.

### AuthSession

`user`, `status`, `loading` and `gen` are the provider's. A task is one async
function, at the await it has reached, with the generation, the attempt and the
cookie of its pending call. `ServeMe`, `ServeLogin` and `ServeLogout` are the
server's side and may answer, refuse or be lost before or after they took
effect; the cookie of an answer goes to the jar before the function resumes.
`Leave` is the page load after a logout. `GoogleReturns` is the return from
Google: the server's redirect, with the cookie set, to a fresh page
(`auth.py:316`). `OpenCallback` is the earlier way back that the code still
serves, the page that exchanges a one-time id at `/auth/session`.
Left out: StrictMode's double mount, the language that follows the user, Sentry,
and `commitSession` with a 200 that is no user.

### SpendLock

`lock` is `pay_lock`, `expired` and `quiet` are the ages of `pay_locked_at` and
`updated_at`; `current` says whose read of `updated_at` is still the one in the
document, which is what the conditional writes of the reservation compare. A
task is one request: `Acquire`, `ClearFences` and `AbortPending` are the three
calls of `acquire_pay_lock`, `PutFence` to `PayClaim` those of a payment,
`TransferReads` to `Confirm` those of a transfer or of courier cash, `Leave` the
`finally` blocks. `paid` and `moved` are what the ledgers add up to; the
aggregates over them are read in one step. A payment reads the fund
(`PayReads`) and then the account it names, if any (`PayAccount`): one that
names none, or whose attributed account holds too little, is paid `unassigned`,
from the fund alone. Requests of one courier cash key may run at once. Two
histories tell what the code means to exclude and does not: `misled`, that the
reservation was set on the word of a request that stood still, longer than the
ages of five seconds and fifteen minutes, or was given back for an insertion
that had taken effect and raised; and `crossed`, that two requests of one key
worked on its document at once. No guard reads them. Left out: several accounts,
denominations, cash that returns and transfers of unassigned money, both of
which only bring money to the account, the retry of an administrator's transfer
by its `operation_id`, the creation of the budget document, adjustments of the
working capital.

## Runs

| run | question | result |
|---|---|---|
| `ops_race` | do the helpers implement the ledger, with two tasks, a credit, a debit of one executor and a debit of several, claims that raise included? Can a burn be reopened or compensate wrongly? | they do; no |
| `wd_create` | creation, cancellation, rejection and payment with a healer that may overtake: is the client charged exactly? Does each `op_id` keep what `OpLedger` promises? | yes |
| `wd_fee` | is the client charged exactly with fee changes against cancellations, rejections and reactivations? | yes, until one of `Stray` happens |
| `wd_reopen` | the same with cancellations, rejections, payments and two reactivations; is a live withdrawal ever refunded? | yes, until one of `Stray` happens; not before `Unseen` |
| `wd_heal` | is every published intention resolved by the healer alone? | yes |
| `ci_refund` | does a refund protect the delivery it reserved, against courier, other attempts, publications and crashes? | yes |
| `cv_identity` | do rows, receipts and identities of the converter stay true, with lost answers, edits, reloads, deaths and the healer? | yes |
| `cv_sweep` | do sweeps and conversions over one snapshot keep the balances right, and does every row settle? | yes |
| `cv_discarded` | is an identity only discarded when its attempt can no longer move? | no, see findings |
| `auth_tab` | does an overtaken answer stay silent, an identity fall only for cause, the page settle? | yes |
| `spend_turn` | does the turn keep the fund and the account from being overdrawn and what is promised within the fund? | the fund, yes; the account, until two requests of a key worked on its document at once; the promises, until the reservation was misled |
| `spend_unconfirmed` | does a confirmed transfer stay confirmed when a cash key is retried while its first request runs? | no, see findings |

### Bounds

- `ops_race`: two tasks reach every pair of interleaved helpers. Over a balance
  of 3 with a tolerance of 2, the debit of 5 can only lean on it, down to -2;
  the debit of 1 leans on it again once the credit of 1 has come in, and is
  refused before. The invariants also hold with three tasks on one debit
  (27,673 states), which was checked once and which the proofs cover.
- `wd_*`: two requests and the healer on one withdrawal. Each run lets in the
  kinds of request its question is about (`Kinds`); the number of refunds,
  re-debits and fees is the number of `op_id`s, one or two, enough for a second
  cycle to meet the leftovers of the first. `wd_create`, `wd_fee` and
  `wd_reopen` take requests and `op_id`s of a kind as interchangeable
  (`Symmetry`). `wd_fee` follows a behaviour only until something strayed
  (`Unstrayed`), after which its property says nothing; `wd_reopen` goes on
  after an undecided burn (`AtMostUndecided`), which `NeverPaidAndRefunded`
  outlives.
- `cv_*`: two requests, so that a retry or a second sweep meets the first; one
  or two identities, two currencies (three for sweeps, which then write several
  rows), two rates, one change of the rate or of the defensive mode. `MarkerCap`
  and `PruneMin` are small enough for compaction and pruning to happen.
- `auth_tab`: two tasks, two users, one session token and three generations, so
  that a task can be overtaken twice and a page can be entered again.
- `spend_turn`: two requests and two withdrawals of 2 over funds of 3, one cash
  key: two payments never fit together. Three requests that pay and hand out
  cash over one withdrawal were checked once (594,574 states): the properties
  hold, and the account without its condition is overdrawn there (*Also met*).
- `ci_refund`: a client's attempt, a staff attempt, a courier request, the creation,
  a synchronisation and one delivery id.

Deadlock is not checked where the model runs out of `op_id`s or requests; the
system itself only waits for the next request there.

### Fairness

`Withdrawals!LiveSpec` assumes weak fairness of the healer's next call and
strong fairness of each pass: the scheduler starts `run_credit_recovery` every
two minutes, and each start visits every kind of intention in turn, so a pass
that can act again and again does act. Nothing is assumed of the requests, which
may stop for ever at any call. The healer may die while it compensates a
half-made withdrawal, which it later finds in another status (`failed_init`),
but not for ever: a healer that dies in every pass heals nothing. In the other
passes a dead healer starts again at the same marker; their deaths are in the
safety runs, with those of the requests.

`Conversions!FairSpec`: weak fairness of the recovery loop and of the age of a
row, and a pass is not cut short for ever. `AuthSession!FairSpec`: every request
ends in an answer or an error, timers fire, the event loop runs what was heard
and an assigned location loads. Nothing is assumed of users.

## Findings

1. `cv_discarded`. The browser discards the `op_id` after every 4xx other than
   `CONVERSION_IN_PROGRESS`. The gates of `vip_convert` come before the lookup
   of the `op_id`, and the quotation comes before the row of a slow first
   request exists; either may refuse the retry of an attempt that moved or still
   will, and the next confirmation converts a second time, against the comment
   at `BalanceConverterCard.jsx:189`.
2. `spend_unconfirmed`. A courier cash request that lost its turn aborts the
   document of its key by id alone, after a retry revived and confirmed it;
   `courier_cash.py:956` calls the aborted ones transfers that moved no money.

### Also met

These were found while modelling and have no run. Some are properties that the
modules still define; TLC violates them under suitable constants.

- The six things of `Stray` (Withdrawals). The worst two: after `Overtaken`, a
  reactivation and the healer execute one re-debit; the healer charges it and
  clears `redebit_pending`, the request had seen too little money, burns the
  debit, which gives the charge back, and its return to `rejected` no longer
  matches. The withdrawal stays live with nobody charged for it, against the
  comment at `routes/admin_withdrawals.py:295`. After `Unseen`, a cancelled and
  refunded withdrawal is live again. `OldFee`, `EarlyFee` and `Reopening` charge
  or refund a fee that is not the withdrawal's; after `Undecided` the healer
  lets go of a creation that its slow creator still charges.
- `NeverDeliveredAndRefunded` (CancelIntent): annulling the courier fee cancels
  a delivered job and frees its `active_key`; a later refund finds no delivery
  to reserve (`services/deliveries.py:718`).
- `OrphanRecoverable` (CancelIntent): a request that dies between the commit of
  its intent and the claim of the withdrawal leaves an intent that nobody may
  steal, release or heal; `tests/test_iter303_verificacion_dr2.py:287` expects
  it to be recovered.
- `PatchedInPlace` (AuthSession): the onboarding dialog restores the user of its
  render after a logout or another sign-in.
- The account of `SpendLock` is overdrawn when three requests meet, two of them
  of one cash key: the revival at `courier_cash.py:285` does not ask for the
  turn, so a former holder revives a document its successor aborted, and
  confirms it on the balance it had read. `NeverOverdrawn` and `SpendsWhatItSaw`
  speak of the account up to there (`crossed`).
- `PromisesFit` holds until `misled`: a reservation healed over the head of a
  live request is too small, against `company_fund_budget.py:83-85`, and an
  insertion that raised after it took effect (`admin_company_funds.py:1243`)
  leaves a withdrawal with its reservation given back.
- `burn_or_undo_debit` can lose its three iterations and report `burned` with
  nothing decided, against its docstring (`balances.py:430`, "decide de forma
  DURADERA"): to several executors that retry one debit, or to exceptions of the
  claim, three of which are enough even with one executor. Without them one
  executor cannot cause it, which is proved.
- A failed OAuth callback leaves the status at checking with `loading` false
  (`AuthCallback.jsx:30`); the late answer of an overtaken sign-in still stores
  its cookie.

## Proofs

`CreditOps_proofs`, for any set of tasks and operations, any positive amounts,
any opening balance and tolerance (`OpsAssumption`), exceptions of the claims
included:

- `Invariant`: `IInv` is inductive. The properties alone are not: that only a
  charged debit is compensated needs what a task knows between two calls
  (`TaskKnows`: a task in the give-back has seen the debit's id in the registry,
  a task past `burnToken` has pushed it) and the order of the two documents
  (`LogBeforeToken`: the log says burned or undone before the token is in the
  registry, so no executor that starts afterwards can charge). From it follow
  `TypeCorrect`, `GiveBackSafe`, `BurnFinality`, `LogTruth`, `OverdraftBound`.
- `BurnDecides`: a burn of a debit with one executor ends undecided only after
  one of its claims raised in the driver. `OnceInv` counts what a lost iteration
  was spent on while none has: the executor's insert, then its transition to
  applied, so the third one decides.
- `Refinement`: every step is a step of `OpLedger` or a stutter, with the
  registry as the refinement mapping: an operation is applied when its id is in
  the registry, void when its token is and the id is not, undone when the
  compensation's id is.

`CancelIntent_proofs`, for any sets of attempts, couriers, publishers and
deliveries (`CancelIntentAssumption`):

- `Invariant`: `IInv`. That a refund protects its delivery needs where a token
  can be (`TokenPlace`: only on the delivery its attempt reserved, and only
  after its write was accepted), that a won attempt is past its claim
  (`WinnersPast`), why a commit failed and a release escalates (`Reasons`), and
  where each process can be (`Places`). From it follow `TypeCorrect`,
  `Protection` and `LettingGo`.
- `MovementTold`: once the attempt that won has propagated, no delivery hides a
  movement. At most one delivery is active and at most one attempt wins; a
  withdrawal that was closed stays closed, so a courier who checks its origin
  afterwards is refused, and one whose check is older is met by the propagation
  either before its write (the conditional write then fails) or after it (the
  delivery is flagged).

`Conversions_proofs`, for any requests, op_ids, currencies, intentions, rates
and healers (`ConversionsAssumption`):

- `Invariance`: `IInv`. That rows and receipts tell the truth needs what each
  place of an executor implies about its rows and its marker (`Progress`), that
  a marker whose row is in applying is still in the registry if its money moved
  (`Evidence`, `Candidates`: a healer's candidates for removal are settled), that
  a buried marker never moved (`Truth`), what a healer's verdict rests on
  (`Verdicts`), and what an identity is bound to (`Identities`,
  `OneRowPerIdentity`, `Answers`). From it follow `RecordsHold`, `ReceiptsHold`,
  `OneMove` and `IdentitiesHold`.
- `Amounts`: `Typed` and `Explained`: a balance is the opening one and what the
  requests that moved planned to change of it, a sum over a finite set
  (`Sums`). A request moves once and its plan is fixed before, so a move adds
  one term. `Invariance` says when the requests that moved are those whose rows
  are applied, which turns the sum into the statement's (`StatementHolds`);
  `TypeCorrect` and `NoneOverdrawn` are parts of `Typed`. Requests, currencies
  and op_ids are finite sets.

`AuthSession_proofs`, for any tasks, users, sessions and number of generations
(`AuthAssumption`):

- `Invariance`: the provider is consistent, each await has the locals its next
  step relies on (`Sound`), and an overtaken check or sign-in holds an older
  generation (`Overtaken`). From it follow `Typing`, `OvertakenSilent` and
  `DroppedForCause`.

`SpendLock_proofs`, for any requests, withdrawals, keys, amounts and funds
(`SpendAssumption`), requests of one key at once included:

- `Invariance`: at most one request is past its authority check with its fence
  up, or its document pending while no two requests of a key have met on one
  (`OneAtMost`). The fund it read is still the fund, and so is the account until
  they met (`Informed`). If it lost the turn, whoever holds it has not yet
  cleared the fence or aborted the document (`Alone`, `Superseded`). A request
  without the turn can reach none of this, whatever it still writes. That nobody
  else confirms a document needs one request at work on each (`Private`,
  `Unconfirmed`), and that is what ends once `crossed`: a payment is kept by its
  own fence and does not depend on it, a transfer does. From it follow
  `Solvency` (the fund, always; the account, until `crossed`), `FreshSpending`
  and `ConfirmedForGood`, a confirmed transfer stays so until `crossed`.

`Reservation_proofs`, from the same assumptions, of which the sums use that the
requests and the withdrawals are finitely many:

- `Reserved`: a request counts while its withdrawal and its reservation
  disagree, that is from its claim to its insertion and from the transition that
  settles a withdrawal to the release. Unless the reservation was set on the
  word of a request that stood still, or given back for an insertion that took
  effect (`misled`), it covers what is owed and what counts (`Backed`); what is owed and what creations still bring fits in
  the fund (`Room`); a sum somebody read, and may write while the budget has not
  been touched, will cover what is due then (`Recounted`); and a creation that
  holds the turn has seen the fund as it is (`SeenFund`: a payment in between
  would need the turn, by `Alone` above). `PromisesFit` alone is not inductive:
  a claim compares with the reservation, never with what is owed. From it follow
  `TypeCorrect` and `PromisesKept`.

`Withdrawals_proofs`, for any requests, op_ids, fees and amounts, in four
layers:

- `Invariant`: `Base` holds whatever requests are served: types, the calls a
  process can be at and with which op_id (`Placed`), what the document says of
  itself (`DocFits`: a refund is published with its flag), that an `op_id`
  nobody gave out is nowhere (`Fresh`), and the books of each one (`Books`: the
  log says applied or undone only of money that moved or went back, and a
  process about to clear a marker has seen its money move). From it follow
  `TypeCorrect`, `FailedInitDecided` (unless a burn ended `Undecided`) and
  `RefundKept`.
- `PaidIsNotRefunded`, whatever requests are served: until `Unseen`, a live
  withdrawal is not refunded. `RefundFits` adds what a staff request read: what
  its first read was checked for still holds of the second.
- `ChargedRight`, whatever requests are served and die: until a step does one of
  the six things of `Stray`, in every state, quiet or not, `charged` is what
  status, pending markers and the books of the pending op_ids say (`Balance`).
  That needs at most one process at work on a re-debit or a fee plan (`Alone`;
  it is `Overtaken` that ends it), so that its log and its money tell the same
  story (`Told`, which `Undecided` ends), one creator whose attempt the healer
  has not taken while it is initializing (`Attempt`), a plan or a re-debit of a
  live withdrawal, never both (`Underway`, ended by `Reopening` and `EarlyFee`),
  and what each pending op_id is worth (`Priced`, ended by `OldFee`). The
  condition excludes no request and no interleaving before such a step; that
  none of the six can be dropped from it TLC shows, one at a time.
- `Refinement`: the `op_id`s implement `OpLedger`, unless fees may change on a
  creation that is half made (`FeesAfterCreation`): the healer then gives back
  the amount plus the fee the document has by now, not what was charged, and TLC
  finds that step when both kinds of request are allowed. Nothing else is
  assumed; the refinement also holds where `ChargedExactly` does not, with
  reactivations, with a request that outlives the cutoff, with cancellations.
  What goes wrong there is which operations the requests issue, never how one
  of them moves its money. An operation is an `op_id` with the amount it was
  given, its status is read off `money` and `sealed`. The invariant `Costed`
  says what each pending `op_id` is worth, that whoever charges, burns or gives
  one back holds that amount, and which kinds of request brought whom there. Two
  things are left out of the mapping: whether the balance suffices, which is
  free in `Withdrawals` (every debit is `Forced`), and the creation of a
  withdrawal that exists from the start (`Created`).

`Sums` proves what these need of `FoldFunctionOnSet`: it adds up, in any order,
over any finite set. The fold is a recursive function over the subsets of the
set; the lemmas take the smallest set on which one of them would fail.

Only model-checked: liveness (`HealsCredit`, `HealsRedebit`, `HealsFee`,
`HealsInit`, `EveryRowSettles`, `AlwaysSettles`), since fairness and `ENABLED`
are out of the prover's reach. Every invariant and every action property of a
passing run has a theorem, under the hypotheses above where one is named. No
module uses a recursive operator.

## Plan

In this order; each step is a module, its runs and its theorems.

1. *Done*: `OpLedger`, `CreditOps`, `Withdrawals`, `CancelIntent`,
   `Conversions`, `AuthSession`, `SpendLock`, and the proofs of the last six;
   `Withdrawals` over `OpLedger` as a refinement.
2. Proofs: of what `Withdrawals` and `CancelIntent` each assume of the other's
   document, once a module composes them.
3. The registry's compaction and `op_was_applied` callers in `CreditOps`: what
   an executor older than the horizon may still do (a token has no log row).
4. `Redemptions`: three effects per attempt (client, stock, shelf) over the
   promise of `OpLedger`, healer against creator, sale traces and their
   reversal. Invariant: all effects or none once quiet. `StockOps` with the
   effect sequence: the recorded order is the order of the effects.
5. `Evidence`: deposit confirmations and moved claims; theorem: one movement
   credits at most one deposit.
6. `FeeSync`: fee revisions between a withdrawal and its delivery; convergence.
7. `Cobros`, `Counts`, `Batches`: leases, versions and cycles.

## Not modelled

Parsing, formats, notifications, receipts, passwords and rate limits, reports,
and the pages of the client other than those named above. Floating point
rounding of amounts: the code rounds to 6 or 8 decimals. Of the epsilons it
compares with, the models keep the absolute one of the debits (`Tolerance` of
`CreditOps`) and leave out the relative one of the conversions
(`sufficiency_epsilon`). MongoDB is assumed to apply
single-document updates atomically and to keep what it acknowledged.
