# Prydd backend: specifications, model checks and proofs

This directory specifies the part of the repository where money and its
bookkeeping can come apart: how a Payment is authorized, submitted to Solana,
confirmed, settled, announced and delivered to the merchant. The code is the
backend in `src/apps/backend/src` (a NestJS service on Postgres, Redis and
Kafka, several instances of which run side by side). Paths below are relative to
it unless they start with `src/`.

Contents: [the system](#1-the-system), [the modules](#2-the-modules),
[the runs](#3-the-runs), [fairness](#4-fairness), [the proofs](#5-the-proofs),
[findings](#6-where-code-and-comments-disagree),
[what is left out](#7-what-is-not-modelled), [the plan](#8-plan).

## 1. The system

A merchant's server creates a *payment intent*. A Consumer authorizes it in the
checkout, which opens a *payment attempt*, compiles one Solana transaction (a
*Spend* of the Consumer's smart account) and shows it to be signed. The signed
bytes come back, the fee payer (the settlement authority) signs and broadcasts
them, and whoever sees the confirmation first settles the attempt. The merchant
hears of it through Kafka events that become webhook deliveries.

| component | state it keeps | operations | talks to |
|---|---|---|---|
| Payment intents (`payment/`) | `payment_intents.status`, `expires_at` | create, gated `transition`, expire on read, `expireStale` cron | everyone below, by conditional UPDATE |
| Authorization (`capability/payment-authorization.service.ts`) | a new `payment_attempts` row, capacity counters | `authorize`, `authorizeSimulated`, `deferToApproval` | intents, capacity, events |
| Capacity (`capability/capacity.service.ts`, `counters/`) | `capacity_counters` per Consumer and window | `reserve` inside the authorization transaction | authorization |
| Settlement submit (`settlement/settlement.service.ts`) | the attempt's pinned message and `tx_signature` | `buildSettlement`, `pinSettlement`, `submitSettlement` under an advisory lock | Solana, attempts, intents |
| Settlement confirmation (`settlement/settlement-confirmation.service.ts`) | attempt and intent status, `payments` | `awaitConfirmation`, `finalizeSucceeded/Failed`, `settleSandbox`, the sweep (settling leg, resume leg, stuck-authorized reaper) | Solana, rails, events |
| Direct USDC rail, naira off-ramp (`settlement/providers/`) | `settlement_offramps`, `inbound_webhook_events` | `handleIncomingSettlement`, Blockradar webhook, reconciler | Blockradar, confirmation, events |
| Events (`events/`) | Kafka offsets; a failure count in memory | publish, consume, dead-letter | webhook dispatcher |
| Merchant webhooks (`webhook/`) | `webhook_deliveries` | dispatch, attempt, retry sweep, manual redelivery | merchant endpoints |
| Sessions (`session/`) | `sessions` rows with the token hash; sliding window and velocity counters in Redis | one-tap check, record, rotation | authorization |
| Refunds, idempotency keys (`merchant/`) | `refunds`, `idempotency_keys`, `payment_intents` | `IdempotencyService.run` around a refund or an intent's creation | reversal on chain, events, the connection pool |
| Activity and transfers (`activity/`, `transfer/`) | `transfers`, `tailer_state`, transfer intents in Redis | prepare and submit a Send, tail the chain by webhook and replay, tick over pending rows, link to a Payment | Solana, confirmation |
| Account settings (`account/`) | staged columns of `squads_accounts`, `recovery_signers`, `account_events`, prepared steps, recovery grants | stage, propose, vote, execute, settle, reject | Solana's Settings account: one counter of proposals for four flows |
| Recovery (`recovery/`) | challenges, grants | request a code, verify, grant | mail, account |
| Relayer (`src/apps/relayer`) | caps and replay guard in memory | co-sign within caps | Solana |
| Identity, signers, prices, RPC, console, apps, browser packages | read-only or none shared | adapters and interfaces | third parties |

`PROJECT.json` lists every component with its sources and status.

**What makes it hard.** There is no queue and hardly a transaction. An
authorization is one transaction; everything after it is a sequence of single
statements, each an `UPDATE ... WHERE status = ...`, with an `await` between any
two. Requests, the poll a request leaves behind, a cron of every instance and the
provider's webhooks all advance the same rows. A process may die between any two
statements, the chain answers late or not at all, and the only record that money
is on its way may be a message pinned before it was sent. The hazards, each at its
line, are in `PROJECT.json`; the properties below were written against them.

**What makes each component correct.**

- *Intent*: one ending, decided once, announced at most once; an expired intent was
  never authorized.
- *Attempt*: an intent is spent once; the fee payer signs only the pinned bytes.
- *Settlement*: a success has its money, a failure has no money and never will have,
  and nothing stays half way if the schedulers run.
- *Capacity*: the counter equals what was authorized and never exceeds the cap.
- *Webhooks*: no event passes by without its rows; a row is posted until answered or
  until its attempts are used up.
- *Off-ramp*: converted once; a row is paid only by naira that landed, and for good;
  every row ends.
- *Refunds, keys*: one reversal and one announcement per key, however often and however
  concurrently it is retried; refunds not recorded as failed never exceed their payment; replays agree.
- *Settings*: the database commits what the chain executed, calls executed only what was and
  rejected only what had not landed, and never holds two changes of the Account's own columns at once.
- *Activity*: a row that reached its end stays there and is true; every settled Payment
  has its linked row.

## 2. The modules

| module | what it is |
|---|---|
| `PaymentLifecycle` | the core: intents, attempts, capacity, submit, confirmation, the three legs of the sweep, expiry, Solana as environment |
| `PaymentPromise` | the abstract specification: what a Payment promises, with no attempts, locks or processes |
| `PaymentInvariant` | the inductive invariant `SafetyInv` of the core |
| `PaymentLifecycleProofs`, `PaymentSafetyProofs`, `PaymentOutcomeProofs` | types; safety; capacity, announcements and the refinement of the core, proved |
| `WebhookDelivery`, `WebhookDeliveryProofs` | Kafka event to merchant answer |
| `NairaPayout`, `NairaPayoutProofs` | the deferred rail: from a claimed attempt to naira |
| `MerchantWrites`, `MerchantWritesProofs` | refunds and intent creation under an Idempotency-Key |
| `AccountChanges`, `AccountChangesProofs` | limit, device, passkey and recovery keys against one Settings index |
| `ActivityFeed`, `ActivityFeedProofs` | five writers of one `transfers` row |
| `DeliveryPromise`, `PayoutPromise`, `MerchantPromise`, `SettingsPromise`, `FeedPromise` | the abstract specifications of those five, in the same order |
| `MC...` | constants and symmetry for TLC |

The six system modules are written alike. A *process* (a request, a scheduler, a
consumer, a webhook in progress) has a place (`pc[p]`, or `job[r].at`) naming the
statement it is about to run, and the locals it has read: each action is one statement
with the conditions before it. Whatever is between two awaits of the code is one step;
whatever an await separates is two, save the reads each section below lists. A handler may throw or die at any place
(`Fail`, `Crash`, `Die`, `Throws`), at most `MaxFails` times in a run. Ages and deadlines
are sets of the rows that have passed them (`old`, `due`, `stale`, `quiet`,
`lapsed`), grown by actions of the environment; the windows' lengths do not appear.
A definition `Name_Fault` beside `Name` is a plausible bug in it: with it in place of
`Name` a property named in `PROJECT.json` fails.

### PaymentLifecycle

| state | code |
|---|---|
| `intent`, `due` | `payment_intents.status`; `expires_at` passed |
| `attempt[a]` = intent, status, `msg`, `sig` | `payment_attempts`: status, pinned message hash, `tx_signature` |
| `old` | attempts whose `updated_at` is past the window the sweep waits for |
| `payment[i]` | `payments`, unique by intent |
| `used` | `capacity_counters.total_raw` |
| `told[i]` | publications of `payment.authorized/succeeded/failed/expired` |
| `endpoint` | intents whose merchant has a `settlement_accounts` row that settles |
| `chain[m]`, `stale`, `spendOf` | Solana's view of a message, expired blockhashes, whom a message pays |
| `locked[i]` | the `payment-submit` advisory lock |

| actions | code |
|---|---|
| `Authorize`, `ExpireOnRead`, `CommitAuthorization`, `RollBackAuthorization`, `TellAuthorized`, `Pin` | `CheckoutController.authorize` over `PaymentAuthorizationService.authorize` and `SettlementService.pinSettlement` |
| `RetireSimulated`, `SettleSimulated` | `authorizeSimulated` and `simulateSettlement` |
| `Submit`, `EnterSubmit`, `Broadcast`, `RecordSignature`, `SettleIntent`, `Poll` | `CheckoutController.settle` over `submitSettlementLocked` and `awaitConfirmation` |
| `ClaimSucceeded`, `Complete`, `RefuseCompletion`, `FinalizeIntent` / `ClaimFailed`, `FailIntent` / `TellOutcome` | `finalizeSucceeded` / `finalizeFailed` |
| `Sweep`, `Resume`, `ReapSelect`, `Reap`, `AbandonIntent` | the legs of the sweep |
| `ExpireStale`, `TellExpired` | `PaymentIntentService.expireStale` |
| `Provision` | `SettlementProvisioningService.provisionOrLink` |
| `ComesDue`, `Land`, `BlockhashExpires`, `GrowsOld` | time and the cluster (external) |

`Complete` and `RefuseCompletion` are the two ends of `completeClaimedSettlement`, which asks
`getSettlementAddressForSettlement` before it writes the payments row. A live Payment was
asked the same before it was authorized (`buildSettlement`), so `endpoint` holds the live
intents from the start, and an endpoint is taken not to be lost. A sandbox request writes its
payments row without asking, but the resume leg of one that died asks. Only `direct_usdc`
endpoints are meant: `NairaPayout` has the other provider.

Amounts are one unit and the Consumer's day and month windows are one counter, which
is what the overshoot question needs. `stale` keeps the one fact about Solana that the
code relies on and nothing weaker: a message whose blockhash has expired can no longer
land, and a row is old only after its message's blockhash expired. Re-broadcasting a
message is always allowed, also after it settled, which is more than the prepared-key
lifetime permits.

`PaymentPromise` is instantiated at the end of the module: the outcome is the intent's
status with every non-final status read as open, `moved` the intents one of whose Spends
landed, and `announced` the three endings of `told`. Every statement of the detailed
specification is either one of `MoveMoney`, `Decide`, `Announce` or a stutter; `Decide`
is for a set because `expireStale` is one statement for many rows.

The other systems have such a specification too, instantiated at the end of their module as
`Promise`; that `Spec` implements it is the property `KeepsPromise`. None of them has
processes, locks, clocks, failures or places:

- `DeliveryPromise`: an event leaves the log when every endpoint has its row or it is given
  up; a row's attempt number never exceeds the requests sent by more than the one to come, a
  success was answered, a row given up was asked as often as promised.
- `PayoutPromise`: one conversion; a payout is paid once the naira landed, for good; only a
  paid payout completes its Payment and is announced, once each.
- `MerchantPromise`: a payment has an *account* of what may still be given back, which the
  code never stores: each refund adds up the rows anew. A key draws on one account once, and
  puts back what it drew if it fails.
- `SettingsPromise`: the Account has one device key and one passkey, and each change to its
  Settings is a rotation, a set of recovery keys or a limit. What we have on file, hold in
  force or reported comes after the Settings and names only what they hold or held.
- `FeedPromise`: what a row shows is true of the chain when it is written and its end is its
  last word; a link is a settled Payment's; the bookmark rises to what is on show.

### WebhookDelivery

`log[e]` is an event's place (queued, committed, dead-lettered), `seen` the failure
count `KafkaEventConsumer` keeps in memory, `status`, `attemptNo`, `due` and `stale`
the `webhook_deliveries` row. `Consume`, `Materialize`, `Commit` and `HandlerThrows`
are the consumer and `WebhookDispatcherService.handle`; `Post`, `RecordSuccess`,
`RecordFailure` and `SuccessNotWritten` are `WebhookDeliveryService.attempt`, whose
`catch` also covers the write of a success; `Select`, `Claim`, `Reload` are
`WebhookRetryService.tick`, row by row because rows do not interact; `Redeliver` is the
operator's. `posts` and `heard` are the merchant's side. A queued event may be consumed
by two members at once, as after a rebalance. The loop over endpoints takes them in any
order.

One place allows more than the code: the claim compares times at the claim and not at
the selection.

### NairaPayout

Spells out `PaymentLifecycle`'s `Complete` for a provider that answers `pending`:
`ClaimSettlement`/`Resume`, `ReadLink`, `OpenRamp`, `Withdraw`, `TellInitiated`,
`RecordPayment` are `completeClaimedSettlement` over
`BlockradarSettlementProvider.handleIncomingSettlement`; `Receive`, `HandleProcessing`,
`HandlePaid`, `CompleteDeferred`, `HandleFailed`, `TellPayout`, `Throws`
are the webhook receiver with its dedupe claim; `SelectStuck`, `TimeOut`, `TellTimeout`,
`Reopen` the reconciler; `Converts` and `PaysOut` Blockradar (external, modelled from the
events the receiver parses). `linked` says whether the off-ramp row carries a
`payment_id`. It is the code with `BLOCKRADAR_SOLANA_NATIVE_ENABLED` on; the pilot ships
with it off and with merchants on `direct_usdc`.

### MerchantWrites

| state | code |
|---|---|
| `refunds[k]`, `intents[k]` | `refunds` and `payment_intents`, each with its unique index on the key |
| `stored[scope][k]` | `idempotency_keys`: the request's hash and the stored answer; `legacy` for refunds, `cluster` for intents |
| `confirmed` | payments whose intent succeeded |
| `reversals[k]`, `created[k]` | reversals sent and `payment.created` published under a key |
| `ask`, `pc`, `amount`, `reply` | a request: its key and body, its place, the amount it decided on, what it returned |

`Find` and `Store` are the two halves of `IdempotencyService.run`, with the work
between them: nothing reserves the key meanwhile. `Connect`, `Lock`, `Decide`,
`InsertRow`/`TakeExisting`, `Simulate` (sandbox), `Reverse`, `RecordReversal`,
`ReverseThrows`, `RecordingThrows`, `FailRow` are `RefundService.execute` under
`withAdvisoryLock`; `Look`, `Create`, `PublishCreated`, `AttachMetadata` are
`POST /v1/payment_intents`. A refund keeps one pooled connection for the lock from
`Connect` to its end; every statement of anybody takes one too (`CanQuery`), which is
how a full pool could stop everybody. A retry is another request with the same key.

### AccountChanges

| state | code |
|---|---|
| `key`, `staged` | `primary_signer`, `approval_signer` and the pending columns of `squads_accounts` |
| `rows`, `contact` | `recovery_signers` with `change_index`; the key of the address on file |
| `told` | `account_events`, unique per index and outcome |
| `prepared`, `grant` | the step a flow awaits a signature for; the inbox a verified code proved |
| `tip`, `proposal`, `closed`, `signers`, `limit` | the Settings account and its proposals on chain (external) |
| `lock`, `keyLock` | the advisory locks `account:settings-change` and `recovery:change` |

Four flows (`limit`, `device`, `passkey`, `recovery`) of four services share the shape
and differ where the code differs: a limit asks for open recovery keys, a rotation does
not; a rotation needs a grant and the held key's vote; a passkey change restates the limit; a
rotation can be resolved after its proposal's account is gone. `Start`, `Stage`, `Announce` stage a
column under the lock; `AddKey`, `RemoveKey`, `MoveContact`, `Retire`, `CheckKeys`, `MarkKey` stage
recovery rows. `Look` is `next` and `StartOver` a start that comes upon an earlier change: both read
the row (kept in `job[r]`, the keys in `had`) and then go through up to three reads of the chain, each
a step of its own as each is a call of its own:

| step | reads | code |
|---|---|---|
| `FindSettled`, `FindOpen`, `FindNothing` | the proposal | `readProposal` |
| `AskTip` | the tip, when there was no proposal | `isNextIndex` |
| `FindLanded`, `SettleKeys` | the signers or the limit | `rotationLanded`, `assertLanded` |

`FindOpen`, `FindNothing` and `AskTip` prepare the step that is due. `ResolveColumns`, `TellOutcome`,
`Clear` and `FollowContact`, `WriteRow` write the outcome. `SubmitPropose`, `SubmitApprove`, `SubmitExecute`,
`SubmitRejection`, `RecoveryVote` go to the chain; `Withdraw` abandons the recovery change a rejection
finds open; `Watch` is the watcher; `Ripen` and `Close` are the time lock and the closing of a
settled proposal. Those two wait until no request is in progress: a day passes, and no
request lives that long. `Earlier` lists the recovery keys that may have been added
before indices are counted. Both rotations begin with a verified code on hand: a code only enables.

Joined to one step although an await is between them, with the reason:

- a read and the row it prepares (`FindOpen`, `FindNothing`, `AskTip`): of a prepared step that came too
  late the chain takes nothing, and `Landing` deletes whatever step is there by then;
- `Start`: its checks of the row and the index it stages under, both under the lock of the Account;
- `SettleKeys`: the two reads of the rows around that of the signers (`assertLanded`, `settle`), the rows
  of an index only leave it; `Withdraw`: `pendingChange` and `rowsInChange`, likewise;
- `RecoveryVote`: the vote and the reads it was decided on, since the chain checks the vote again.

### ActivityFeed

`row[t]` is the `transfers` row of a transaction, `fate[t]` and `slot[t]` what the
cluster did with it. `Submit`, `Broadcast`, `BroadcastThrows`, `WriteRow`, `EraseIntent`
are `/transfers/submit`; `Deliver`, `HookThrows` the chain webhook with its claim in
`inbound_webhook_events`; `Replay` (`Sweep`, `Repair`) and `NextTransfer` the
reconciler's replays from the bookmark; `Correlate`, `Upsert`, `Mark` the tailer both
run; `TickSelect`, `TickAsk`, `TickSettle` the tick over pending rows; `RecordPayment`,
`LinkTransfer` the completion of a Payment. Every writer goes through the same upsert,
whose rule `Kept` is that a final status stays.

## 3. The runs

| run | instance | shows |
|---|---|---|
| `payment_races` | 1 live intent, 2 rows, 2 messages, 2 requests, 2 workers, 2 failures; 42 thousand states | `SafetyInv`, the settlement guard, capacity, announcements, the action property `PinnedFailsOnVerdict`, and the refinement `KeepsPromise` |
| `payment_liveness` | a live and a sandbox intent, the latter's merchant without an endpoint, one row, message, request and worker, 1 failure, fair; 36 thousand states | `SettlingResolves`, `ClaimedCompletes`, `AuthorizedIsReleased` |
| `payment_submit_window` | violation | a comment's claim about the submit window (section 6) |
| `payment_settling_ends` | violation | a settling intent that never ends (section 6) |
| `webhook_delivery` | 1 event, 1 endpoint, 1 manual row, 2 members, 1 sweep, 1 operator, 1 failure, dead letter at the first, fair; 42 thousand states | the refinement `KeepsPromise`, `ExhaustedWasTried`, `DispatchedOnce`, `EveryDeliveryEnds`, `EveryEventLeavesTheLog` |
| `webhook_claims` | violation, 2 sweeps | two sweeps on one pending row (section 6) |
| `naira_payout` | 1 settlement, 2 completions, 1 webhook request, 1 reconciler, 1 failure, fair | `KeepsPromise`, `PaidStaysPaid`, `CompletedToldOnce`, `ClaimedGetsItsRows`, `OpenPayoutEnds` |
| `naira_completes` | violation, no failure allowed | naira that landed without its Payment (section 6) |
| `merchant_writes` | 3 requests, 2 keys, 3 payments (live, sandbox, manual) worth 3, 2 intent bodies, 2 connections, 1 failure; 0.6 million states | `ReversedOncePerKey`, `RefundsWithinPayment`, `AnsweredAsStored`, `SomebodyMoves`, `KeepsPromise` |
| `refund_retry` | violation | a retry that does not return its refund (section 6) |
| `account_changes` | 2 keys of each kind and 2 limits, 1 or 2 recovery keys before, 2 requests, 1 index, 1 failure; 1.5 million states | `KeepsPromise`, `ExecutedIsBacked`, `RotationsAreRejectedTruly`, `OneColumnAtATime` |
| `activity_feed` | a Send alone, or a Payment and somebody else's transaction; 2 submits, 1 webhook, 1 replay, 1 tick, 1 completion, 1 failure, fair | `KeepsPromise`, `SendEndsTruly`, `PaymentGetsItsActivity` |

**Properties of the core.**

- `FailureIsHonest`: an intent that is failed or expired, or was announced so, never
  moved money, and never will while it is closed (the invariant holds in every later
  state too).
- `SuccessIsBacked`: a live Payment that succeeded has a payments row naming a Spend of
  that very intent that landed.
- `OutcomeToldOnce`: at most one of the three endings is published, once.
- `SingleSpend`: through retries, reaps and sweeps, one attempt and one pinned message
  in the life of an intent.
- `AuthoritySignsOnlyPinned`: nothing is broadcast that no attempt names, and no attempt
  carries the signature of another message than its own.
- `MovedMoneyStaysOpen`: money that moved is never forgotten by the rows: its attempt can
  still settle, settled, or was quarantined with the intent kept authorized.
- `PinnedFailsOnVerdict` (action): an intent with a pinned message fails only once that
  message is dead: it landed with an error, or its blockhash expired and it did not land.
- `CapacityMatchesAttempts`: capacity in use is one unit per attempt a live intent ever had, within the
  cap; a failed or reaped attempt keeps its unit, as nothing in the code gives one back. The run has one
  live intent, so it shows that a refused or rolled back authorization keeps nothing; that
  several authorizations do not overshoot together is the theorem `CapacityHeld`.
- `KeepsPromise`: the refinement of `PaymentPromise`.
- `SettlingResolves`, `ClaimedCompletes`, `AuthorizedIsReleased`: an attempt that was
  broadcast, claimed or left alone does not stay so, whoever died; a claimed one ends once its
  merchant has an endpoint (section 6).

**Of deliveries and payouts.**

- `KeepsPromise` of both: among the rest, an offset that moved on left a row for every
  endpoint, and a conversion is asked for at most once.
- `ExhaustedWasTried`: a row is given up only after as many posts as it allows, although
  claims that crashed move its attempt number too.
- `DispatchedOnce`: two members that handle one event do not both make the first attempt.
- `PaidStaysPaid` (action): a row becomes paid only by naira that landed and leaves it never. `CompletedToldOnce`: its
  completion is announced at most once, and truly.

**Of merchant writes.**

- `ReversedOncePerKey`: one reversal sent under a key, whoever races or retries.
- `KeepsPromise`: what is left of a payment behaves as an account that is never overdrawn, a
  refund succeeds only with its one transfer sent, an intent's terms are agreed and its
  `payment.created` published once per key.
- `RefundsWithinPayment`: what is not failed of a payment's refunds sums to no more than
  the payment, for refunds under different keys too.
- `AnsweredAsStored`: a request that was answered under a key tells what is stored there
  and was asked with the same body.
- `SomebodyMoves`: while a request is under way, some request can take a step: lock
  holders and waiters never hold the whole pool between them.

**Of settings changes.**

- `KeepsPromise`: a column or a recovery row is committed, and an outcome reported, only for a
  key or an amount that an executed change put into the Settings, and that is there still or was
  taken out again; the Settings have one device key and one passkey throughout.
- `ExecutedIsBacked`: of a limit or a recovery change that Activity calls executed, the chain executed a
  change at that index; and every key or amount it calls executed is one that some
  executed change installed, although two flows may hold one index.
- `RotationsAreRejectedTruly` (action): a rotation has not landed by the time it is told as
  rejected, even when its proposal was closed before anybody settled it. It may land later (section 6).
- `OneColumnAtATime`: limit, device and passkey never wait together.

The first and the third allow one exception: another executed change has taken
the new key out of the signers again (`gone` in the promise, `TakenOut` in the module). A service reads the chain, and writes and tells some
statements later without a lock; and a proposal made before the signers changed can still be
executed in the model, as nothing in the repository reads a stale index. With one index no
change follows another: on the instance of `account_changes` no committed key and no told
rotation needs the exception. The proofs of section 5 show that with any number of indices this one is enough.

**Of Activity.**

- `KeepsPromise`: no late writer moves a final row or writes what is not true of the chain, and the
  bookmark rises only to what is on show. It may pass a lost delivery (section 6).
- `SendEndsTruly`: a pending Send ends as what became of it: confirmed if the money moved, failed
  if it did not and never will, for good.
- `PaymentGetsItsActivity`: a recorded Payment gets a confirmed row linked to it, whichever of
  tailer and completion came first and whichever delivery was lost.

**Bounds.** Two processes of a kind are what every race in this code needs: each conflict
is between the holder of a row and one other. Two rows and two messages are what a second
Spend needs. `MaxFails` of one or two covers a crash followed by a crash of its recovery.
`MaxAttempts = 2` is the smallest at
which "again" and "used up" differ. `MaxHandled` is 1, not more than `MaxFails`, so that the
one failure dead-letters an event; with both at 2, where a crash can reset a count half way, all
properties of `webhook_delivery` were checked once (291 thousand states, five minutes). Capacity of many intents and webhooks of many endpoints
and sweeps are the proofs' part: `CapacityHeld` and the theorems of
`WebhookDeliveryProofs` hold for any number. Three requests are a refund, its retry and a refund
under another key; a payment worth 3 makes an amount of 2 fit once and its rest be 1; with two
connections two refunds fill the pool. One Settings index is where two flows collide, with every
kind of change proposed at it; a second index adds what a settled change leaves
behind, for which the properties of `account_changes` were also checked with
two indices, one request and no failure (2.3 million states, to a depth of 85). Two transactions are what a bookmark needs
to move past one of them. Symmetry is used only in runs without liveness: over rows,
messages and processes. Deadlock is not checked: every run may end with nothing left to
do, and `SomebodyMoves` says it where a deadlock was to be feared.

## 4. Fairness

- Weak fairness of every process's next statement: an await returns or throws. A process
  that died is idle and owes nothing.
- Strong fairness of taking the advisory lock: Postgres grants a lock that becomes free
  again and again.
- Strong fairness of each leg of the sweep *for each row*, of `expireStale`, of the retry
  tick and of the reconciler: they are cron jobs of every instance that take all due rows,
  oldest first, in batches far above the instances. (The resume leg takes the oldest 256 rows
  and a row that keeps throwing stays among them; 256 such rows would starve the rest, which
  these instances do not reach.)
- Strong fairness of consuming an uncommitted event, and of Blockradar repeating a webhook
  that was not acknowledged.
- `ActivityFeed`: weak fairness of the tick and of a replay once begun, strong fairness of
  `RepairOne`, which has a timer of its own that no sweep holds up. Nothing is assumed of a
  submit, of a webhook delivery or of the sweep's replay.
- Weak fairness of time: rows grow old, blockhashes expire.

No fairness is assumed of a Consumer, a merchant's endpoint, of a message landing, or of
Blockradar ever reporting. A process does not throw for ever, since failures are bounded
by `MaxFails`; without that no retry ends anything. `MerchantWrites` and `AccountChanges`
state safety only and assume none.

## 5. The proofs

Proved by TLAPS for all values of the constants (any numbers of intents, rows, messages,
endpoints, requests, workers and failures), from each module's `ConstantsAssumption`
and the other named assumptions beside it.

| module | theorem | states |
|---|---|---|
| `PaymentLifecycleProofs` | `TypeCorrect` | `Spec => []TypeOK` |
| `PaymentSafetyProofs` | `SafetyHolds` | `Spec => []SafetyInv` |
| | `FailureHonest`, `SuccessBacked`, `SpendIsSingle`, `OnlyPinnedSigned`, `FailsOnVerdict` | `FailureIsHonest`, `SuccessIsBacked`, `SingleSpend`, `AuthoritySignsOnlyPinned`, `PinnedFailsOnVerdict` |
| `PaymentOutcomeProofs` | `CapacityHeld`, `ToldOnce`, `MoneyStaysOpen` | `CapacityMatchesAttempts`, `OutcomeToldOnce`, `MovedMoneyStaysOpen` |
| | `PromiseKept` | `Spec => KeepsPromise`, the refinement |
| `WebhookDeliveryProofs` | `TypeCorrect`, `CommittedHasRows`, `FirstAttemptIsOne`, `ExhaustedTried` | `TypeOK`, `CommittedIsMaterialized` (an offset that moved on left its rows), `DispatchedOnce`, `ExhaustedWasTried` |
| | `PromiseKept` | `Spec => KeepsPromise`, the refinement of `DeliveryPromise` |
| `NairaPayoutProofs` | `TypeCorrect`, `ConversionAskedOnce`, `CompletionToldOnce`, `PaidIsFinal` | `TypeOK`, `AskedOnce`, `CompletedToldOnce`, `PaidStaysPaid` |
| | `PromiseKept` | the refinement of `PayoutPromise` |
| | `NoPaymentCompletes` | no row carries a `payment_id` and no Payment of the rail completes by itself (section 6, item 4) |
| `MerchantWritesProofs` | `TypeCorrect`, `ReversalSentOnce`, `CreationToldOnce`, `AnswersAgree` | `TypeOK`, `ReversedOncePerKey`, `CreatedToldOnce`, `AnsweredAsStored` |
| | `RefundsNeverExceedThePayment` | `RefundsWithinPayment` |
| | `OneRefundAtATime`, `RefundOutcomesStay` | refunds of one payment do not overlap, a row has one writer and its outcome is final |
| | `OnlyReversiblePaymentsRefunded` | nothing is given back of a payment that was not settled or cannot be reversed |
| | `SucceededRefundsWereSent` | a refund that reads succeeded was sent, or is of test mode |
| | `PromiseKept` | the refinement of `MerchantPromise` |
| | `RefundsDoNotBlock` | `SomebodyMoves`, with each step's guard spelled out in the place of `ENABLED` |
| `AccountChangesProofs` | `TypeCorrect`, `ColumnsTakeTurns` | `TypeOK`, `OneColumnAtATime` |
| | `ExecutedOutcomesAreBacked`, `LandedRotationsAreToldTruly`, `CommitsFollowTheChain` | `ExecutedIsBacked`, `RotationsAreRejectedTruly`, `CommitsWhatLanded` (a key is committed only if the chain holds it or took it out again) |
| | `PromiseKept` | the refinement of `SettingsPromise` |
| | `KeysOnFileWereInstalled` | a device or passkey on file is the first, or one that an executed change installed |
| | `RecoveryRowsFollowTheChain` | a recovery row in force names a key that is a signer or was taken out by an executed change |
| | `RotationsReplace` | there are always one device key and one passkey among the signers |
| `ActivityFeedProofs` | `TypeCorrect`, `FinalStatusStays` | `TypeOK`, `StatusIsFinal` (no writer moves a final row) |
| | `PromiseKept` | the refinement of `FeedPromise` |
| | `BookmarkFollowsTheRows` | the replay's bookmark rests where a transaction landed that has its row |
| | `ActivityIsTrue` | a confirmed row's transaction landed, a failed row's failed or never will land |

**The core.** None of these properties is inductive. `FailureIsHonest` speaks of an intent
and the chain, but what keeps it true is what a handler read three statements ago: a worker
about to write `failed` relies on its message being dead, the reaper on no message having been
pinned since it selected, both on no other request being able to pin one. `SafetyInv`
(in `PaymentInvariant`) states all that is relied on:

- `TypeInv`: types, and rows in use belong to an intent;
- `AttemptInv`: one attempt per intent, only once authorized;
- `PinInv`: a pin is a message of the row's own live intent; a recorded signature is the
  pin; an old row's message is stale; a live attempt succeeded only if its message landed;
- `SpendInv`: a message exists because a row pinned it, and is sent because it exists;
- `EndInv`: a failed intent has only dead messages and failed attempts, a payments row
  names a landed Spend, an announcement agrees with the intent;
- `HandlerInv`: for each statement, what its handler may assume of the tables;
- `OnePinner`: one handler at most can pin a message on an intent.

The proof has a lemma per action (`...Safe`). What most steps have in common is factored
out: `Monotone` says how the tables may change under another handler (money that landed
stays landed, a dead message stays dead, an ending stays), and `HandlersFrame`,
`RowsFrame`, `EndFrame` and `PinnerFrame` carry each part of the invariant over a step
that is monotone in this sense, so that a lemma only argues about the handler that moves
and the row it writes. `SafetyInv` is also an invariant of `payment_races`.
`FailsOnVerdict` needs no more: a step that writes a status leaves the cluster alone, and
`EndInv` holds after it.

On top of it, `CapacityInv` counts the rows a unit was reserved for; `ToldInv` adds who may
still announce (`TellerInv`: one handler at most, and nobody did before); `OpenInv` relates
a recorded signature to the intent that follows it. The refinement maps each step to
`MoveMoney`, `Decide`, `Announce` or a stutter, with `SafetyInv` and `ToldInv` for the
guards of the abstract actions.

**The others.** Each inductive invariant says what a handler holds in hand:

- *Deliveries*: `MadeInv`, which rows a member has made by each place of its loop; and
  `CountInv`: `posts[d] + 1 >= attemptNo[d] + (processes about to record d) + (1 if d waits
  to be retried)`, so that an attempt number never runs ahead of the requests sent.
- *Payouts*: `SafeInv`: who is about to ask has not asked, who is about to announce has not
  announced, each is alone, and a paid row's naira landed.
- *Merchant writes*: `OnceInv`: under a key, only the request that made the row goes on to
  the chain or to announce, and is alone; a key without a row has done neither. For the
  answers: a stored record is never changed, and is of the kind its scope says.
  For the sums: `LockInv`, one request of a payment is past its lock, and `MoneyInv`, what is
  held of a payment and what the request at its insert is about to add stay within its worth.
  The units of a payment's refunds are a set (`Held`), so that a sum is a cardinality.
  `SentInv`: who is about to write succeeded has sent.
- *Settings*: `Alone`: a start holds the lock from the check to the write of its column, and the
  other columns are empty as long. Two more invariants relate the database to the chain's past:
  - `History`, for what is told: proposals beyond the last index are untouched; a staged
    index is at most the next; a device or passkey on file, or as a request read it, is `Held` (the first, or
    installed *and* the first has left the signers); the amount of a staged limit, if the policy has it,
    was installed; what a settling request holds as executed is `Backed`.
  - `SignerHistory`, for what is committed and for what is told as rejected: the exact shape of
    every change, prepared and proposed ones too (`RoleChange`: one key in the place of one of
    its kind, recovery keys alone, or a limit alone), so that exactly one key of
    a role is among the signers (`HasOne`); a key on file or in a row in force is `Admitted` (a
    signer, or taken out); an index is `Young` (neither ripe nor executed) as long as the
    request that is to stage under it is under way, since a time lock outlasts a request, and
    for the same reason a proposal that was not there when a request asked is not ripe while it asks on;
    what a settling request holds as rejected is `Forgone` (has not landed, or did not last, and
    is not ripe, so that it lands no sooner than the request ends).
    `Seen`, of the key on file (`KeyLanding`) and of the one a request read, covers a start that raced
    the commit of its own key: its second rotation to that key executes only after the key was taken out.

  `ChainGrows` and `ChainMoves` say what any step may do to the chain (a settled proposal
  stays, a signer leaves or comes only by an executed change); what was read of the chain is
  carried over every step that is one of these (`StepLands`, `StillLands`, `QuietLands`).
  `CommitsFollowTheChain` then takes both: a settled column was installed, hence admitted,
  and if it is a signer the key it replaces is not one.
- *Activity*: `FeedInv`: what each writer read about a transaction stays true of it
  (`HandTrue`), a lapsed transaction is in flight no more (`LapseTrue`), a row is true (`RowTrue`).
  For the types, `FullInv` bounds a slot by the number of transactions that landed and the bookmark
  by the slots: a landing takes the next slot, which is one more than a set that it is not in.

**The refinements.** A step of a system is one step of its promise, or a stutter; the mapping
is stated beside the instance, and each needed its own strengthening:

- *Deliveries*: `Conclude` needs a request for the row's number: `CountInv`, with the process at
  its record counted, gives it (`PaidFor`). `TrueInv`: the answer a process is about to write was
  given, and the event it handles was published.
- *Payouts*: `ReceiptInv`: the bank has heard of nothing that was not asked for, and a success is
  announced with the intent's transition alone. `Unlinked`, for `NoPaymentCompletes`: wherever a
  completion can be, a settlement that is recorded or about to be has its off-ramp row, so that
  none is opened with the payment read.
- *Merchant writes*: the account is `Worth` less the sum of the rows not failed, so that its guard
  is that the sum read under the lock is still exact when the row is inserted (`LockInv`,
  `MoneyInv`), and a failure puts back exactly its amount (a row has one writer).
- *Settings*: what is installed and gone is a union over the executed proposals, which only
  `SubmitExecute` extends (`MovesStill`, `SettingsStay`); that it is a `Rotate`, a `Recover` or a
  `Restrict` is `RoleChange`, with `HasOne` before and after (`ExecutionIsAStep`). `File`,
  `Enforce` and `Report` are guarded by what `History` and `SignerHistory` say a settling request
  holds.
- *Activity*: `LinkInv`: who is about to link found the Payment settled; the truth of a write and
  the last word are `FeedInv`, the rise of the bookmark `FullInv`.

Only model-checked: everything under fairness, and `SomebodyMoves` as it is stated (the prover
has no `ENABLED`; `RefundsDoNotBlock` proves it of the guards). Every other property of
a passing run is a theorem.

## 6. Where code and comments disagree

1. **The submit window** (`payment_submit_window`): a crash between the two writes of
   `submitSettlementLocked` leaves the attempt settling and the intent authorized. The
   comment there says the reaper recovers it; the reaper looks for *authorized* attempts.
2. **A settling intent without an attempt** (`payment_settling_ends`): with no crash, a
   sweep that reads a chain error between those two writes fails the attempt, conflicts
   with the still authorized intent, and returns; submit then makes the intent settling,
   for ever.
3. **The claim of a pending delivery** (`webhook_claims`) is not exclusive: it stamps
   `next_retry_at`, which nothing that looks for pending rows reads.
4. **Deferred completion** (`naira_completes`): the off-ramp row's `payment_id` is read
   before the payments row is written and is therefore null; the paid webhook skips the
   completion and the resume leg passes over a settlement that has both rows. No
   interleaving and no failure links a row either, so no Payment of this rail ever succeeds by
   itself, which `NoPaymentCompletes` proves for any number of settlements and processes. The
   part of `PayoutPromise` about a completed Payment is what the code would owe if one did.
5. **The retry of a refund** (`refund_retry`): `docs/specs/pay-with-prydd-integration-quickstart.md:305`
   says a retry with the same key returns the original refund. After a crash between the
   refund row and the stored answer, the retry sums the key's own row and is refused.

Seen while modelling, without a run of its own:

- A rotation does not ask for an open recovery change, although `recovery-change.service.ts:195-197`
  has the recovery side refuse while a column is staged: two changes can share one index.
  The flow that loses the index fails with an error until the proposal's account is closed, and
  is told rejected then.
- A rotation can be told as rejected and land afterwards, against the comment at
  `device-rotation.service.ts:346-352` that the signer set decides which way a staged index resolves.
  `planFrom` reads no proposal (line 235), the rotation's own propose lands, `isNextIndex` is false (line 240) and the new key
  is not among the signers yet (line 357): the column is cleared and the change told rejected while its proposal
  is open. A recovery change that shares the index then votes for that proposal and executes it.
  TLC finds it in 29 steps with two requests and one index. The account keeps the old key on
  file while the chain has the new one. `RotationsAreRejectedTruly`
  says what is true at the telling, therefore, and `KeepsPromise` that nothing is committed wrongly.
- After that, a new start of the same rotation is staged at the next index and proposed; a `next` that read the row
  before the propose landed finds no proposal, a tip that moved on, and the new key among the signers
  since the first one: it commits and tells *executed* for an index whose proposal is open.
  So `ExecutedIsBacked` does not vouch for the index of a rotation, only for the key.
- `CheckKeys` refuses after the recovery rows were written, and leaves them there with no
  index; `submitRejection` abandons whatever recovery change is open; a limit that was
  executed and closed before it was settled is told as rejected; a settle clears whatever
  column is staged by then.
- A recovery change can be told as executed, and its rows settled, for a proposal of another
  flow that took its index: `recovery-change.service.ts:122-131` asks whether the proposal was executed and
  whether each row agrees with the signers, not what the proposal was, which matters where the
  signers agree for another reason. `account-change.service.ts:269` likewise abandons the open recovery change whatever
  its index, also one that was executed and not yet settled. `ExecutedIsBacked` therefore says of
  a recovery change that a change was executed at its index, not which.
- A sandbox Payment whose request died after it retired the attempt is finished by the resume leg, and that asks for
  the merchant's settlement endpoint (`settlement/settlement-confirmation.service.ts:155-158`) and calls its provider, although the comment
  at `:236-242` says of the sandbox that no provider is called. Sandbox intents exist for merchants
  without an endpoint: the leg throws on every tick, and the intent stays settling until the merchant is
  provisioned. `ClaimedCompletes` therefore has the endpoint as a condition. For a merchant on
  Blockradar the leg would open an off-ramp row for a Payment without money, which no module
  has: `PaymentLifecycle` is the `direct_usdc` rail.
- The replay starts at a bookmark the webhook moves too: an arrival or a Send whose delivery was lost
  and overtaken is not found again (the comment at `activity/reconciler.service.ts:30-34` reads as if it were). Payments are, by the
  repair.
- A refund that was sent to the chain and whose record threw is failed, and its amount
  refundable again under another key.

## 7. What is not modelled

- Core: `devForceSettleSucceeded` (development only); `deferToApproval` (leaves the status as it
  is); the roll-over of capacity windows; the lifetime of prepared keys and of the build
  endpoint's cached message (the model allows more); the Session check of the one-tap path.
- Lost events: an event is published after the write it reports, with no outbox. The model
  loses it when the process dies in between, and the properties promise no more than one
  announcement.
- `WebhookDelivery`: endpoints being disabled, payload building, back-off lengths,
  unparseable messages. `NairaPayout`: the reverse direction, the kill switch, KYB and
  destination checks (they throw before anything is written, which is a failure here).
- `MerchantWrites`: requests without a key, the exchange rate of a refund, intents without metadata
  (the branch with it does strictly more).
- `AccountChanges`: how codes are sent, counted and hashed; how a proposal's bytes are built and
  described; the worth and notices around an outcome.
- `ActivityFeed`: a transfer between two Consumers is one row; the 30 seconds the tick leaves
  a fresh row alone (a tick may ask sooner here); worth and arrival notices.
- Sessions (a row, with its window and velocity in Redis) and the relayer (memory of one instance) guard the
  steps before and beside the models; recovery codes are one counter per challenge.
- The other components with status `not_modelled` in `PROJECT.json`: third-party adapters,
  read-only lookups, single-statement administration, user interfaces, and the on-chain
  program (not in the repository).

## 8. Plan

What would come next, in this order:

1. *Sessions*: velocity and rotation around an authorization, composed with `Authorize`: two
   one-tap payments between check and record, two rotations of one token.
2. *Recovery challenges*: guesses and resends against one counter. *Relayer*: caps and replay
   guard over a restart.
