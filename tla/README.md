# Verification of the wallet, Rewards contributions and the ads account

This directory holds TLA+ models, TLC configurations and TLAPS proofs about the
parts of this browser that move money:

- the **wallet's transactions** (`src/components/brave_wallet`): how an Ethereum,
  Filecoin or Solana transaction is approved, signed, published, followed, replaced
  and finally confirmed or given up;
- **Rewards contributions** (`src/vendor/bat-native-ledger`): how tips, monthly tips
  and automatic contributions take tokens or an external wallet's funds and pay
  publishers;
- the **ads account** (`src/vendor/bat-native-ads`): how viewed ads become
  confirmations, payment tokens and finally credit.

In all of them answers come late, twice or never, several operations want the same
record, timers run, and the process may end between any two steps. `PROJECT.json`
maps every definition to the lines it models.

Wallet paths are relative to `src/components/brave_wallet/browser/`, ledger paths to
`src/vendor/bat-native-ledger/src/bat/ledger/internal/`, ads paths to
`src/vendor/bat-native-ads/src/bat/ads/internal/account/`, unless they say otherwise.

## 1. Inventory

The repository is a layer over Chromium. Most of it extends Chromium classes, shows
data, or is generated or vendored; the parts with state machines of their own are the
wallet, rewards, ads and VPN. This project takes the first three.

| Component | State it keeps | Operations | Interacts with |
|---|---|---|---|
| `EthTxManager` (`eth_tx_manager.cc`) | `known_no_pending_tx_`; copies of records bound into callbacks | add, edit gas/data/nonce, reject, approve, publish, sign only, hardware nonce/message/signature, speed up, cancel, retry | store, trackers, keyring, JSON-RPC |
| `EthPendingTxTracker` | `network_nonce_map_`, `dropped_blocks_counter_` | update pending, on receipt, on network nonce | store, JSON-RPC |
| `FilTxManager`, `FilNonceTracker`, `FilBlockTracker` | copies of records in callbacks | add, approve, reject, retry, hardware message and signature, state search | store, nonce tracker, keyring, JSON-RPC |
| `SolanaTxManager`, `SolanaBlockTracker` | cached `latest_blockhash_`, copies in callbacks | add, approve, reject, hardware message and signature, heights, signature statuses, drop | store, keyring, JSON-RPC |
| transaction store (`tx_state_manager.cc` and one per coin) | prefs: network → id → record | add or update, get, delete, retire, by status | the selected network decides which dictionary is read or written |
| `TxManager` and block trackers | a timer, the current block | start or stop, poll, keyring observer | keyring (mojo observer), JSON-RPC |
| nonce trackers (`nonce_tracker.cc`, `eth_nonce_tracker.cc`) | a lock that is never contended (one sequence) | next nonce | store, JSON-RPC |
| `KeyringService` | keyrings in memory (empty = locked) | lock, auto-lock, unlock, create, reset, sign | observers of its notifications |
| `JsonRpcService` | the selected network per coin | requests, set network | nodes |
| `BraveWalletService` | queues of page requests | reset | resets the others |
| confirmation panel (`src/components/brave_wallet_ui/.../footer.tsx`), one for all coins | is the button disabled, length of the queue | confirm, reject, reject all | `ApproveTransaction`, `RejectTransaction` |
| Rewards contributions (`contribution/contribution*.cc`, `uphold/uphold_transfer.cc`) | tables `contribution_queue`, `contribution_info` with its publishers; `queue_in_progress_`, the queue and retry timers | enqueue, process the queue, start by source of funds, reserve, prepare, redeem, transfer, retry, complete, resume on start | database worker, token server, external provider |
| unblinded tokens (`database/database_unblinded_token.cc`) | table of tokens: reserved, spent, owner | spendable, reserve, spend, release | contributions |
| ads account (`account.cc`, `confirmations/`, `utility/`) | unblinded and payment tokens, failed confirmations, wallet, issuers, three timers, `is_processing_` flags, the transactions table | deposit, confirm, retry, refill, redeem payment tokens, set wallet, reset, reset on migration | ads server, transactions database |
| promotions, ads serving, page providers, VPN, shields, ... | see `PROJECT.json` | | not modelled |

How they run. Everything in the wallet runs on the browser's one sequence; a ledger
and an ads library run on one sequence each. A handler is therefore atomic, and an
action models it whole. The concurrency is between a request and its callback:
`ApproveTransaction` asks for a nonce and keeps a *copy* of the record in the callback;
`OnPublishTransaction` keeps an *id* and looks the record up again, in the network
selected by then; a contribution's handler keeps an id and the step it believes in; a
confirmation leaves the retry queue before its answer comes, and its answer is bound to
an object that a migration may replace meanwhile. Keyring notifications are
mojo messages, handled after the fact; the ledger's database is a worker that answers
in order per transaction but interleaves contributions, and whose writes may fail.

The hard behaviours, each with the line where it bites, are the `hazards` of
`PROJECT.json`: stale copies written back, late answers, answers for another network's
store, double approval, locks in between, lost answers followed by retries, restarts
between saving and publishing, expiry judged by an old height, flags that every way
out of a chain of handlers has to clear, timers that fire after their reason has gone.

What makes the components correct:

- **Transaction managers**: only approved transactions are signed and reach a node, a
  payment is executed at most once, what is shown as confirmed was executed, what is
  shown as dropped never will be, what is settled stays so.
- **Ethereum pending tracker**: a transaction is given up only when its nonce is
  consumed, and every submitted one is eventually resolved.
- **TxManager**: the timer runs whenever something is pending and the wallet is unlocked.
- **Nonce tracker**: no consumed nonce, no hole.
- **Store**: retirement removes only the oldest decided records beyond the limit.
- **Contributions**: none waits for two things, an unfinished one waits for one and the
  queue never wedges (as long as what they write is written), a token pays once, a wallet
  is charged once per start, final steps are final, reserved tokens do not stay reserved.
- **Ads account**: an open confirmation is in one place, a token is presented for one ad,
  earnings are kept until credited or reset, and refilling, retrying and paying out never
  stop.

## 2. Modules

| Module | Models | Correspondence |
|---|---|---|
| `NonceTracker` | `NonceTracker::GetFinalNonce`, `EthNonceTracker` | pure operators; nonces as sequences in dictionary order, the loops as folds |
| `NonceTrackerProofs` | theorems about `NonceTracker` | TLAPS |
| `TxStateManager` | the store of one network | pure operators on `id -> record or NoTx` |
| `TxStateManagerProofs` | theorems about saving and retiring records, for any coin | TLAPS |
| `TxManager` | when the timer runs, what notices do | pure operators |
| `EthPendingTxTracker` | the decisions of the pending tracker | pure operators on a store and the two maps |
| `EthTxManager` | the Ethereum manager and everything around it | variables, one action per handler, callback, notice, and step of the chains |
| `EthTxManagerProperties` | what should hold of it | type invariant, safety, action and liveness properties, refinement mapping |
| `WalletPayments` | the abstract wallet: consent, offer, execute at most once | abstract specification |
| `EthTxManagerProofs` | theorems about `EthTxManager`: types, signatures | TLAPS |
| `EthPaymentProofs` | theorems about its records and payments; the refinement of `WalletPayments` | TLAPS |
| `FilTxManager`, `FilTxManagerProperties` | the Filecoin manager; what should hold of it, of the nonce tracker and of the store | as for Ethereum |
| `FilTxManagerProofs` | theorems about `FilTxManager` | TLAPS |
| `SolanaTxManager`, `SolanaTxManagerProperties` | the Solana manager; what should hold of it | as for Ethereum |
| `SolanaTxManagerProofs` | theorems about `SolanaTxManager` | TLAPS |
| `UnblindedTokens` | the queries on the table of tokens | pure operators on `token -> [owner, reserved, spent]` |
| `RewardsContribution`, `RewardsContributionProperties` | queue, contributions, token server, external provider; what should hold | tables, answers, requests, one action per handler |
| `RewardsContributionProofs` | theorems about `RewardsContribution` | TLAPS |
| `AdsAccount`, `AdsAccountProperties` | the ads account and its server; what should hold | one record of objects, one action per handler |
| `AdsAccountProofs` | theorems about `AdsAccount` | TLAPS |
| `MCEthTxManager`, `MCFilTxManager`, `MCSolanaTxManager`, `MCRewardsContribution`, `MCAdsAccount` | the instances of the `.cfg` files | values for constants that a `.cfg` cannot write |

The three managers EXTEND the shared operator modules: each composes the store and the
timer, Ethereum and Filecoin also the nonce tracker, Ethereum the pending tracker.
`RewardsContribution` EXTENDS the table of tokens.

### Wallet

How state corresponds (Ethereum; the other two analogous): `chain` (`network`) is
`JsonRpcService::chain_ids_` of the coin; `txs` the pref `kBraveWalletTransactions`;
`locked` is `IsLocked`; `notices` the mojo pipe to the manager; `running` and `blockRpc`
the block tracker's timer and its request; `nonceMap` and `dropCounter` the tracker's
maps; `nonceRpc`, `sendRpc`, `receiptRpc`, `countRpc`, `gasRpc`, `searchRpc`,
`blockhashRpc`, `heightRpc`, `statusRpc` requests with what their callbacks have bound;
`device` what a hardware device is asked to sign; `latest` Solana's cached blockhash.
`pool`, `mined` or `executed`, `reverted` or `failed`, `finalized`, `count`, `height`
are the chains, external. `approved` is a history variable.

How actions correspond: each user operation and each callback is one action of the
same name, with every save, retirement and `UpdatePendingTransactions` it performs
inside it. `Env` (`Surroundings`) selects what goes on around a run (switching
networks, locks, restarts, lost answers, ...); the plain life of a transaction is
always there. `Surroundings` is a set of such selections, and a behaviour has one.

Abstractions:

- A transaction's contents are the payment it belongs to, a version number that
  every edit and gas bump raises, whether it is a cancellation, and the account. Its
  hash is the transaction itself; a signature is contents, nonce and chain id.
  Gas prices, values, call data and encodings are not distinguished. In Filecoin and
  Solana, which have no speedups, the record stands for the contents.
- "Payment" is what a reviewer would call it: a record, its speedups, cancellations
  and retries. A retried Ethereum record without a nonce was never signed for a nonce,
  so its copy starts a payment of its own.
- Requests are sets: two requests that are equal in every bound value are one.
  Confirmation times are a clock that ticks once per confirmation.
- Receipts, searches and statuses arrive in any order; a status was true at some time
  between question and answer.
- `ResubmitPendingTransactions` has no caller. Trezor's way of fetching the message
  is the same as Ledger's here.
- After a reset the same keys are restored; new keys would only do less.
- A node accepts any validly signed transaction whose nonce is open, also a second
  one for a nonce already in its pool; a gap in the nonces keeps it waiting. Whether
  the gas suffices is not looked at. A Solana message is executed only on the network
  and within the `Validity` of its blockhash, once.
- The time for which Solana's cached blockhash is served is counted in blocks.
- The panel (`footer.tsx`) is one for all coins. `PanelOffersApproval` is its button:
  pressed, it is disabled, and it returns when the queue has another length than then
  (`"ReApprove"`), even if the first approval still waits for its nonce, its blockhash
  or the hardware wallet; the managers do not look whether one is under way. It rejects what
  its list shows as unapproved, and with `"LateReject"` its list is out of date: "Reject
  all" (`footer.tsx:67`) stays enabled during an approval, and `RejectTransaction`
  (`tx_manager.cc:80`) looks at no status. A rejection while a nonce or a blockhash is asked
  for needs no condition: the record is still unapproved then.

### Rewards contributions

`queue`, `contributions` and `tokens` are tables. A database transaction is executed
when it is issued; what the ledger still has to do with its answer is a record in
`replies` whose field `on` names the handler and whose other fields are what the
callback has bound. `requests` are the same for servers. `queueInProgress`,
`queueTimer` and `retryTimers` are memory: `Restart` keeps the tables and loses the
rest, then runs what `Contribution::Initialize` runs. `redeemedFor`, `external` and
`transfers` are the servers; `restarts` is history.

`Answered(r)` is a server's good answer handled, `Failed(r)` a failure of any kind,
`Served(r)` the server doing what it was asked without its answer having arrived: a
request that was served and then failed is the lost answer.

Writes fail while the disk is full. `disk` says how it has been since the last start:
`"well"`, `"full"`, or `"freed"` when there is room again but a write may have failed;
`DiskFills`, `DiskIsFreed` and a restart change it, and `limits` bounds how often the
first and the last may still happen. `Months` are the items that earlier months have
dealt with, and these bounds; a behaviour has one of them.
`LedgerDatabase::RunTransaction` undoes a transaction that fails, so a failed write
leaves the tables alone (`Written`), and what the handler of its answer does is what the
code does, handler by handler: most return with nothing to continue what they were
called for (`IfWritten`: `contribution.cc:411`, `461`, `690`), some report the error as a
result (`WrittenOr`, `NotSaved`), which is retried or ends the contribution, and some
never look (`contribution.cc:233`, `271`, `294`). Reads succeed. Which publishers an
automatic contribution chooses, and who gets each vote, are any choice. The rows of
`tokens` are there from the start: promotions, which add tokens, are not modelled.

### Ads account

`account` is one record of the objects that call each other before a handler returns
(the account, confirmations, refill, payout): an operator over such a record is a
method, its value what the method leaves behind, and an action runs a handler to its
end. `issued`, `created` and `credited` are the server; `posted` are confirmations on
their way to it; `fate`, `spentOn`, `captchaShown` and `restarts` are history.

A verified user is migrated by a preference the browser sets (`OnExternalWalletConnected`);
the library is told later (`OnPrefDidChange`), as it is of ads being switched on and off,
or finds it at its next start (`Process`). `MaybeResetIssuersAndConfirmations`
(`account.cc:233`) then clears tokens, queue and issuers and replaces the objects that
requests, timers and database reads under way are bound to. The timers end with their
objects. The callbacks of the others hold a pointer to memory that was freed, and what
happens when they run is undefined; of the outcomes a build can produce the model has
three: the process ends and is started again; the object is found as its destructor left
it, without a delegate, and nothing happens; or the user data that was read from the
database is used as if nothing had happened (`AnswerToDestroyed`,
`OnUserDataBuiltTooLate`). That other objects have taken the memory is left out. A
confirmation in one of the places counts as `"reset"` from then on, and so does an earned
payment token.

## 3. Runs

All bounds are constants of the `.cfg` files. Deadlock is not checked: in every run
the bounds let the user run out of ids, tokens or items, and a wallet, a ledger or an
account with nothing under way has nothing to do.

| Run | Surroundings and bounds | Properties |
|---|---|---|
| `eth_lifecycle` | one network, 2 records; lock, late call, restart, speedup, retry, edit, reject, errors | `TypeOK`, `SentWasApproved`, `LiveTxHasRecord`, `TrackerRuns`, `ConfirmedIsFinal` |
| `eth_replacement` | one payment, 3 records; speedup, cancel, retry, errors, restart, lagging nodes | `ImplementsWallet`, `DroppedOnlyWhenDecided` |
| `eth_networks` | two networks, 1 record, nonce 0; switch, reset, reject (also late), own chain ids, hand-set nonces | `SignaturesAuthorized`, `ConfirmedWasMined` |
| `eth_hardware` | a hardware account, 2 records; edit, foreign use, retry, errors, sign-only, lock | `PaidAtMostOnce` |
| `eth_reverts` | 1 record; reverts, lagging nodes, rejects (also late), sign-only, lock; fairness | `ConfirmedSucceeded`, `SubmittedIsResolved` |
| `eth_paid_twice` | see section 5 | `ApprovedPaidAtMostOnce`, violated |
| `filecoin` | 3 records, 2 networks, nonces to 3, limits 1; five surroundings from lagging nodes with lost answers to a hardware device | `TypeOK`, `NoGapBelowNextNonce`, `NextNonceNotConsumed`, `FreshWhenListedInNonceOrder`, `ConfirmedWasExecuted`, `PaidAtMostOnce`, `RetiresOldestBeyondLimit` |
| `solana` | 2 records, 2 networks, heights to 2, validity 1, 2 status requests under way; eight surroundings | `TypeOK`, `DroppedNeverExecutes`, `ConfirmedIsFinal`, `PaidAtMostOnce`, `TrackerRuns`, `SettledStaysSettled` |
| `rewards_contribution` | 2 tokens, a tip of 3, an automatic contribution of 2 to two publishers, a monthly tip of 1; 2 contributions, external funds 2, 1 retry; four months: the tip, or the two others, with 2 restarts; the tip, or the automatic contribution, with the disk full once and 1 restart | `TypeOK`, `OneContinuation`, `QueueNeverWedged`, `PaidWithRedeemedTokens`, `TransferredOncePerStart`, `FinalStepIsFinal` |
| `rewards_liveness` | 2 tokens, the automatic contribution and the monthly tip, no external funds, no restart, no full disk; fairness | `ReservedTokensAreUsed` |
| `ads` | 2 transactions, one of them a conversion, 3 tokens, refill from 1 to 2, 1 restart; five surroundings: restart and wallet change, ads and issuers on and off, failing refills, failing payouts, migration | `TypeOK`, `OpenIsInOnePlace`, `TokensAreSpentOnce`, `QueueIsServed`, `EarningsAreKept`, `ReconciledWasCredited`, `PayoutGoesOn`, `RefillGoesOn` |
| `ads_wallet_change` | see section 5 | `RetryHasWork`, violated |

Why the bounds are enough.

- *Wallet*: the hazards are races of one record with one answer, of a record with its
  replacement, or of two records with one nonce; two records show each of them, three
  are a replacement of a replacement, and two nonces are needed only to execute a
  payment twice. The limits of retirement are lowered from ten to one or two so that
  retirement happens. `eth_networks` has one record because its question is which store
  it is in and which chain a signature names. In `filecoin` three records with limits of
  one make a hole, a full limit and an undecided record exist together. In `solana` a
  blockhash expires two blocks after it was taken, and two status requests under way
  are needed for an old answer to come after a newer one.
- *Rewards*: three items compete for two tokens, so a contribution is paid from one
  source, from two, or not at all, and two contributions read the same spendable rows.
  The code retries three times; one retry already passes from "again" to "given up".
  Two restarts interrupt the recovery from an interruption. In the months with an
  outage the disk is full once, from anywhere to anywhere, so that any single write fails
  or any number in a row, before or after a restart.
- *Ads*: the code refills from 20 to 50; from 1 to 2 tokens are enough for a shortage
  and a surplus. Two transactions fill the queue with one confirmation behind another;
  one of them a conversion, whose user data is fetched first. Migration is run without
  the other surroundings; their combinations are left to the theorems, which assume
  nothing about surroundings.

Properties are stated with the conditions they need, and those are real:

- `LiveTxHasRecord` and `DroppedOnlyWhenDecided` need one account: `IsNonceTaken`
  (`eth_pending_tx_tracker.cc:131`) compares nonces across accounts.
- `TrackerRuns` (Ethereum) needs one network: `SetNetwork` does not restart a timer
  stopped because the network left had nothing pending. Solana's also needs the block
  height: a failed request returns before the timer is looked at
  (`solana_tx_manager.cc:207`).
- `PaidAtMostOnce` needs a panel that sends one approval per record, for every coin: the
  code does not guarantee it, and `eth_paid_twice` shows what happens (section 5 for
  the others). So do all the properties of Filecoin and Solana
  that are proved under `PlainUse`, whose runs are without `"ReApprove"`. For Ethereum
  it also needs that no record is rejected after its approval, no hand-set nonces, and one
  network; `ConfirmedIsFinal` no hand-set nonces in the hardware flow, where a late nonce
  answer writes an old copy over the record (`eth_tx_manager.cc:442`), and no late
  rejection, which overwrites a status. Filecoin and Solana are run with late
  rejections; `SettledStaysSettled` excepts the rejection itself.
- `SubmittedIsResolved` needs no foreign replacement and no revert of the
  *replacing* transaction: the loser is dropped only for a *confirmed* record with
  its nonce. `eth_reverts` therefore has a single record.
- Filecoin and Solana are checked with a user who switches networks only between
  requests. With `"SwitchMeanwhile"` a Filecoin message is recorded under a network it
  was not sent to, a Solana record is judged by another network's height, and
  `ConfirmedWasExecuted`, `DroppedNeverExecutes`, `ConfirmedIsFinal` and
  `SettledStaysSettled` do not hold of the code.
- `FreshWhenListedInNonceOrder` needs ids that list the nonces in order: the loop of
  `GetHighestContinuousFrom` makes one pass, and ids are random.
- `OneContinuation` and `QueueNeverWedged` (Rewards) say two things. That nothing is
  driven twice holds whatever is written. That nothing is forgotten holds as long as
  `disk` is `"well"`: after a failed write it may be, until the next start, and the code
  does forget (`contribution.cc:411`, `461`, `690`). The other properties of contributions
  hold whether writes succeed or fail.
- `ReservedTokensAreUsed` assumes that writes succeed (`rewards_liveness` has
  no outage): a contribution whose retry counter could not be written keeps its
  tokens reserved until the next start.
- `OpenIsInOnePlace` and `EarningsAreKept` (ads) do not count what a reset removes, the one
  for another wallet or the one that migrates a verified user.
- `QueueIsServed` is about viewed ads: the confirmation of a conversion is appended to
  the queue when nobody starts the timer.
- `RefillGoesOn` ends in a captcha, which the user has to solve.
- `ReservedTokensAreUsed` leaves out tokens the server has taken for something else: a
  contribution that failed after the server had redeemed its tokens releases them, and
  whoever reserves them next asks for what cannot be had until its retries are used up.

Fairness. `Fairness` in `EthTxManager`: nodes answer, the mojo pipe delivers,
chains go on mining what they have accepted, and a locked wallet is unlocked some
time. Polling is strongly fair, because a lock stops the timer in between: every
unlock restarts it, and the chain goes on producing blocks, so one of the polls
finds a new block. Nothing obliges the user to approve, speed up or lock. A node
that loses answers (`RpcError`) is excluded: the code does not promise anything then.
`Fairness` in `RewardsContributionProperties`: whatever a contribution waits for comes,
the answer (if only an error: requests have timeouts, the database always answers, and
succeeds in this run) or its timer; and a server that is asked again and again for
something it can do does it some time, and one of its answers arrives, which is what
retrying for ever relies on.

## 4. Proofs

TLC evaluates the named ASSUMEs a proof uses on every run of the module.

### EthTxManagerProofs

For every set of networks, accounts and ids, every bound and every `Env`:

- `Invariance`: `Spec => []IInv`
- `TypeCorrect`: `Spec => []TypeOK`
- `SignaturesAlwaysAuthorized`: `Spec => []SignaturesAuthorized`
- `SentAlwaysApproved`: `Spec => []SentWasApproved`

The assumptions are the named ASSUMEs of `TxStateManager` and `EthTxManager`:
finitely many ids that are numbers, bounds that are numbers, and special values
(`NoTx`, `NoSig`, `NoHash`, `NoNonce`, `NoChain`) different from ordinary ones.

`SentWasApproved` is not inductive: a node accepts what a request carries, so
requests must be right; a request carries what a nonce callback signed, so the
copies bound there must be approved; and with the wallet locked
`SignTransactionByDefaultKeyring` leaves the signature a copy came with, so every
signature in every record of every network, every copy waiting for its gas price
and every message on a device must already be covered by an approval. `IInv` says
so: `GoodTxs(A)` are transactions whose signature, if any, is covered by the
approvals `A`, and records, stores and requests are built of them. The sets are
monotone in `A` (`GoodMonotone`), which is why approving more disturbs nothing.
Lemmas per helper (`SaveType`, `UpdatePendingType`, `SignAndPublishType`, ...) say that
the helper stays within these sets; there is one lemma per action, and `NextInv`
joins them.

### EthPaymentProofs

For every set of networks, accounts and ids, every bound and every `Env`:

- `PaymentInvariance`: `Spec => []PaymentInv`
- `ConfirmedWasMinedAlways`: `Spec => []ConfirmedWasMined`

if `"SwitchChain"` is not in `Env`:

- `TrackerRunsAlways`: `Spec => []TrackerRuns`

and under `PlainUse`, an `Env` without `"SwitchChain"`, `"ReApprove"`, `"SetNonce"` and
`"LateReject"`:

- `ConfirmedIsFinalAlways`: `Spec => ConfirmedIsFinal`
- `ConfirmedSucceededAlways`: `Spec => []ConfirmedSucceeded`
- `PaidAtMostOnceAlways`: `Spec => []PaidAtMostOnce`
- `WalletImplemented`: `Spec => ImplementsWallet`, the refinement of `WalletPayments`

under `SingleAccount`, which is `PlainUse`, an `Env` without `"Reset"`, and one account:

- `DroppedOnlyWhenDecidedAlways`: `Spec => DroppedOnlyWhenDecided`
- `LiveInvariance`: `Spec => []LiveInv`

and, if there is one network as well:

- `LiveTxHasRecordAlways`: `Spec => []LiveTxHasRecord`

The hypotheses are limits of the code, not of the proof. `SetNetwork` does not restart
the tracker; an answer is looked up in the network selected when it arrives; a second
approval of a record pays twice (`eth_paid_twice`); a rejection after the approval
overwrites the status of what was sent; a nonce set by hand can give the
copies of one payment two nonces; `IsNonceTaken` does not compare accounts, and drops a
live transaction of one account because another account's is confirmed with the same
nonce; a reset forgets what was sent; and a page may have a transaction signed for a
network that is not the selected one. The runs of these properties (`eth_lifecycle`,
`eth_replacement`, `eth_hardware`, `eth_networks`) satisfy the hypotheses
of the theorems about them (`eth_reverts` checks `ConfirmedSucceeded` with late
rejections as well, for one record), with speedups, retries, edits, lost answers, locks and
restarts. Foreign transactions, reverts and lagging nodes are covered as well, and
`Reset` in the theorems that do not assume `SingleAccount`.

Each step does one of seventeen things to rows and requests: a row is added,
copied for a speedup, edited, signed, numbered, submitted, confirmed and so on, and
other rows may go (`Kind`, with one operator for each: `KAdded`, `KCopied`, ...). Lemma
`KindOfStep` says so of every step; the invariants are proved of the kinds.

- `PaymentInv`: whatever there is of an id (rows, copies bound to nonce requests,
  messages on devices and under way, receipts asked for) belongs to one payment. That is
  what makes `ConfirmedWasMined` inductive: a receipt asked for under a hash of the
  payment can only confirm a record of that payment.
- `TrackInv`: while something is pending, the tracker does not believe that nothing is,
  and its timer runs unless a keyring notice is still to come. A record becomes pending
  in `OnPublishTransaction` and `SignAndPublish` only, where the pending maps are
  refreshed and the timer started; every other update only takes pending ones away.
- `StageInv`: an id waits for one thing at a time, for a nonce, a device, a node or
  receipts, and its row is as that stage wants it (`InStage`, `Settled`): while a node is
  asked, the row is `Approved` and its transaction the one sent; receipts are asked for
  with the hash of the row. A late answer therefore finds a row that it is about.
- `PayInv`: all transactions of a payment have one nonce (`OneNonce`), or none yet
  and only one record (`WithoutNonce`); a chain executes what was sent to it, and one
  transaction for each nonce (`Executes`). `PaidAtMostOnce` follows: two executions of
  a payment would be two executions of a nonce.

- Why a row goes: `WhyItLeaves` shows, handler by handler, that a row that is gone was
  retired (confirmed or rejected, with more of them than are kept), had its nonce taken
  by a confirmed row, failed on the chain, was just being signed and could not be, or
  went in a reset (`Leaves`).
  With `StageInv`, `Executes` and `RevertedRan` (what has failed was executed) each
  reason that concerns an approved transaction means that its nonce is used up:
  `GoneIsCounted`, from which `DroppedOnlyWhenDecided` follows.
- `LiveInv`: the record of a transaction that is being sent is there
  (`SendingStays`), and of each accepted transaction whose nonce is open some record
  holds exactly that transaction. The first part makes the second inductive: when a node
  accepts, there is a record to hold it; after that `GoneIsCounted` keeps the record
  until the count has passed the nonce, and counts only grow.

For the refinement, `StepOfWallet` says what a step of the manager does to the variables
of `WalletPayments` (it approves contents, a node accepts a transaction, a chain executes
one, or nothing); `ApprovalConsents`, `AcceptanceOffers` and `MiningExecutes` show that
each is the abstract step. `MiningExecutes` needs `PayInv`: the abstract wallet
executes only a payment that was not executed yet.

### RewardsContributionProofs

For all items, publishers, tokens, contributions, retry limits, external funds,
restarts and times the disk is full:

- `Invariance`: `Spec => []IInv`
- `TypeCorrect`: `Spec => []TypeOK`
- `OneContinuationAlways`: `Spec => []OneContinuation`
- `QueueNeverWedgedAlways`: `Spec => []QueueNeverWedged`
- `TransferredOncePerStartAlways`: `Spec => []TransferredOncePerStart`
- `FinalStaysFinal`: `Spec => FinalStepIsFinal`
- `PaidInvariance`: `Spec => [](PaidInv /\ SpentHasOwner)`
- `PaidWithRedeemedTokensAlways`: `Spec => []PaidWithRedeemedTokens`

The assumptions are the named ASSUMEs of `UnblindedTokens`, `RewardsContribution` and
`RewardsContributionProperties` (numbers, finitely many publishers, special values that
are no ordinary ones).

`OneContinuation` is not inductive: it counts what a contribution waits for but not
what its row says, and a handler that writes a step must know that nobody else will
write one. `IInv` relates the two, contribution by contribution: `WaitsForOne(c)` says
which continuation goes with which step, so that whoever handles an answer is alone
with its contribution, and that a finished one can only be waiting for
`ContributionCompletedSaved`, which writes nothing. Failed writes weaken it in one
place: a contribution may then wait for nothing, or for `ContributionCompletedSaved`
with its final step not written, and that it waits for one thing is said only while
`disk` is `"well"`; that it does not wait for two is said always, and no handler needs
more than that. That a final step is never written
over follows from it. `TransferredOncePerStart` needs `TransfersBounded(c)`: before the
transfer of this start there were at most `restarts` of them, and a contribution that
is past its transfer waits for something that does not transfer again. Handlers fall
into a few kinds, and each kind is a lemma: `GoesOn` (one answer replaced by the next),
`WaitsForTimer`, `Ends`; there is one lemma per handler, and other contributions are
untouched (`OwnRow`, `RowsKept`).

`PaidWithRedeemedTokens` has an inductive invariant of its own, `PaidInv`, proved on top
of `IInv` (TLC checked it first, on instances of two contributions with two and with
four tokens). For each contribution it says:

- `TokensOf`: only who pays with tokens owns any; an unspent token it owns is reserved,
  and every row before that one is spent or its own; a spent one was redeemed for one
  of its publishers.
- `Backed`: before `PREPARE`, who pays with tokens owns as many as the amount or none at
  all, nothing is spent and at least the amount is due; in `PREPARE` it owns as many as the
  amount, or has none reserved while some publisher is unpaid (others were in its rows,
  or its tokens were released although its final step could not be written, and the next
  start resumed it), and the tokens still reserved are no more than what is still due; a
  completed contribution has spent its amount.
- `Carries`: what is true while an answer is in flight. A list of rows read from the
  table is still what the table holds; the publisher of a request is unpaid and its
  tokens are the first of the reserved ones; the request called final is for the last
  publisher that is unpaid; the server has redeemed the tokens of a request it handled.

The argument: tokens are taken in the order of their rows and a contribution that marks
tokens a second time, after a restart between the mark and the step, would meet its own
first (`NotMarkedTwice`): the statement then marks nothing, so nobody owns more than
its amount. (The check that follows looks at `reserved_at` only, so a contribution may
go on with rows others have reserved: it then owns none.) Each publisher takes as many tokens as it
is due, or all that are left (`TakesAtMost`, `TakesEnough`), so the reserved tokens stay
within what is due (`OnRedeemTokensPaid`), and when nobody is unpaid none is left
(`AllPaid`): all that are owned, the amount, are spent. A contribution that has none
left to give while a publisher is unpaid retries and never completes. An answer
`NotSaved` leads to a retry or to `FAILED`, never to `COMPLETED`. What is due is a
sum over publishers, and induction over data is out of the prover's reach: `Due` is
therefore a set of units, `<<publisher, 1>>` to `<<publisher, n>>` for a publisher that
is due n, and its size is handled by the library's facts about cardinality
(`DueWithout`: a publisher that is paid takes no more than its units away;
`VotesAreDue`: the votes drawn for an automatic contribution are mapped one by one into
units). `SpentHasOwner` says that a spent row names a contribution.

### NonceTrackerProofs

For every network nonce and all sequences of confirmed and submitted nonces, of any
length and in any order:

- `HighestConfirmedBounds`: the search starts at the network's nonce or later, and above
  every confirmed nonce;
- `FinalNonce`: every nonce from there to the one handed out belongs to a submitted
  transaction, and if the submitted ones are listed in increasing order, the one handed
  out is none of them.

The two loops of `EthNonceTracker` are folds, and what a fold computes is a fact about
all lengths. It is proved without an induction rule: a fold is a sequence of
intermediate results (`FoldExists`, `LocallyConfirmedIsPass`, `ContinuousIsPass`), and
a claim about each of them that fails has a least position where it fails
(`LeastNatural`), which contradicts the step that leads there. The last conjunct is
false without the order, and a store lists records by id, not by nonce: that is why
`FreshWhenListedInNonceOrder` has its hypothesis.

### TxStateManagerProofs

`AddOrUpdateRetires`: if saving a record takes another away, it is confirmed or
rejected, at least the limit's number of records of its status stay, and none of those
is older. It is stated for stores of any records with an age (`Aged`), and used for
those of Filecoin; what saving does to other records (`AddOrUpdateEffect`) also for
those of Solana.

### FilTxManagerProofs

For all networks, record ids and bounds:

- `TypeCorrect`: `Spec => []TypeOK`, in all `Surroundings`
- `RetiringTakesOldest`: `Spec => RetiresOldestBeyondLimit`, in all `Surroundings`

and for all `Surroundings` that satisfy `PlainUse` (the panel sends one approval for a
record, and nobody switches the network between a request of an approval and its
answer), which those of `filecoin` do, late rejections included:

- `Invariance`: `Spec => []IInv`
- `NoGapAlways`: `Spec => []NoGapBelowNextNonce`
- `NextNonceNotConsumedAlways`: `Spec => []NextNonceNotConsumed`
- `FreshInNonceOrderAlways`: `Spec => []FreshWhenListedInNonceOrder`
- `ConfirmedWasExecutedAlways`: `Spec => []ConfirmedWasExecuted`
- `PaidAtMostOnceAlways`: `Spec => []PaidAtMostOnce`

The hypothesis is again a limit of the code: the panel's button may return while the
first approval waits for its nonce (`footer.tsx:45`), and a second approval pays twice
(section 5); with a switch the nonce of one network is used on another, and the answer about a message sent to one is written into a record
under the other, even into one that has no nonce yet, for which the assertion of
`fil_nonce_tracker.cc:52` fails. The assumptions are the named ASSUMEs of
`TxStateManager` and `FilTxManager`.

The properties of the nonce in a reachable state follow from `FinalNonce`, provided that
every submitted or confirmed record has a nonce, which is part of `RowOK`. That two
messages are never executed for one record is not inductive: `IInv` says that each id is
in one stage (`OneStage`), that a message known to a network is the only one of its id
(`OneMessage`) and the one still being sent, if any (`CopiesOK`), that a record is
stored under one network, the selected one while it is being approved (`OneHome`), and
that the message searched for is that of the row, so that a late answer cannot confirm
another. As for Solana, `QuietStep` covers whatever adds nothing for an id, and there is
one lemma for each handler, joined by `NextInv`.


### SolanaTxManagerProofs

For all networks, record ids, validities, bounds and `Surroundings` that satisfy
`PlainUse` (the panel sends one approval for a record, nobody switches the network while
requests are under way, and switching and `Reset`, which selects the default network,
are not combined), which the instance of `solana` does, late rejections included:

- `Invariance`: `Spec => []IInv`
- `TypeCorrect`: `Spec => []TypeOK`
- `DroppedNeverExecutesAlways`: `Spec => []DroppedNeverExecutes`
- `ConfirmedIsFinalAlways`: `Spec => []ConfirmedIsFinal`
- `PaidAtMostOnceAlways`: `Spec => []PaidAtMostOnce`
- `SettledStaysSettledAlways`: `Spec => SettledStaysSettled`
- `TrackerRunsAlways`: `Spec => []TrackerRuns`

The hypothesis is a limit of the code, not of the proof: the panel's button may return
while the first approval waits for its blockhash (`footer.tsx:45`), and a second approval
pays twice (section 5); a switch or a reset under a request lets one network's
answer settle another network's record, and three of the properties do not hold
(section 3). The assumptions are the named ASSUMEs
of `TxStateManager` and `SolanaTxManager`.

None of the properties is inductive. That a dropped message cannot be executed depends
on what the status request knew when it was sent and on the row still carrying the
signature asked about; that a payment is made once depends on nobody else being about
to send it. `IInv` says of each id what there is of it: its row under one network
(`OneHome`), which stage it is in (`OneStage`: waiting for a blockhash, on a device, on
its way to the node, or asked about, and nothing of the earlier stages is left when a
later one begins), what the copies bound to requests and devices still agree with
(`CopiesOK`), and that a question's old answer stays true until it arrives
(`Foretold`, in `QueriesOK`). `RowOK` ties the row to the chain: a dropped row's message
is past its last valid height, a confirmed one's is final. `QuietStep` covers whatever
adds nothing for an id, `NewStage` whatever moves it on, `GrowsStep` the networks; there
is a lemma for each handler, and `NextInv` joins them. `TrackerRuns` has an invariant of
its own, `PollInv`: while something is submitted, the belief that nothing is pending and
a timer that stands still are only there until a height that has been asked for, or a
keyring notice, arrives.
### AdsAccountProofs

For all transactions, conversions, token limits, surroundings and restarts:

- `Invariance`: `Spec => []IInv`
- `TypeCorrect`: `Spec => []TypeOK`
- `OpenInOnePlace`: `Spec => []OpenIsInOnePlace`
- `SpentOnce`: `Spec => []TokensAreSpentOnce`
- `QueueServed`: `Spec => []QueueIsServed`
- `EarningsKept`: `Spec => []EarningsAreKept`
- `ReconciledCredited`: `Spec => []ReconciledWasCredited`
- `PayoutOnward`: `Spec => []PayoutGoesOn`
- `RefillOnward`: `Spec => []RefillGoesOn`

The assumptions are the named ASSUMEs of `AdsAccount`: bounds are numbers,
`MinimumTokens` is at most `MaximumTokens`, the server has as many tokens as an
account may start with, and only transactions are conversions.

None of the properties about confirmations and tokens is inductive. That a token is
presented for one transaction only depends on tokens that were not presented yet:
`TokensOK` keeps apart those in hand, those that a confirmation in any of the three
lists claims, and those presented, and says that two claims of one token are of one
transaction, and that the server has not handed out a number twice. That an open
confirmation is in one place needs the lists to be disjoint by transaction
(`PlacesOK`), and that together they hold exactly the open ones. A reset or a restart
empties lists, and what it calls "reset" or "lost" must be what was in them. The reset of
a migration does so for all three lists at once, and a callback that is still bound to
a replaced object may put into the queue what was in one of them: `DanglingOK` says that
its transaction was called "reset" and is therefore in none.
`EarningsAreKept` needs that a payment token is only held for a transaction that has
earned one, and that those sent are credited before they are removed; `PayoutGoesOn`
that nothing is sent while a timer runs. A refill must not bring more than there is
room for (`RefillOK`), or the next request would ask for a negative number: what was
asked for was computed from an earlier number of tokens, and in the meantime there can
only be fewer, because one refill runs at a time.

The lemmas follow the code. What each method leaves behind is one lemma (`TopUpEffect`,
`AppendNewEffect`, `RedeemEffect`, ...), in terms of a few relations between the objects
before and after: `Placed(s, t, c)`, the confirmation `c` was put in one place, with its
own token or one from the account; `Left(s, t)`, no confirmation came or went. A handler
takes a confirmation out of a list (`DrawnFromQueue`, `DrawnFromRequests`,
`DrawnFromBuilding`), has it in hand (`InHand`), maybe presents it (`PresentedInHand`),
and puts it down (`PutDown`) or lets it go (`LetGo`).

### Only model-checked

Every safety property of the passing runs is stated by a theorem. What is left to TLC:

- Liveness (`SubmittedIsResolved`, `ReservedTokensAreUsed`): the prover does neither
  fairness nor ENABLED.

## 5. Where code and documentation disagree

- `eth_paid_twice`: `footer.tsx:59` disables the button "to prevent being clicked again
  and submitting the same transaction". A transaction arriving in the queue enables it
  again (`footer.tsx:45`); `ApproveTransaction` does not look at the status; the payment
  is made twice, with two nonces.
- `ads_wallet_change`: `confirmations/confirmations.cc:141` asserts
  `DCHECK(!failed_confirmations.empty())` before `OnRetry` takes the front of the queue.
  A wallet that changes (`account.cc:214`) empties the queue and leaves the retry timer
  running; when it fires, there is no front. In the model the handler ends there
  (`OnRetryWithoutWork`).

Observations without a run of their own:

- What `eth_paid_twice` shows holds for Filecoin and Solana too: the panel is the same, and
  their `ApproveTransaction` (`fil_tx_manager.cc:141`, `solana_tx_manager.cc:82`) looks
  at the status no more than Ethereum's. A second transaction arrives while the first
  waits for its nonce or its blockhash, the first is approved again, and two messages are
  executed: `PaidAtMostOnce` is violated as soon as `MCSurroundings` has a `"ReApprove"`.
- `eth_tx_manager.cc:595` says of the record of a published transaction that it "should
  be found". It is looked up in the network selected when the node answers; after a
  switch it is not there, and the record stays `Approved` while the chain executes it.
- `eth_tx_manager.cc:549` asserts that the wallet is unlocked when the nonce has
  arrived; the auto-lock timer may fire during the request.
- `brave_wallet.mojom:995` says of sign-only transactions that "dapps will submit the
  transaction"; `ProcessHardwareSignature` (`eth_tx_manager.cc:481`) publishes them.
- A record left `Approved` by a restart, a lock or a lost answer stays so for good.
- Retirement deletes at most one record per added one, so a count that has grown past
  ten by confirmations stays there.
- After a double approval whose second nonce request fails, the record of a signed
  transaction is written back without a nonce, and if it is then submitted, the
  assertion of `eth_nonce_tracker.cc:52` ("Not supposed to happen for a submitted tx.")
  does not hold.
- A transaction replaced from another wallet is polled for ever.
- A Solana transaction whose message had a blockhash already gets 0 as its last valid
  height (`solana_tx_manager.cc:306`), which means that it never expires: it is polled
  for ever when its blockhash has.
- When the balance of the wallets cannot be read, the pass over the contribution queue
  ends (`contribution/contribution.cc:198`), and nothing starts the next one until
  another item is saved or the process restarts.
- A contribution or the rest of its queue item that could not be saved
  (`contribution/contribution.cc:411`, `461`) leaves `queue_in_progress_` set: no pass
  starts before the next start of the process.
- A retry counter that could not be written (`contribution/contribution.cc:690`) leaves its
  contribution with nothing that resumes it before the next start.
- A failed write of `MarkContributionQueueAsComplete` is ignored
  (`contribution/contribution.cc:294`): the item, already processed, is the first of the
  queue again, and is paid once more.
- `MaybeResetIssuersAndConfirmations` (`account.cc:233`) destroys objects that requests
  under way are bound to by a plain pointer, so their answers use freed memory.

## 6. Not modelled, and what is left

The components marked `not_modelled` in `PROJECT.json` each have their reason there.
They fall into three groups:

- *No state machine*: content filtering, codecs, caches of server data, views, Chromium
  overrides and patches, resources. By far most of the repository's lines are of this
  kind, or generated (`src/win_build_output`), vendored, tests or UI.
- *State in Chromium*, which this repository does not contain: content settings,
  ephemeral storage, sync, permissions.
- *Candidates*, in this order: promotions (claiming, blinding and unblinding tokens, the
  source of what contributions spend); automatic contributions from an external wallet
  (orders and SKUs); `BraveWalletService`'s queues of page requests, each to be answered
  once through navigation, reset and lock; accounts and discovery in `KeyringService`; VPN
  connection states against purchase states.

Left out inside modelled parts: the data of gas estimation, Solana's instructions, other
custodial providers than Uphold, fees, publishers' votes (any choice), reads of the
ledger's database that fail, reused memory after the ads account's migration, statements, the
catalog, and issuers as other than present or missing.

Proofs left: the refinement of `WalletPayments` for several networks, whose hypothesis
would be that the user switches only while nothing is under way.
