------------------------------ MODULE AdsAccount ------------------------------
(***************************************************************************)
(* The account of the ads library (bat-native-ads, account/).  A viewed ad *)
(* becomes a transaction, and a confirmation spends an unblinded token to  *)
(* have the transaction paid: it is created at the server, then a payment  *)
(* token is fetched for it.  Payment tokens are redeemed in bulk, now and  *)
(* then, to the wallet; unblinded tokens are refilled when few are left.   *)
(*                                                                         *)
(* What the objects of the library keep is one record, account, because a  *)
(* handler calls from object to object before it returns: an operator over *)
(* such a record s is a method, its value what the method leaves behind.   *)
(* An action runs a handler to its end.                                    *)
(*                                                                         *)
(* Lists of tokens are sets: unblinded tokens are numbered in the order    *)
(* they are added, and the order of payment tokens decides nothing.  State *)
(* is written to the disk in order and before the process ends.            *)
(***************************************************************************)
EXTENDS Naturals, Sequences, FiniteSetsExt, FiniteSets

CONSTANTS Transactions,      \* possible transactions
          Conversions,       \* those whose user data is in the database
          MaxTokens,         \* bound: unblinded tokens the server has
          MinimumTokens,     \* kMinimumUnblindedTokens: 20
          MaximumTokens,     \* kMaximumUnblindedTokens: 50
          Surroundings,      \* sets of things that happen around the account
          MaxRestarts        \* bound: restarts

ASSUME TransactionsAssumption == Conversions \subseteq Transactions
ASSUME TokensAssumption ==
  /\ MaxTokens \in Nat /\ MinimumTokens \in Nat /\ MaximumTokens \in Nat
  /\ MinimumTokens <= MaximumTokens /\ MaximumTokens <= MaxTokens
ASSUME BoundsAssumption == MaxRestarts \in Nat

Events == {"AdsOnOff", "ChangeWallet", "Issuers", "Migrate", "PayoutErrors",
           "RefillErrors", "Restart"}

ASSUME SurroundingsAssumption == Surroundings \subseteq SUBSET Events

VARIABLES
  env,            \* what happens around this account
  account,        \* the objects of the library and what they have saved
  resetting,      \* the transactions of a former wallet are being removed
  transactions,   \* the table: "none", "unreconciled" or "reconciled"
  posted,         \* confirmations on their way to the server
  \* What the server knows.
  issued,         \* unblinded tokens handed out
  created,        \* transaction -> {} or the token it was created with
  credited,       \* transactions whose payment tokens were redeemed
  \* History.
  fate,           \* what has become of the confirmation of a transaction
  spentOn,        \* token -> transactions it was presented for
  captchaShown,   \* the refill was answered with a captcha
  restarts        \* how often the process was restarted

server  == <<issued, created, credited>>
history == <<captchaShown, restarts>>
vars    == <<env, account, resetting, transactions, posted, server, fate,
             spentOn, history>>

Tokens  == 1..MaxTokens
NoToken == 0        \* a confirmation without opted_in

\* Wallets: none, the first and the one that replaces it.
Wallets == {0, 1, 2}

Fates == {"none",      \* not viewed
          "open",      \* a confirmation is on its way
          "earned",    \* a payment token was obtained
          "sent",      \* confirmed for a user who is not rewarded
          "refused",   \* given up on an answer of the server
          "dropped",   \* there was no token to confirm it with
          "lost",      \* a restart came before the answer
          "reset"}     \* removed by a reset

Confirmations ==
  [tx : Transactions, token : Tokens \cup {NoToken}, wasCreated : BOOLEAN]
PaymentTokens == [tx : Transactions, token : Tokens]

IdleRefill ==
  [processing |-> FALSE, timer |-> FALSE, nonce |-> FALSE, asked |-> "",
   count |-> 0]
IdlePayout ==
  [processing |-> FALSE, timer |-> FALSE, retryTimer |-> FALSE, wallet |-> 0,
   sent |-> {}, credited |-> FALSE]

OptedIn(c) == c.token # NoToken
-----------------------------------------------------------------------------
(***************************************************************************)
(* Unblinded tokens (refill_unblinded_tokens.cc).                          *)
(***************************************************************************)
\* The wrong way: asking for more the more there are.
RequestTooManyTokens(s) ==
  [s EXCEPT !.refill.asked = "RequestSignedTokens",
            !.refill.count = MaximumTokens + Cardinality(s.unblinded)]

RequestSignedTokens(s) ==
  [s EXCEPT !.refill.asked = "RequestSignedTokens",
            !.refill.count = MaximumTokens - Cardinality(s.unblinded)]

\* One refill at a time, its retries included.
MaybeRefill(s) ==
  IF \/ s.refill.processing \/ s.refill.timer
     \/ s.wallet = 0 \/ ~s.issuers
     \/ Cardinality(s.unblinded) >= MinimumTokens
  THEN s
  ELSE RequestSignedTokens([s EXCEPT !.refill.processing = TRUE,
                                     !.refill.nonce = FALSE])

TopUpUnblindedTokens(s) == IF s.enabled THEN MaybeRefill(s) ELSE s

RefillAnswered(s) == [s EXCEPT !.refill.asked = ""]

OnDidRefill(s, tokens) ==
  [s EXCEPT !.unblinded = @ \cup tokens, !.refill.timer = FALSE,
            !.refill.processing = FALSE]

\* The wrong way: the refill waits for a timer that is not started.
OnFailedToRefillIdle(s, shouldRetry) ==
  [s EXCEPT !.refill.processing = shouldRetry]

OnFailedToRefill(s, shouldRetry) ==
  IF shouldRetry
  THEN [s EXCEPT !.refill.timer = TRUE]
  ELSE [s EXCEPT !.refill.processing = FALSE]
-----------------------------------------------------------------------------
(***************************************************************************)
(* The confirmations and their retry queue (confirmations.cc).             *)
(***************************************************************************)
CanCreate(s) == ~s.enabled \/ s.unblinded # {}

CreateConfirmation(s, tx) ==
  [tx |-> tx, token |-> IF s.enabled THEN Min(s.unblinded) ELSE NoToken,
   wasCreated |-> FALSE]

\* The wrong way: leaving the token where it was.
KeepUnblindedToken(s, c) == s

RemoveUnblindedToken(s, c) == [s EXCEPT !.unblinded = @ \ {c.token}]

StopRetrying(s) == [s EXCEPT !.retryTimer = FALSE]

ProcessRetryQueue(s) == [s EXCEPT !.retryTimer = @ \/ s.failed # <<>>]

AppendToRetryQueue(s, c) == [s EXCEPT !.failed = Append(@, c)]

\* A new confirmation of the transaction, with a token of its own if there is
\* one: the callback of CreateNewConfirmationAndAppendToRetryQueue.
AppendNewConfirmation(s, c) ==
  LET new == CreateConfirmation(s, c.tx)
  IN  IF CanCreate(s)
      THEN AppendToRetryQueue(RemoveUnblindedToken(s, new), new)
      ELSE AppendToRetryQueue(s, c)

\* The user data of a conversion is read from the database first.
CreateNewConfirmationAndAppendToRetryQueue(s, c) ==
  IF c.tx \in Conversions
  THEN [s EXCEPT !.building = @ \cup {[on |-> "Append", c |-> c]}]
  ELSE AppendNewConfirmation(s, c)

\* The wrong way: stopping the timer last.
StopRetryingLast(s, c, shouldRetry, shouldBackoff) ==
  LET queued == CASE ~shouldRetry -> s
                  [] shouldRetry /\ c.wasCreated -> AppendToRetryQueue(s, c)
                  [] OTHER -> CreateNewConfirmationAndAppendToRetryQueue(s, c)
      processed == ProcessRetryQueue(TopUpUnblindedTokens(queued))
  IN  IF shouldBackoff THEN processed ELSE StopRetrying(processed)

OnFailedToRedeemUnblindedToken(s, c, shouldRetry, shouldBackoff) ==
  LET queued == CASE ~shouldRetry -> s
                  [] shouldRetry /\ c.wasCreated -> AppendToRetryQueue(s, c)
                  [] OTHER -> CreateNewConfirmationAndAppendToRetryQueue(s, c)
      toppedUp == TopUpUnblindedTokens(queued)
  IN  ProcessRetryQueue(IF shouldBackoff THEN toppedUp
                                         ELSE StopRetrying(toppedUp))

OnDidRedeemUnblindedToken(s, c) ==
  LET p == [tx |-> c.tx, token |-> c.token]
  IN  IF p \in s.payments
      THEN OnFailedToRedeemUnblindedToken(s, c, FALSE, FALSE)
      ELSE ProcessRetryQueue(StopRetrying(TopUpUnblindedTokens(
             [s EXCEPT !.payments = @ \cup {p}])))

OnDidSendConfirmation(s) ==
  ProcessRetryQueue(StopRetrying(TopUpUnblindedTokens(s)))

OnFailedToSendConfirmation(s, c, shouldRetry) ==
  ProcessRetryQueue(TopUpUnblindedTokens(
    IF shouldRetry THEN AppendToRetryQueue(s, c) ELSE s))

Wait(s, on, c) == [s EXCEPT !.requests = @ \cup {[on |-> on, c |-> c]}]

NoLongerWaits(s, r) == [s EXCEPT !.requests = @ \ {r}]

Queued(s) == {s.failed[i].tx : i \in DOMAIN s.failed}

\* Without issuers nothing is sent.
IsSent(s) == ~(s.enabled /\ ~s.issuers)

\* RedeemUnblindedToken::Redeem.
Redeem(s, c) ==
  CASE ~IsSent(s) -> OnFailedToRedeemUnblindedToken(s, c, TRUE, TRUE)
    [] IsSent(s) /\ ~c.wasCreated -> Wait(s, "OnCreateConfirmation", c)
    [] OTHER -> Wait(s, "OnFetchPaymentToken", c)

\* What Redeem puts on the wire.
Posts(s, c) == IF IsSent(s) /\ ~c.wasCreated THEN {c} ELSE {}

Post(cs) ==
  /\ posted' = posted \cup cs
  /\ spentOn' = [t \in Tokens |->
                   spentOn[t] \cup {c.tx : c \in {d \in cs : d.token = t}}]

\* The end of Confirm, with the user data at hand.
Confirm(s, tx) ==
  LET c    == CreateConfirmation(s, tx)
      mine == RemoveUnblindedToken(s, c)
  IN  IF CanCreate(s)
      THEN /\ account' = Redeem(mine, c)
           /\ Post(Posts(mine, c))
           /\ fate' = [fate EXCEPT ![tx] = "open"]
      ELSE /\ account' = s
           /\ fate' = [fate EXCEPT ![tx] = "dropped"]
           /\ UNCHANGED <<posted, spentOn>>
-----------------------------------------------------------------------------
(***************************************************************************)
(* An ad was viewed and its transaction is in the table.                   *)
(***************************************************************************)
ProcessDeposit(tx) ==
  /\ fate[tx] = "none"
  /\ transactions' = [transactions EXCEPT ![tx] = "unreconciled"]
  /\ IF tx \in Conversions
     THEN /\ account' = [account EXCEPT !.building = @ \cup
                           {[on |-> "Confirm",
                             c |-> [tx |-> tx, token |-> NoToken,
                                    wasCreated |-> FALSE]]}]
          /\ fate' = [fate EXCEPT ![tx] = "open"]
          /\ UNCHANGED <<posted, spentOn>>
     ELSE Confirm(account, tx)
  /\ UNCHANGED <<env, resetting, server, history>>

\* The user data of a conversion was read.
OnUserDataBuilt(b) ==
  LET s == [account EXCEPT !.building = @ \ {b}]
  IN  /\ \/ b.on = "Confirm" /\ Confirm(s, b.c.tx)
         \/ /\ b.on = "Append"
            /\ account' = AppendNewConfirmation(s, b.c)
            /\ UNCHANGED <<posted, spentOn, fate>>
      /\ UNCHANGED <<env, resetting, transactions, server, history>>

\* The wrong way: the confirmation stays in the queue until it is redeemed.
OnRetryWithoutRemoving ==
  LET c == Head(account.failed)
      s == [account EXCEPT !.retryTimer = FALSE]
  IN  /\ account.retryTimer /\ account.failed # <<>>
      /\ account' = Redeem(s, c)
      /\ Post(Posts(s, c))
      /\ UNCHANGED <<env, resetting, transactions, server, fate, history>>

OnRetry ==
  LET c == Head(account.failed)
      s == [account EXCEPT !.retryTimer = FALSE, !.failed = Tail(@)]
  IN  /\ account.retryTimer /\ account.failed # <<>>
      /\ account' = Redeem(s, c)
      /\ Post(Posts(s, c))
      /\ UNCHANGED <<env, resetting, transactions, server, fate, history>>

\* A transaction is created once, with the first token that comes for it.
ServerCreates(c) ==
  /\ posted' = posted \ {c}
  /\ IF OptedIn(c) /\ created[c.tx] = {}
     THEN created' = [created EXCEPT ![c.tx] = {c.token}]
     ELSE UNCHANGED created
  /\ UNCHANGED <<env, account, resetting, transactions, issued, credited,
                 fate, spentOn, history>>

\* Whatever the status, the payment token of a rewarded user is fetched.
OnCreateConfirmation(r) ==
  LET s == NoLongerWaits(account, r)
      Closed(as) == fate' = [fate EXCEPT ![r.c.tx] = as]
  IN  /\ IF OptedIn(r.c)
         THEN /\ account' = Wait(s, "OnFetchPaymentToken",
                                 [r.c EXCEPT !.wasCreated = TRUE])
              /\ UNCHANGED fate
         ELSE \/ /\ account' = OnDidSendConfirmation(s)
                 /\ Closed("sent")
              \/ /\ account' = OnFailedToSendConfirmation(s, r.c, FALSE)
                 /\ Closed("refused")
              \/ /\ account' = OnFailedToSendConfirmation(s, r.c, TRUE)
                 /\ UNCHANGED fate
      /\ UNCHANGED <<env, resetting, transactions, posted, server, spentOn,
                     history>>

\* 404.
NotFound(s, c) ==
  OnFailedToRedeemUnblindedToken(s, [c EXCEPT !.wasCreated = FALSE],
                                 TRUE, FALSE)

\* The statuses of the answer: 404, 400 or another id, 202, any other or one
\* whose proof fails, 200.
OnFetchPaymentToken(r) ==
  LET s == NoLongerWaits(account, r)
      Closed(as) == fate' = [fate EXCEPT ![r.c.tx] = as]
  IN  /\ \/ /\ created[r.c.tx] = {}
            /\ account' = NotFound(s, r.c)
            /\ UNCHANGED fate
         \/ /\ account' = OnFailedToRedeemUnblindedToken(s, r.c, FALSE, FALSE)
            /\ Closed("refused")
         \/ /\ created[r.c.tx] # {}
            /\ account' = OnFailedToRedeemUnblindedToken(s, r.c, TRUE, FALSE)
            /\ UNCHANGED fate
         \/ /\ account' = OnFailedToRedeemUnblindedToken(s, r.c, TRUE, TRUE)
            /\ UNCHANGED fate
         \/ /\ created[r.c.tx] = {r.c.token}
            /\ account' = OnDidRedeemUnblindedToken(s, r.c)
            /\ Closed("earned")
      /\ UNCHANGED <<env, resetting, transactions, posted, server, spentOn,
                     history>>
-----------------------------------------------------------------------------
(***************************************************************************)
(* The requests of a refill.                                               *)
(***************************************************************************)
\* The client has the answer, or none; nothing else changes.
RefillStep(s) ==
  /\ account' = s
  /\ UNCHANGED <<env, resetting, transactions, posted, created, credited, fate,
                 spentOn, restarts>>

\* Answered with a nonce; an error; a browser that is too old.
OnRequestSignedTokens ==
  LET s == RefillAnswered(account)
  IN  /\ account.refill.asked = "RequestSignedTokens"
      /\ \/ RefillStep([s EXCEPT !.refill.nonce = TRUE,
                                 !.refill.asked = "GetSignedTokens"])
         \/ /\ "RefillErrors" \in env
            /\ \E shouldRetry \in BOOLEAN :
                 RefillStep(OnFailedToRefill(s, shouldRetry))
      /\ UNCHANGED <<issued, captchaShown>>

\* Answered with the tokens; an error; tokens that do not verify; a captcha.
OnGetSignedTokens ==
  LET s    == RefillAnswered(account)
      last == issued + account.refill.count
  IN  /\ account.refill.asked = "GetSignedTokens"
      /\ \/ /\ last <= MaxTokens
            /\ issued' = last
            /\ RefillStep(OnDidRefill(s, issued + 1 .. last))
            /\ UNCHANGED captchaShown
         \/ /\ "RefillErrors" \in env
            /\ \E shouldRetry \in BOOLEAN :
                 RefillStep(OnFailedToRefill(s, shouldRetry))
            /\ UNCHANGED <<issued, captchaShown>>
         \/ /\ "RefillErrors" \in env
            /\ RefillStep(s)
            /\ captchaShown' = TRUE
            /\ UNCHANGED issued

OnRetryRefill ==
  LET s == [account EXCEPT !.refill.timer = FALSE]
  IN  /\ account.refill.timer
      /\ RefillStep(IF s.refill.nonce
                    THEN [s EXCEPT !.refill.asked = "GetSignedTokens"]
                    ELSE RequestSignedTokens(s))
      /\ UNCHANGED <<issued, captchaShown>>
-----------------------------------------------------------------------------
(***************************************************************************)
(* Payment tokens (redeem_unblinded_payment_tokens.cc).                    *)
(***************************************************************************)
MaybeRedeemAfterDelay(s, wallet) ==
  IF s.payout.processing \/ s.payout.timer \/ s.payout.retryTimer \/ wallet = 0
  THEN s
  ELSE [s EXCEPT !.payout.wallet = wallet, !.payout.timer = TRUE]

\* The next redemption is for the wallet of the first.
ScheduleNextTokenRedemption(s) == MaybeRedeemAfterDelay(s, s.payout.wallet)

RedeemPayments(s) ==
  IF s.payments = {}
  THEN ScheduleNextTokenRedemption(s)
  ELSE [s EXCEPT !.payout.processing = TRUE, !.payout.sent = s.payments,
                 !.payout.credited = FALSE]

PayoutStep(s) ==
  /\ account' = s
  /\ UNCHANGED <<env, resetting, posted, issued, created, fate, spentOn,
                 history>>

RedeemTimerElapsed ==
  /\ account.payout.timer
  /\ PayoutStep(RedeemPayments([account EXCEPT !.payout.timer = FALSE]))
  /\ UNCHANGED <<transactions, credited>>

OnRetryPayout ==
  /\ account.payout.retryTimer
  /\ PayoutStep(RedeemPayments([account EXCEPT !.payout.retryTimer = FALSE,
                                               !.payout.processing = FALSE]))
  /\ UNCHANGED <<transactions, credited>>

\* The server takes tokens it has not seen, and the same token once more.
ServerCredits ==
  /\ account.payout.sent # {} /\ ~account.payout.credited
  /\ PayoutStep([account EXCEPT !.payout.credited = TRUE])
  /\ credited' = credited \cup {p.tx : p \in account.payout.sent}
  /\ UNCHANGED transactions

\* The wrong way: all the payment tokens were redeemed.
RemoveAllPaymentTokens(s, tokens) == [s EXCEPT !.payments = {}]

RemoveUnblindedPaymentTokens(s, tokens) == [s EXCEPT !.payments = @ \ tokens]

\* The wrong way: the statement shows what the server may not have paid.
ReconcileAll(tokens) ==
  [tx \in Transactions |->
     IF transactions[tx] = "none" THEN "none" ELSE "reconciled"]

\* Transactions::Update.
Reconcile(tokens) ==
  [tx \in Transactions |->
     IF transactions[tx] = "unreconciled" /\ \E p \in tokens : p.tx = tx
     THEN "reconciled"
     ELSE transactions[tx]]

PayoutAnswered(s) ==
  [s EXCEPT !.payout.sent = {}, !.payout.credited = FALSE]

OnRedeemPayments ==
  LET tokens == account.payout.sent
      done   == [PayoutAnswered(account) EXCEPT !.payout.processing = FALSE,
                                                !.payout.retryTimer = FALSE]
  IN  /\ account.payout.credited
      /\ PayoutStep(ScheduleNextTokenRedemption(
                      RemoveUnblindedPaymentTokens(done, tokens)))
      /\ transactions' = Reconcile(tokens)
      /\ UNCHANGED credited

\* The wrong way: waiting for the next turn, which nobody schedules.
OnRedeemPaymentsGivenUp ==
  /\ "PayoutErrors" \in env /\ account.payout.sent # {}
  /\ PayoutStep([PayoutAnswered(account) EXCEPT !.payout.processing = FALSE])
  /\ UNCHANGED <<transactions, credited>>

OnRedeemPaymentsFailed ==
  /\ "PayoutErrors" \in env /\ account.payout.sent # {}
  /\ PayoutStep([PayoutAnswered(account) EXCEPT !.payout.retryTimer = TRUE])
  /\ UNCHANGED <<transactions, credited>>
-----------------------------------------------------------------------------
(***************************************************************************)
(* The account: its wallet, the switch of the ads, a start.                *)
(***************************************************************************)
AccountStep(s) ==
  /\ account' = s
  /\ UNCHANGED <<env, posted, server, spentOn, captchaShown>>

OnDidFetchIssuers ==
  /\ env \cap {"Issuers", "Migrate"} # {}
  /\ AccountStep(TopUpUnblindedTokens([account EXCEPT !.issuers = TRUE]))
  /\ UNCHANGED <<resetting, transactions, fate, restarts>>

\* prefs::kEnabled and prefs::kShouldMigrateVerifiedRewardsUser are the
\* browser's: the library reads them there and is told later.
SetEnabled ==
  /\ "AdsOnOff" \in env
  /\ AccountStep([account EXCEPT !.enabled = ~@, !.notified = TRUE])
  /\ UNCHANGED <<resetting, transactions, fate, restarts>>

OnExternalWalletConnected ==
  /\ "Migrate" \in env /\ ~account.migrate
  /\ AccountStep([account EXCEPT !.migrate = TRUE, !.notified = TRUE])
  /\ UNCHANGED <<resetting, transactions, fate, restarts>>

ProcessClearingCycle(s) ==
  LET retrying == ProcessRetryQueue(s)
  IN  IF s.enabled THEN MaybeRedeemAfterDelay(retrying, s.wallet) ELSE retrying

ShouldResetIssuersAndConfirmations(s) == s.enabled /\ s.migrate

\* New objects take the place of the old ones, whose timers end with them.
\* The answers to the old ones and their callbacks are still to come.
MaybeResetIssuersAndConfirmations(s) ==
  IF ShouldResetIssuersAndConfirmations(s)
  THEN ProcessClearingCycle(
         [s EXCEPT !.retryTimer = FALSE, !.building = {}, !.requests = {},
                   !.dangling = @ \cup s.building, !.orphaned = TRUE,
                   !.refill = IdleRefill, !.payout = IdlePayout,
                   !.failed = <<>>, !.payments = {}, !.unblinded = {},
                   !.issuers = FALSE, !.migrate = FALSE])
  ELSE s

\* The transactions a reset forgets.
Removed(s) == Queued(s) \cup {p.tx : p \in s.payments}
Interrupted(s) == {w.c.tx : w \in s.requests \cup s.building}

OnPrefDidChange ==
  /\ account.notified
  /\ AccountStep(MaybeResetIssuersAndConfirmations(
                   [account EXCEPT !.notified = FALSE]))
  /\ fate' = [tx \in Transactions |->
                IF /\ ShouldResetIssuersAndConfirmations(account)
                   /\ tx \in Removed(account) \cup Interrupted(account)
                THEN "reset"
                ELSE fate[tx]]
  /\ UNCHANGED <<resetting, transactions, restarts>>

SetWallet(wallet) ==
  LET s == [account EXCEPT !.wallet = wallet]
  IN  /\ \/ account.wallet \in {0, wallet} /\ wallet = 1
         \/ "ChangeWallet" \in env /\ account.wallet # 0 /\ wallet = 2
      /\ IF account.wallet \in {0, wallet}
         THEN AccountStep(TopUpUnblindedTokens(s)) /\ UNCHANGED resetting
         ELSE AccountStep(s) /\ resetting' = TRUE
      /\ UNCHANGED <<transactions, fate, restarts>>

\* ResetRewards, once the transactions are removed; no timer is stopped.
OnResetRewards ==
  /\ resetting
  /\ resetting' = FALSE
  /\ transactions' = [tx \in Transactions |-> "none"]
  /\ AccountStep(TopUpUnblindedTokens(
       [account EXCEPT !.failed = <<>>, !.payments = {}, !.unblinded = {}]))
  /\ fate' = [tx \in Transactions |->
                IF tx \in Removed(account) THEN "reset" ELSE fate[tx]]
  /\ UNCHANGED restarts

\* Account::Process in an account that has just been loaded.
Process(s) == ProcessClearingCycle(MaybeResetIssuersAndConfirmations(s))

\* What is left of the account when the process ends.
Saved(s) ==
  [s EXCEPT !.retryTimer = FALSE, !.building = {}, !.requests = {},
            !.dangling = {}, !.orphaned = FALSE, !.notified = FALSE,
            !.refill = IdleRefill, !.payout = IdlePayout]

\* The process ends and the next one is given the wallet before it starts;
\* confirmations are saved while they are in the queue.
Restarted ==
  /\ AccountStep(Process(Saved(account)))
  /\ resetting' = FALSE
  /\ fate' = [tx \in Transactions |->
                CASE fate[tx] = "open" /\ tx \notin Queued(account) -> "lost"
                  [] /\ ShouldResetIssuersAndConfirmations(account)
                     /\ tx \in Removed(account) -> "reset"
                  [] OTHER -> fate[tx]]
  /\ UNCHANGED transactions

Restart ==
  /\ "Restart" \in env /\ restarts < MaxRestarts
  /\ restarts' = restarts + 1
  /\ Restarted

\* The front of an empty list is read: the process ends.
OnRetryWithoutWork ==
  /\ account.retryTimer /\ account.failed = <<>>
  /\ Restarted
  /\ UNCHANGED restarts

\* An answer to an object that was replaced: its memory was freed, and using it
\* ends the process, or finds the delegate that the destructor has reset and
\* changes nothing.
AnswerToDestroyed ==
  /\ account.orphaned
  /\ Restarted
  /\ UNCHANGED restarts

\* User data for an object that was replaced: its memory was freed, and using
\* it ends the process, or does what the callback does.  A confirmation is
\* appended to the queue, or sent without anybody to take the answer.
OnUserDataBuiltTooLate(b) ==
  LET s    == [account EXCEPT !.dangling = @ \ {b}]
      c    == CreateConfirmation(s, b.c.tx)
      mine == RemoveUnblindedToken(s, c)
  IN  \/ Restarted /\ UNCHANGED restarts
      \/ /\ \/ /\ b.on = "Append"
               /\ account' = AppendNewConfirmation(s, b.c)
               /\ fate' = [fate EXCEPT ![b.c.tx] = "open"]
               /\ UNCHANGED <<posted, spentOn>>
            \/ /\ b.on = "Confirm"
               /\ IF CanCreate(s)
                  THEN account' = mine /\ Post(Posts(mine, c))
                  ELSE account' = s /\ UNCHANGED <<posted, spentOn>>
               /\ UNCHANGED fate
         /\ UNCHANGED <<env, resetting, transactions, server, history>>

\* An account read from the disk: no timer runs and nothing is on its way.
Loaded(enabled, issuers, wallet, tokens) ==
  [enabled |-> enabled, issuers |-> issuers, wallet |-> wallet,
   failed |-> <<>>, unblinded |-> tokens, payments |-> {},
   retryTimer |-> FALSE, building |-> {}, requests |-> {}, dangling |-> {},
   orphaned |-> FALSE, migrate |-> FALSE, notified |-> FALSE,
   refill |-> IdleRefill, payout |-> IdlePayout]

\* Rewards have a wallet before ads are enabled.
Init ==
  /\ env \in Surroundings
  /\ \E enabled \in {"AdsOnOff" \notin env, TRUE},
        issuers \in {"Issuers" \notin env, TRUE}, wallet \in {0, 1},
        n \in 0..MaximumTokens :
       /\ enabled => wallet # 0
       /\ account = Process(Loaded(enabled, issuers, wallet, 1..n))
       /\ issued = n
  /\ resetting = FALSE
  /\ transactions = [tx \in Transactions |-> "none"]
  /\ posted = {}
  /\ created = [tx \in Transactions |-> {}]
  /\ credited = {}
  /\ fate = [tx \in Transactions |-> "none"]
  /\ spentOn = [t \in Tokens |-> {}]
  /\ captchaShown = FALSE
  /\ restarts = 0

Answered(r) ==
  \/ r.on = "OnCreateConfirmation" /\ OnCreateConfirmation(r)
  \/ r.on = "OnFetchPaymentToken" /\ OnFetchPaymentToken(r)

Next ==
  \/ \E tx \in Transactions : ProcessDeposit(tx)
  \/ \E b \in account.building : OnUserDataBuilt(b)
  \/ OnRetry
  \/ OnRetryWithoutWork
  \/ \E c \in posted : ServerCreates(c)
  \/ \E r \in account.requests : Answered(r)
  \/ OnRequestSignedTokens
  \/ OnGetSignedTokens
  \/ OnRetryRefill
  \/ RedeemTimerElapsed
  \/ OnRetryPayout
  \/ ServerCredits
  \/ OnRedeemPayments
  \/ OnRedeemPaymentsFailed
  \/ OnDidFetchIssuers
  \/ SetEnabled
  \/ OnExternalWalletConnected
  \/ OnPrefDidChange
  \/ AnswerToDestroyed
  \/ \E b \in account.dangling : OnUserDataBuiltTooLate(b)
  \/ \E wallet \in {1, 2} : SetWallet(wallet)
  \/ OnResetRewards
  \/ Restart

Spec == Init /\ [][Next]_vars
=============================================================================
