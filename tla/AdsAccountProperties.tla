------------------------ MODULE AdsAccountProperties -------------------------
(***************************************************************************)
(* What the account of the ads library promises.                           *)
(***************************************************************************)
EXTENDS AdsAccount

Refills ==
  [processing : BOOLEAN, timer : BOOLEAN, nonce : BOOLEAN,
   asked : {"", "RequestSignedTokens", "GetSignedTokens"},
   count : 0..MaximumTokens]
Payouts ==
  [processing : BOOLEAN, timer : BOOLEAN, retryTimer : BOOLEAN,
   wallet : Wallets, sent : SUBSET PaymentTokens, credited : BOOLEAN]
Accounts ==
  [enabled : BOOLEAN, issuers : BOOLEAN, wallet : Wallets,
   failed : Seq(Confirmations), unblinded : SUBSET Tokens,
   payments : SUBSET PaymentTokens, retryTimer : BOOLEAN,
   building : SUBSET [on : {"Confirm", "Append"}, c : Confirmations],
   requests : SUBSET [on : {"OnCreateConfirmation", "OnFetchPaymentToken"},
                      c : Confirmations],
   dangling : SUBSET [on : {"Confirm", "Append"}, c : Confirmations],
   orphaned : BOOLEAN, migrate : BOOLEAN, notified : BOOLEAN,
   refill : Refills, payout : Payouts]

\* The type invariant.
TypeOK ==
  /\ env \in Surroundings
  /\ account \in Accounts
  /\ resetting \in BOOLEAN
  /\ transactions \in
       [Transactions -> {"none", "unreconciled", "reconciled"}]
  /\ posted \subseteq Confirmations
  /\ issued \in 0..MaxTokens
  /\ created \in [Transactions -> SUBSET Tokens]
  /\ credited \subseteq Transactions
  /\ fate \in [Transactions -> Fates]
  /\ spentOn \in [Tokens -> SUBSET Transactions]
  /\ captchaShown \in BOOLEAN
  /\ restarts \in 0..MaxRestarts

\* The confirmations of a transaction: in the queue, waiting for an answer or
\* waiting for user data.
Places(tx) ==
  {<<"failed", i>> : i \in {j \in DOMAIN account.failed :
                              account.failed[j].tx = tx}}
  \cup {r \in account.requests : r.c.tx = tx}
  \cup {b \in account.building : b.c.tx = tx}

\* A confirmation that is neither paid nor given up is in exactly one place:
\* none is forgotten on the way through the handlers and none is doubled when
\* it is taken out of the queue, made anew and put back, not even by a callback
\* that a reset has left behind (confirmations.cc).  Given up are those that a
\* reset for another wallet or for a verified user removes (account.cc:233).
OpenIsInOnePlace ==
  \A tx \in Transactions :
    Cardinality(Places(tx)) = IF fate[tx] = "open" THEN 1 ELSE 0

\* An unblinded token is presented to the server for one transaction only, and
\* never again once it was presented, whatever is retried, made anew or
\* restarted (confirmation_util.cc, confirmations.cc).
TokensAreSpentOnce ==
  \A t \in Tokens :
    /\ Cardinality(spentOn[t]) <= 1
    /\ t \in account.unblinded => spentOn[t] = {}

\* While a confirmation of a viewed ad waits in the queue, a timer or an answer
\* will bring the account back to the queue.  Conversions are left out: they
\* are appended when nobody looks (confirmations.cc).
QueueIsServed ==
  (\E tx \in Queued(account) : tx \notin Conversions) =>
    account.retryTimer \/ account.requests # {}

\* A payment token that was obtained is kept until the server has credited it,
\* those obtained while others are being redeemed included
\* (redeem_unblinded_payment_tokens.cc), or until a reset for another wallet or
\* for a verified user removes it (account.cc:233).
EarningsAreKept ==
  \A tx \in Transactions :
    fate[tx] = "earned" =>
      tx \in credited \/ \E p \in account.payments : p.tx = tx

\* The statement calls a transaction reconciled only if the server has credited
\* it (transactions_database_table.cc).
ReconciledWasCredited ==
  \A tx \in Transactions : transactions[tx] = "reconciled" => tx \in credited

\* Redeeming payment tokens never stops once it has begun: exactly one of the
\* timer, the request and the retry timer is what it waits for, as
\* DCHECK(!is_processing_) wants (redeem_unblinded_payment_tokens.cc).
PayoutGoesOn ==
  LET payout == account.payout
  IN  payout.wallet # 0 =>
        /\ Cardinality({w \in 1..3 :
             \/ w = 1 /\ payout.timer
             \/ w = 2 /\ payout.retryTimer
             \/ w = 3 /\ payout.sent # {}}) = 1
        /\ payout.timer => ~payout.processing

\* A refill that has begun waits for an answer or for its timer, unless it ended
\* in a captcha: otherwise the account would run out of tokens
\* (refill_unblinded_tokens.cc).
RefillGoesOn ==
  account.refill.processing =>
    account.refill.asked # "" \/ account.refill.timer \/ captchaShown

\* The assertion DCHECK(!failed_confirmations.empty()) of OnRetry
\* (confirmations.cc).
RetryHasWork == account.retryTimer => account.failed # <<>>
=============================================================================
