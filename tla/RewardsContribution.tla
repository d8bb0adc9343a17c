------------------------- MODULE RewardsContribution ------------------------
(***************************************************************************)
(* How Brave Rewards pays publishers (bat-native-ledger, contribution/).   *)
(* A tip, a monthly tip or an automatic contribution becomes an item of    *)
(* the contribution queue; a pass over the queue turns the item into       *)
(* contributions, one for each source of funds; a contribution goes        *)
(* through its steps, each of them a transaction of the database or a      *)
(* request to a server whose answer starts the next.                       *)
(*                                                                         *)
(* The database is a file behind a worker of its own.  The ledger is its   *)
(* only client and every handler issues its writes last, so a transaction  *)
(* is executed here when it is issued, and what the ledger still has to do *)
(* with its answer is a record in replies: the handler to run (on) and     *)
(* what was bound to it.  Contributions need different numbers of round    *)
(* trips, so the answers come in any order.  While the disk is full a      *)
(* transaction that writes is rolled back and answered with an error.  A   *)
(* restart keeps the tables and loses everything else.                     *)
(***************************************************************************)
EXTENDS UnblindedTokens, Integers

CONSTANTS Items,             \* possible items of the contribution queue
          ItemType,          \* their types (RewardsType)
          ItemAmount,        \* their amounts
          ItemPublishers,    \* their publishers
          Publishers,        \* publisher keys; < is the order of the rows
          Contributions,     \* possible contribution ids
          NoContribution,    \* no row under this id
          NoItem,            \* no item is waiting
          Months,            \* possible months: items earlier ones have seen,
                             \* and bounds of what happens to the process
          RetryLimit,        \* retries before a contribution is given up: 3
          MaxExternal        \* bound: the funds of an external wallet

RewardsType == {"ONE_TIME_TIP", "RECURRING_TIP", "AUTO_CONTRIBUTE"}

\* How often the disk may still be full and the process be restarted.
Limits == [outages : Nat, restarts : Nat]

ASSUME ItemsAssumption ==
  /\ Publishers \subseteq Nat /\ IsFiniteSet(Publishers)
  /\ ItemType \in [Items -> RewardsType]
  /\ ItemAmount \in [Items -> Nat \ {0}]
  /\ ItemPublishers \in [Items -> (SUBSET Publishers) \ {{}}]
  /\ \A i \in Items : ItemType[i] # "AUTO_CONTRIBUTE" =>
       \E p \in Publishers : ItemPublishers[i] = {p}
  /\ NoItem \notin Items
ASSUME ContributionsAssumption ==
  /\ Contributions \subseteq Nat
  /\ NoOwner \notin Contributions
ASSUME BoundsAssumption ==
  /\ RetryLimit \in Nat /\ MaxExternal \in Nat
  /\ Months \subseteq [past : SUBSET Items, limits : Limits]

VARIABLES
  \* Tables of the database.
  queue,             \* contribution_queue: [saved, done, amount] of each item
  contributions,     \* contribution_info and contribution_info_publishers
  tokens,            \* unblinded_tokens
  \* Memory of the ledger process.
  queueInProgress,   \* queue_in_progress_
  queueTimer,        \* queue_timer_ is running
  retryTimers,       \* the contributions with a running retry timer
  replies,           \* database answers still to be handled
  requests,          \* requests to servers still to be answered
  \* Preferences.
  acEnabled,         \* automatic contributions are on
  connected,         \* the external wallet is connected
  \* What servers know.
  redeemedFor,       \* token -> {} or the payment it was redeemed for
  external,          \* funds of the external wallet
  transfers,         \* contribution -> transfers the provider has made for it
  restarts,          \* history: how often the process was restarted
  disk,              \* "full" while writes fail; "freed" when they did since
                     \* the process was started, else "well"
  limits             \* bounds: the outages and restarts to come

database == <<queue, contributions, tokens>>
passes   == <<queueInProgress, queueTimer>>
prefs    == <<acEnabled, connected>>
servers  == <<redeemedFor, external, transfers, restarts, disk, limits>>
vars     == <<database, passes, retryTimers, replies, requests, prefs, servers>>

FinalSteps == {"COMPLETED", "FAILED", "NOT_ENOUGH_FUNDS", "AC_OFF",
               "RETRY_COUNT"}
Steps == {"START", "RESERVE", "PREPARE"} \cup FinalSteps

\* ConvertResultIntoContributionStep.
FinalStep(result) ==
  CASE result = "LEDGER_OK"        -> "COMPLETED"
    [] result = "NOT_ENOUGH_FUNDS" -> "NOT_ENOUGH_FUNDS"
    [] result = "AC_OFF"           -> "AC_OFF"
    [] result = "TOO_MANY_RESULTS" -> "RETRY_COUNT"
    [] OTHER                       -> "FAILED"

\* The wrong way: counting where nobody compares with the limit.
CountAlways(info) == info.retry + 1

\* Nothing looks at the retry counter in STEP_PREPARE, and no retry leads from
\* there to another step but a final one: it is not counted any further.
CountUp(info) == IF info.step = "PREPARE" THEN info.retry ELSE info.retry + 1

Unpaid(contribution) ==
  {p \in contribution.publishers :
     contribution.total[p] # contribution.contributed[p]}

Nothing == [p \in Publishers |-> 0]

LastOf(publishers) ==
  CHOOSE p \in publishers : \A other \in publishers : other <= p
FirstOf(publishers) ==
  CHOOSE p \in publishers : \A other \in publishers : p <= other

-----------------------------------------------------------------------------
\* The handlers in done have run; the answers in next are what they wait for.
Await(done, next) == replies' = (replies \ done) \cup next

Asked(done, next) == requests' = (requests \ done) \cup next

\* What a write makes of a table, and the answers that are waited for.  Most
\* handlers give up at once what they were called for when the write has failed,
\* with nothing to continue it; the others take it for a result.
Writes == disk # "full"
Written(old, new) == IF Writes THEN new ELSE old
IfWritten(answers) == IF Writes THEN answers ELSE {}
WrittenOr(result, answer) ==
  {IF Writes THEN answer
   ELSE [on |-> "NotSaved", c |-> answer.c, result |-> result]}

SetStep(c, step, retry) ==
  contributions' = Written(contributions,
    [contributions EXCEPT ![c].step = step, ![c].retry = retry])

\* The answer is only looked at for the log.
ContributionCompleted(done, c, result) ==
  /\ SetStep(c, FinalStep(result), -1)
  /\ Await(done, {[on |-> "ContributionCompletedSaved", c |-> c]})

\* Contribution::Result: a timer, or the step is looked at again (OnResult).
Result(done, c, result) ==
  IF result = "RETRY"
  THEN Await(done, {}) /\ retryTimers' = retryTimers \cup {c}
  ELSE /\ Await(done, {[on |-> "OnResult", c |-> c, result |-> result]})
       /\ UNCHANGED retryTimers

\* The wrong way: the handler goes on after reporting the error.
NotSavedGoesOn(r) ==
  /\ Await({r}, {[on |-> "SetRetryCounter", c |-> r.c]})
  /\ retryTimers' = retryTimers \cup {r.c}
  /\ UNCHANGED <<database, passes, requests, prefs, servers>>

NotSaved(r) ==
  /\ Result({r}, r.c, r.result)
  /\ UNCHANGED <<database, passes, requests, prefs, servers>>

\* Answers to the reads that start or resume a contribution.
SpendableAnswer(c) ==
  [on |-> "PrepareTokens", c |-> c, ids |-> Spendable(tokens)]
ReservedAnswer(c) ==
  [on |-> "OnProcessTokens", c |-> c, ids |-> ReservedFor(tokens, c)]
NotCompletedAnswer(c) == [on |-> "SetRetryCounter", c |-> c]
-----------------------------------------------------------------------------
(***************************************************************************)
(* The queue.  A pass is named by what started it: the item just saved, or *)
(* NoItem for the timer.                                                   *)
(***************************************************************************)
Waiting == {i \in Items : queue[i].saved /\ ~queue[i].done}

SaveContributionQueue(i, amount) ==
  queue' = Written(queue, [queue EXCEPT ![i] = [saved |-> TRUE, done |-> FALSE,
                                                amount |-> amount]])

\* A tip for a verified publisher.
OneTimeTip(i) ==
  /\ ItemType[i] = "ONE_TIME_TIP" /\ ~queue[i].saved
  /\ SaveContributionQueue(i, ItemAmount[i])
  /\ Await({}, IfWritten({[on |-> "QueueSaved", item |-> i]}))
  /\ UNCHANGED <<contributions, tokens, passes, retryTimers, requests, prefs,
                 servers>>

\* A monthly tip does not wait for its item to be saved.
StartMonthlyContribution(i) ==
  /\ ItemType[i] = "RECURRING_TIP" /\ ~queue[i].saved
  /\ SaveContributionQueue(i, ItemAmount[i])
  /\ queueTimer' = TRUE
  /\ UNCHANGED <<contributions, tokens, queueInProgress, retryTimers, replies,
                 requests, prefs, servers>>

\* Automatic contributions from an external wallet take another way
\* (contribution_sku.cc): here one starts without a connected wallet only.
StartAutoContribute(i) ==
  /\ ItemType[i] = "AUTO_CONTRIBUTE" /\ ~queue[i].saved
  /\ acEnabled /\ ~connected
  /\ SaveContributionQueue(i, ItemAmount[i])
  /\ Await({}, IfWritten({[on |-> "QueueSaved", item |-> i]}))
  /\ UNCHANGED <<contributions, tokens, passes, retryTimers, requests, prefs,
                 servers>>

\* GetFirstContributionQueue: created_at counts seconds, so any waiting item.
ProcessContributionQueue(done, caller) ==
  IF queueInProgress
  THEN Await(done, {})
  ELSE LET Answer(i, amount) ==
             {[on |-> "OnProcessContributionQueue", caller |-> caller,
               item |-> i, amount |-> amount]}
       IN  \/ Waiting = {} /\ Await(done, Answer(NoItem, 0))
           \/ \E i \in Waiting : Await(done, Answer(i, queue[i].amount))

QueueSaved(r) ==
  /\ IF ItemType[r.item] = "AUTO_CONTRIBUTE"
     THEN queueTimer' = TRUE /\ Await({r}, {})
     ELSE /\ ProcessContributionQueue({r}, r.item)
          /\ UNCHANGED queueTimer
  /\ UNCHANGED <<database, queueInProgress, retryTimers, requests, prefs,
                 servers>>

\* The timer runs for 15 seconds, longer than a read of the database.
QueueTimerElapsed ==
  /\ queueTimer
  /\ \A r \in replies :
       r.on = "OnProcessContributionQueue" => r.caller # NoItem
  /\ queueTimer' = FALSE
  /\ ProcessContributionQueue({}, NoItem)
  /\ UNCHANGED <<database, queueInProgress, retryTimers, requests, prefs,
                 servers>>

OnProcessContributionQueue(r) ==
  /\ queueInProgress' = (r.item # NoItem)
  /\ Await({r}, {})
  /\ IF r.item = NoItem
     THEN UNCHANGED requests
     ELSE Asked({}, {[on |-> "OnBalance", caller |-> r.caller,
                      item |-> r.item, amount |-> r.amount,
                      funds |-> Cardinality(Spendable(tokens))]})
  /\ UNCHANGED <<database, queueTimer, retryTimers, prefs, servers>>

\* Nobody looks whether the item is marked.
MarkContributionQueueAsComplete(done, next, r) ==
  /\ queue' = Written(queue, [queue EXCEPT ![r.item].done = TRUE])
  /\ Await(done, next \cup {[on |-> "OnMarkContributionQueueAsComplete",
                             caller |-> r.caller, item |-> r.item]})

\* GetNextProcessor, past the wallets without funds.
NextFunded(previous, balance) ==
  IF previous = "" /\ balance.tokens > 0 THEN "BRAVE_TOKENS"
  ELSE IF previous # "UPHOLD" /\ balance.external > 0 THEN "UPHOLD"
  ELSE "NONE"

FreshIds == {c \in Contributions :
               /\ contributions[c] = NoContribution
               /\ \A other \in Contributions :
                    other < c => contributions[other] # NoContribution}

\* The shares of an automatic contribution are drawn later.
NewContribution(i, processor, amount) ==
  [item |-> i, processor |-> processor, amount |-> amount, step |-> "START",
   retry |-> 0, publishers |-> ItemPublishers[i],
   total |-> [Nothing EXCEPT ![FirstOf(ItemPublishers[i])] = amount],
   contributed |-> Nothing]

\* One contribution for the next wallet with funds; what it cannot pay is left
\* for the wallet after it.  When it cannot be saved the pass ends here, and its
\* flag stays.
CreateNewEntry(done, r, previous, balance, amount) ==
  LET wallet == NextFunded(previous, balance)
      funds  == IF wallet = "UPHOLD" THEN balance.external ELSE balance.tokens
      pays   == IF funds < amount THEN funds ELSE amount
  IN  IF wallet = "NONE"
      THEN /\ MarkContributionQueueAsComplete(done, {}, r)
           /\ UNCHANGED contributions
      ELSE /\ \E c \in FreshIds :
                /\ contributions' = Written(contributions,
                     [contributions EXCEPT
                        ![c] = NewContribution(r.item, wallet, pays)])
                /\ Await(done, IfWritten(
                     {[on |-> "OnEntrySaved", caller |-> r.caller,
                       c |-> c, item |-> r.item, wallet |-> wallet,
                       balance |-> balance, rest |-> amount - pays]}))
           /\ UNCHANGED queue

\* A contribution that may be partial is cut down to the balance, any other
\* whose amount is missing is given up.
Process(r, balance) ==
  LET total == balance.tokens + balance.external
  IN  IF total = 0 \/ (r.amount > total /\ ItemType[r.item] # "AUTO_CONTRIBUTE")
      THEN /\ MarkContributionQueueAsComplete({}, {}, r)
           /\ UNCHANGED contributions
      ELSE CreateNewEntry({}, r, "", balance,
                          IF r.amount > total THEN total ELSE r.amount)

\* A wallet whose provider does not answer counts as empty.
OnBalance(r) ==
  /\ Asked({r}, {})
  /\ \E seen \in IF connected THEN {0, external} ELSE {0} :
       Process(r, [tokens |-> r.funds, external |-> seen])
  /\ UNCHANGED <<tokens, passes, retryTimers, prefs, servers>>

\* The wrong way: the pass ends and its flag stays.
OnBalanceFailedQuietly(r) ==
  /\ Asked({r}, {})
  /\ UNCHANGED <<database, passes, retryTimers, replies, prefs, servers>>

\* Nothing starts the queue again.
OnBalanceFailed(r) ==
  /\ Asked({r}, {})
  /\ queueInProgress' = FALSE
  /\ UNCHANGED <<database, queueTimer, retryTimers, replies, prefs, servers>>

\* The contribution starts while the pass over the item goes on, unless the item
\* cannot be saved.
OnEntrySaved(r) ==
  LET start == {IF r.wallet = "BRAVE_TOKENS"
                THEN SpendableAnswer(r.c)
                ELSE [on |-> "ContributionInfo", c |-> r.c]}
  IN  /\ IF r.rest > 0
         THEN /\ SaveContributionQueue(r.item, r.rest)
              /\ Await({r}, start \cup IfWritten(
                   {[on |-> "OnQueueSaved", caller |-> r.caller,
                     item |-> r.item, wallet |-> r.wallet,
                     balance |-> r.balance, rest |-> r.rest]}))
         ELSE MarkContributionQueueAsComplete({r}, start, r)
      /\ UNCHANGED <<contributions, tokens, passes, retryTimers, requests,
                     prefs, servers>>

OnQueueSaved(r) ==
  /\ CreateNewEntry({r}, r, r.wallet, r.balance, r.rest)
  /\ UNCHANGED <<tokens, passes, retryTimers, requests, prefs, servers>>

OnMarkContributionQueueAsComplete(r) ==
  /\ queueInProgress' = FALSE
  /\ queueTimer' = TRUE
  /\ Await({r}, {})
  /\ UNCHANGED <<database, retryTimers, requests, prefs, servers>>
-----------------------------------------------------------------------------
(***************************************************************************)
(* A contribution paid with tokens (contribution_unblinded.cc).            *)
(***************************************************************************)
PrepareTokens(r) ==
  LET amount   == contributions[r.c].amount
      ids      == TakeFirst(r.ids, amount)
      reserved == MarkRecordListAsReserved(tokens, ids, r.c)
  IN  /\ IF Cardinality(ids) < amount
         THEN /\ Result({r}, r.c, "NOT_ENOUGH_FUNDS")
              /\ UNCHANGED <<tokens, contributions>>
         ELSE /\ tokens' = Written(tokens, reserved)
              /\ SetStep(r.c, "RESERVE", 0)
              /\ Await({r}, {[on    |-> "OnMarkUnblindedTokensAsReserved",
                              c     |-> r.c,
                              ids   |-> ids,
                              ok    |-> Writes /\ AllReserved(reserved, ids),
                              retry |-> contributions[r.c].retry]})
              /\ UNCHANGED retryTimers
      /\ UNCHANGED <<queue, passes, requests, prefs, servers>>

\* Every way of giving n votes to the publishers, each vote to one of them.
Votes(publishers, n) ==
  {[p \in Publishers |-> Cardinality({v \in 1..n : draw[v] = p})] :
     draw \in [1..n -> publishers]}

\* An automatic contribution draws the shares of its publishers and is saved
\* as it was when the handler's copy was taken; any other goes on.
PreparePublishers(r, step) ==
  IF ItemType[contributions[r.c].item] = "AUTO_CONTRIBUTE"
  THEN /\ \E votes \in Votes(contributions[r.c].publishers,
                             Cardinality(r.ids)) :
            contributions' = Written(contributions,
                               [contributions EXCEPT
                                  ![r.c].total = votes,
                                  ![r.c].contributed = Nothing,
                                  ![r.c].step = step,
                                  ![r.c].retry = r.retry])
       /\ Await({r}, WrittenOr("RETRY", [on |-> "OnPrepareAutoContribution",
                                         c |-> r.c]))
  ELSE /\ SetStep(r.c, "PREPARE", 0)
       /\ Await({r}, WrittenOr("RETRY", [on |-> "PrepareStepSaved",
                                         c |-> r.c]))

OnMarkUnblindedTokensAsReserved(r) ==
  /\ IF r.ok
     THEN PreparePublishers(r, "START") /\ UNCHANGED retryTimers
     ELSE Result({r}, r.c, "LEDGER_ERROR") /\ UNCHANGED contributions
  /\ UNCHANGED <<queue, tokens, passes, requests, prefs, servers>>

OnPrepareAutoContribution(r) ==
  /\ SetStep(r.c, "PREPARE", 0)
  /\ Await({r}, WrittenOr("RETRY", [on |-> "PrepareStepSaved", c |-> r.c]))
  /\ UNCHANGED <<queue, tokens, passes, retryTimers, requests, prefs, servers>>

PrepareStepSaved(r) ==
  /\ Await({r}, {ReservedAnswer(r.c)})
  /\ UNCHANGED <<database, passes, retryTimers, requests, prefs, servers>>

\* One publisher at a time, the first that is not paid yet.
OnProcessTokens(r) ==
  LET info   == contributions[r.c]
      unpaid == Unpaid(info)
      p      == FirstOf(unpaid)
      ids    == TakeFirst(r.ids, info.total[p])
  IN  /\ CASE unpaid = {} ->
               Result({r}, r.c, "LEDGER_OK") /\ UNCHANGED requests
           [] unpaid # {} /\ ids = {} ->
               Result({r}, r.c, "RETRY") /\ UNCHANGED requests
           [] OTHER ->
               /\ Await({r}, {})
               /\ Asked({}, {[on |-> "OnRedeemTokens", c |-> r.c,
                              publisher |-> p, ids |-> ids,
                              final |-> p = LastOf(info.publishers),
                              handled |-> FALSE]})
               /\ UNCHANGED retryTimers
      /\ UNCHANGED <<database, passes, prefs, servers>>

\* What a token is redeemed for; a server tells payments of the same type to
\* the same publisher from each other by their tokens only.
Payment(r) == [type |-> ItemType[contributions[r.c].item],
               publisher |-> r.publisher]

\* The server of the promotions takes tokens it has not seen, and the same
\* request a second time.
ServerRedeems(r) ==
  /\ ~r.handled
  /\ \A t \in r.ids : redeemedFor[t] \subseteq {Payment(r)}
  /\ redeemedFor' = [t \in Tokens |-> IF t \in r.ids THEN {Payment(r)}
                                                     ELSE redeemedFor[t]]
  /\ Asked({r}, {[r EXCEPT !.handled = TRUE]})
  /\ UNCHANGED <<database, passes, retryTimers, replies, prefs, external,
                 transfers, restarts, disk, limits>>

OnRedeemTokens(r) ==
  /\ r.handled
  /\ Asked({r}, {})
  /\ tokens' = Written(tokens, MarkRecordListAsSpent(tokens, r.ids, r.c))
  /\ Await({}, WrittenOr("RETRY", [on |-> "TokenProcessed", c |-> r.c,
                                   publisher |-> r.publisher,
                                   final |-> r.final]))
  /\ UNCHANGED <<queue, contributions, passes, retryTimers, prefs, servers>>

\* The wrong way: forgetting who waits for the tokens.
OnRedeemTokensForgotten(r) ==
  /\ Asked({r}, {})
  /\ UNCHANGED <<database, passes, retryTimers, replies, prefs, servers>>

\* Refused, or the answer was lost.
OnRedeemTokensFailed(r) ==
  /\ Asked({r}, {})
  /\ Result({}, r.c, "RETRY")
  /\ UNCHANGED <<database, passes, prefs, servers>>

\* UpdateContributionInfoContributedAmount.
Contributed(c, p) ==
  contributions' = Written(contributions,
                     [contributions EXCEPT
                        ![c].contributed[p] = contributions[c].total[p]])

\* A failure is the contribution's result after its last publisher only.
TokenProcessed(r) ==
  /\ Contributed(r.c, r.publisher)
  /\ LET answer == [on |-> "ContributionAmountSaved", c |-> r.c,
                    final |-> r.final]
     IN  Await({r}, IF r.final THEN WrittenOr("LEDGER_ERROR", answer)
                               ELSE {answer})
  /\ UNCHANGED <<queue, tokens, passes, retryTimers, requests, prefs, servers>>

ContributionAmountSaved(r) ==
  /\ Result({r}, r.c, IF r.final THEN "LEDGER_OK" ELSE "RETRY_LONG")
  /\ UNCHANGED <<database, passes, requests, prefs, servers>>
-----------------------------------------------------------------------------
(***************************************************************************)
(* A tip paid from an external wallet (contribution_external_wallet.cc,    *)
(* uphold.cc, uphold_transfer.cc).                                         *)
(***************************************************************************)
ContributionInfo(r) ==
  /\ CASE ~connected ->
            Result({r}, r.c, "LEDGER_ERROR")
       [] connected /\ Unpaid(contributions[r.c]) = {} ->
            Result({r}, r.c, "LEDGER_OK")
       [] OTHER ->
            /\ Await({r}, {[on |-> "OnServerPublisherInfo", c |-> r.c]})
            /\ UNCHANGED retryTimers
  /\ UNCHANGED <<database, passes, requests, prefs, servers>>

\* A publisher that is not verified with the provider is not paid.
OnServerPublisherInfo(r) ==
  /\ \/ Result({r}, r.c, "LEDGER_ERROR") /\ UNCHANGED requests
     \/ /\ connected
        /\ Await({r}, {})
        /\ Asked({}, {[on |-> "OnCommitTransaction", c |-> r.c,
                       publisher |-> FirstOf(Unpaid(contributions[r.c])),
                       handled |-> FALSE]})
        /\ UNCHANGED retryTimers
  /\ UNCHANGED <<database, passes, prefs, servers>>

\* The provider creates and commits the transfer.
ProviderTransfers(r) ==
  LET amount == contributions[r.c].total[r.publisher]
  IN  /\ ~r.handled /\ external >= amount
      /\ external' = external - amount
      /\ transfers' = [transfers EXCEPT ![r.c] = @ + 1]
      /\ Asked({r}, {[r EXCEPT !.handled = TRUE]})
      /\ UNCHANGED <<database, passes, retryTimers, replies, prefs,
                     redeemedFor, restarts, disk, limits>>

OnCommitTransaction(r) ==
  /\ r.handled /\ connected
  /\ Asked({r}, {})
  /\ Contributed(r.c, r.publisher)
  /\ Await({}, WrittenOr("LEDGER_ERROR", [on |-> "Completed", c |-> r.c]))
  /\ UNCHANGED <<queue, tokens, passes, retryTimers, prefs, servers>>

\* The wrong way: asking for the transfer again.
OnCommitTransactionRetried(r) ==
  /\ Asked({r}, {[r EXCEPT !.handled = FALSE]})
  /\ UNCHANGED <<database, passes, retryTimers, replies, prefs, servers>>

\* Any error ends the contribution; an expired token logs the wallet out.
OnCommitTransactionFailed(r) ==
  /\ Asked({r}, {})
  /\ Result({}, r.c, "LEDGER_ERROR")
  /\ connected' \in {connected, FALSE}
  /\ UNCHANGED <<database, passes, acEnabled, servers>>

\* Tips have a single publisher.
Completed(r) ==
  /\ Result({r}, r.c, "LEDGER_OK")
  /\ UNCHANGED <<database, passes, requests, prefs, servers>>
-----------------------------------------------------------------------------
(***************************************************************************)
(* Results, retries and the end of a contribution.                         *)
(***************************************************************************)
OnResult(r) ==
  /\ IF r.result = "RETRY_LONG"
     THEN /\ Await({r}, {})
          /\ retryTimers' = retryTimers \cup {r.c}
          /\ UNCHANGED contributions
     ELSE ContributionCompleted({r}, r.c, r.result) /\ UNCHANGED retryTimers
  /\ UNCHANGED <<queue, tokens, passes, requests, prefs, servers>>

\* Whether the final step was saved or not.
ContributionCompletedSaved(r) ==
  /\ tokens' = Written(tokens, MarkRecordListAsSpendable(tokens, r.c))
  /\ Await({r}, {})
  /\ UNCHANGED <<queue, contributions, passes, retryTimers, requests, prefs,
                 servers>>

\* The wrong way: a timer that repeats.
OnRetryTimerTicks(c) ==
  /\ c \in retryTimers
  /\ Await({}, {NotCompletedAnswer(c)})
  /\ UNCHANGED <<database, passes, retryTimers, requests, prefs, servers>>

OnRetryTimerElapsed(c) ==
  /\ c \in retryTimers
  /\ retryTimers' = retryTimers \ {c}
  /\ Await({}, {NotCompletedAnswer(c)})
  /\ UNCHANGED <<database, passes, requests, prefs, servers>>

\* The limit does not end a contribution whose tokens are being redeemed.  One
\* whose counter cannot be saved is not retried.
SetRetryCounter(r) ==
  LET info == contributions[r.c]
  IN  /\ IF info.retry = RetryLimit /\ info.step # "PREPARE"
         THEN ContributionCompleted({r}, r.c, "TOO_MANY_RESULTS")
         ELSE /\ SetStep(r.c, info.step, CountUp(info))
              /\ Await({r}, IfWritten({[on |-> "Retry", c |-> r.c,
                                        retry |-> info.retry]}))
      /\ UNCHANGED <<queue, tokens, passes, retryTimers, requests, prefs,
                     servers>>

\* Where a contribution goes on, by its processor and its step.
Resumed(c, retry) ==
  IF contributions[c].processor = "UPHOLD"
  THEN [on |-> "ContributionInfo", c |-> c]
  ELSE CASE contributions[c].step = "PREPARE" -> ReservedAnswer(c)
         [] contributions[c].step = "RESERVE" ->
              [on |-> "OnReservedUnblindedTokensForRetryAttempt", c |-> c,
               ids |-> ReservedFor(tokens, c), retry |-> retry]
         [] OTHER -> SpendableAnswer(c)

Retry(r) ==
  LET info == contributions[r.c]
  IN  /\ CASE info.step \in FinalSteps ->
               Await({r}, {}) /\ UNCHANGED contributions
           [] /\ info.step \notin FinalSteps
              /\ ItemType[info.item] = "AUTO_CONTRIBUTE" /\ ~acEnabled ->
               ContributionCompleted({r}, r.c, "AC_OFF")
           [] OTHER ->
               Await({r}, {Resumed(r.c, r.retry)}) /\ UNCHANGED contributions
      /\ UNCHANGED <<queue, tokens, passes, retryTimers, requests, prefs,
                     servers>>

OnReservedUnblindedTokensForRetryAttempt(r) ==
  /\ IF r.ids = {}
     THEN Result({r}, r.c, "LEDGER_ERROR") /\ UNCHANGED contributions
     ELSE PreparePublishers(r, "RESERVE") /\ UNCHANGED retryTimers
  /\ UNCHANGED <<queue, tokens, passes, requests, prefs, servers>>
-----------------------------------------------------------------------------
SetAutoContributeEnabled ==
  /\ acEnabled' = ~acEnabled
  /\ UNCHANGED <<database, passes, retryTimers, replies, requests, connected,
                 servers>>

Unfinished == {c \in Contributions :
                 /\ contributions[c] # NoContribution
                 /\ contributions[c].step \notin FinalSteps}

\* What every write fails of, and what ends it.
DiskFills ==
  /\ Writes /\ limits.outages > 0
  /\ disk' = "full"
  /\ limits' = [limits EXCEPT !.outages = @ - 1]
  /\ UNCHANGED <<database, passes, retryTimers, replies, requests, prefs,
                 redeemedFor, external, transfers, restarts>>

DiskIsFreed ==
  /\ ~Writes
  /\ disk' = "freed"
  /\ UNCHANGED <<database, passes, retryTimers, replies, requests, prefs,
                 redeemedFor, external, transfers, restarts, limits>>

\* The process ends; the next one initializes: NotCompletedContributions goes
\* through the unfinished contributions.
Restart ==
  /\ limits.restarts > 0
  /\ limits' = [limits EXCEPT !.restarts = @ - 1]
  /\ restarts' = restarts + 1
  /\ queueInProgress' = FALSE
  /\ queueTimer' = TRUE
  /\ retryTimers' = {}
  /\ requests' = {}
  /\ replies' = {NotCompletedAnswer(c) : c \in Unfinished}
  /\ disk' = (IF Writes THEN "well" ELSE "full")
  /\ UNCHANGED <<database, prefs, redeemedFor, external, transfers>>

Handlers(r) ==
  \/ r.on = "NotSaved" /\ NotSaved(r)
  \/ r.on = "QueueSaved" /\ QueueSaved(r)
  \/ r.on = "OnProcessContributionQueue" /\ OnProcessContributionQueue(r)
  \/ r.on = "OnEntrySaved" /\ OnEntrySaved(r)
  \/ r.on = "OnQueueSaved" /\ OnQueueSaved(r)
  \/ /\ r.on = "OnMarkContributionQueueAsComplete"
     /\ OnMarkContributionQueueAsComplete(r)
  \/ r.on = "PrepareTokens" /\ PrepareTokens(r)
  \/ /\ r.on = "OnMarkUnblindedTokensAsReserved"
     /\ OnMarkUnblindedTokensAsReserved(r)
  \/ r.on = "OnPrepareAutoContribution" /\ OnPrepareAutoContribution(r)
  \/ r.on = "PrepareStepSaved" /\ PrepareStepSaved(r)
  \/ r.on = "OnProcessTokens" /\ OnProcessTokens(r)
  \/ r.on = "TokenProcessed" /\ TokenProcessed(r)
  \/ r.on = "ContributionAmountSaved" /\ ContributionAmountSaved(r)
  \/ r.on = "ContributionInfo" /\ ContributionInfo(r)
  \/ r.on = "OnServerPublisherInfo" /\ OnServerPublisherInfo(r)
  \/ r.on = "Completed" /\ Completed(r)
  \/ r.on = "OnResult" /\ OnResult(r)
  \/ r.on = "ContributionCompletedSaved" /\ ContributionCompletedSaved(r)
  \/ r.on = "SetRetryCounter" /\ SetRetryCounter(r)
  \/ r.on = "Retry" /\ Retry(r)
  \/ /\ r.on = "OnReservedUnblindedTokensForRetryAttempt"
     /\ OnReservedUnblindedTokensForRetryAttempt(r)

Answered(r) ==
  \/ r.on = "OnBalance" /\ OnBalance(r)
  \/ r.on = "OnRedeemTokens" /\ OnRedeemTokens(r)
  \/ r.on = "OnCommitTransaction" /\ OnCommitTransaction(r)

Failed(r) ==
  \/ r.on = "OnBalance" /\ OnBalanceFailed(r)
  \/ r.on = "OnRedeemTokens" /\ OnRedeemTokensFailed(r)
  \/ r.on = "OnCommitTransaction" /\ OnCommitTransactionFailed(r)

Served(r) ==
  \/ r.on = "OnRedeemTokens" /\ ServerRedeems(r)
  \/ r.on = "OnCommitTransaction" /\ ProviderTransfers(r)

Init ==
  /\ \E month \in Months :
       /\ queue = [i \in Items |-> [saved  |-> i \in month.past,
                                   done   |-> i \in month.past,
                                   amount |-> 0]]
       /\ limits = month.limits
  /\ contributions = [c \in Contributions |-> NoContribution]
  /\ tokens = [t \in Tokens |-> FreshToken]
  /\ queueInProgress = FALSE
  /\ queueTimer = TRUE
  /\ retryTimers = {}
  /\ replies = {}
  /\ requests = {}
  /\ acEnabled = TRUE
  /\ connected \in BOOLEAN
  /\ redeemedFor = [t \in Tokens |-> {}]
  /\ external = (IF connected THEN MaxExternal ELSE 0)
  /\ transfers = [c \in Contributions |-> 0]
  /\ restarts = 0
  /\ disk = "well"

Next ==
  \/ \E i \in Items : \/ OneTimeTip(i)
                      \/ StartMonthlyContribution(i)
                      \/ StartAutoContribute(i)
  \/ QueueTimerElapsed
  \/ \E r \in replies : Handlers(r)
  \/ \E r \in requests : Answered(r) \/ Failed(r) \/ Served(r)
  \/ \E c \in Contributions : OnRetryTimerElapsed(c)
  \/ SetAutoContributeEnabled
  \/ DiskFills \/ DiskIsFreed
  \/ Restart

Spec == Init /\ [][Next]_vars
=============================================================================
