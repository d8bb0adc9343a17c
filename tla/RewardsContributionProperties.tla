------------------- MODULE RewardsContributionProperties --------------------
EXTENDS RewardsContribution

Balances == [tokens : Nat, external : Nat]

Replies ==
       [on : {"QueueSaved"}, item : Items]
  \cup [on : {"OnProcessContributionQueue"}, caller : Items \cup {NoItem},
        item : Items \cup {NoItem}, amount : Nat]
  \cup [on : {"OnEntrySaved"}, caller : Items \cup {NoItem},
        c : Contributions, item : Items, wallet : {"BRAVE_TOKENS", "UPHOLD"},
        balance : Balances, rest : Nat]
  \cup [on : {"OnQueueSaved"}, caller : Items \cup {NoItem}, item : Items,
        wallet : {"BRAVE_TOKENS", "UPHOLD"}, balance : Balances, rest : Nat]
  \cup [on : {"OnMarkContributionQueueAsComplete"},
        caller : Items \cup {NoItem}, item : Items]
  \cup [on : {"PrepareTokens", "OnProcessTokens"}, c : Contributions,
        ids : SUBSET Tokens]
  \cup [on : {"OnMarkUnblindedTokensAsReserved"}, c : Contributions,
        ids : SUBSET Tokens, ok : BOOLEAN, retry : 0..RetryLimit]
  \cup [on : {"OnPrepareAutoContribution", "PrepareStepSaved",
              "ContributionInfo", "OnServerPublisherInfo", "Completed",
              "ContributionCompletedSaved", "SetRetryCounter"},
        c : Contributions]
  \cup [on : {"TokenProcessed"}, c : Contributions, publisher : Publishers,
        final : BOOLEAN]
  \cup [on : {"ContributionAmountSaved"}, c : Contributions, final : BOOLEAN]
  \cup [on : {"OnResult"}, c : Contributions,
        result : {"LEDGER_OK", "LEDGER_ERROR", "NOT_ENOUGH_FUNDS",
                  "RETRY_LONG"}]
  \cup [on : {"NotSaved"}, c : Contributions,
        result : {"LEDGER_ERROR", "RETRY"}]
  \cup [on : {"Retry"}, c : Contributions, retry : 0..RetryLimit]
  \cup [on : {"OnReservedUnblindedTokensForRetryAttempt"}, c : Contributions,
        ids : SUBSET Tokens, retry : 0..RetryLimit]

Requests ==
       [on : {"OnBalance"}, caller : Items \cup {NoItem}, item : Items,
        amount : Nat, funds : Nat]
  \cup [on : {"OnRedeemTokens"}, c : Contributions, publisher : Publishers,
        ids : SUBSET Tokens, final : BOOLEAN, handled : BOOLEAN]
  \cup [on : {"OnCommitTransaction"}, c : Contributions,
        publisher : Publishers, handled : BOOLEAN]

ContributionRows ==
  [item : Items, processor : {"BRAVE_TOKENS", "UPHOLD"}, amount : Nat,
   step : Steps, retry : -1..RetryLimit, publishers : SUBSET Publishers,
   total : [Publishers -> Nat], contributed : [Publishers -> Nat]]

ASSUME NoContributionAssumption == NoContribution \notin ContributionRows

\* The type invariant.
TypeOK ==
  /\ queue \in [Items -> [saved : BOOLEAN, done : BOOLEAN, amount : Nat]]
  /\ contributions \in [Contributions -> ContributionRows \cup {NoContribution}]
  /\ tokens \in [Tokens -> [owner : Contributions \cup {NoOwner},
                            reserved : BOOLEAN, spent : BOOLEAN]]
  /\ queueInProgress \in BOOLEAN /\ queueTimer \in BOOLEAN
  /\ retryTimers \subseteq Contributions
  /\ replies \subseteq Replies
  /\ requests \subseteq Requests
  /\ acEnabled \in BOOLEAN /\ connected \in BOOLEAN
  /\ redeemedFor \in [Tokens -> SUBSET [type : RewardsType,
                                        publisher : Publishers]]
  /\ external \in Nat
  /\ transfers \in [Contributions -> Nat]
  /\ restarts \in Nat
  /\ disk \in {"well", "full", "freed"} /\ limits \in Limits

\* What a contribution is waiting for.
ItemHandlers == {"QueueSaved", "OnProcessContributionQueue", "OnQueueSaved",
                 "OnMarkContributionQueueAsComplete", "OnBalance"}
Continuations(c) ==
  {r \in replies \cup requests : r.on \notin ItemHandlers /\ r.c = c}

\* A contribution that is not finished waits for exactly one thing: an answer
\* or its retry timer.  With two it would be paid twice (contribution.cc keeps
\* no record of it), and that cannot happen.  With none it is forgotten until
\* the next start, and that can happen only when the disk has been full since
\* the last one: Retry and ContributionCompletedSaved leave it so.
OneContinuation ==
  \A c \in Contributions :
     /\ c \in retryTimers => Continuations(c) = {}
     /\ \A r, s \in Continuations(c) : r = s
     /\ c \in Unfinished /\ disk = "well" =>
          c \in retryTimers \/ Continuations(c) # {}

\* queue_in_progress_ is true only while a pass over an item is on its way: no
\* pass ends without letting the next one start, unless the disk has been full
\* since the last start (OnEntrySaved and OnQueueSaved then end it for good).
PassUnderWay ==
  \E r \in replies \cup requests :
    r.on \in {"OnBalance", "OnEntrySaved", "OnQueueSaved",
             "OnMarkContributionQueueAsComplete"}
QueueNeverWedged == queueInProgress /\ disk = "well" => PassUnderWay

\* A row marked as redeemed was redeemed at the server, for a publisher of the
\* contribution it names; and a contribution paid with tokens that is shown as
\* completed has redeemed as many as its amount, whatever was interrupted.
SpentFor(c) == {t \in Tokens : tokens[t].spent /\ tokens[t].owner = c}
PaidWithRedeemedTokens ==
  /\ \A t \in Tokens : tokens[t].spent =>
       \E c \in Contributions, payment \in redeemedFor[t] :
          /\ tokens[t].owner = c /\ contributions[c] # NoContribution
          /\ payment.publisher \in contributions[c].publishers
  /\ \A c \in Contributions :
       /\ contributions[c] # NoContribution
       /\ contributions[c].processor = "BRAVE_TOKENS"
       /\ contributions[c].step = "COMPLETED"
       => Cardinality(SpentFor(c)) = contributions[c].amount

\* A provider transfers a contribution once, and at most once more for each
\* time the process was restarted.
TransferredOncePerStart ==
  \A c \in Contributions : transfers[c] <= 1 + restarts

\* "negative steps are final steps, nothing to retry" (contribution.cc): no
\* handler writes another step over a final one.
FinalStepIsFinal ==
  [][\A c \in Contributions :
       contributions[c] # NoContribution =>
         /\ contributions'[c] # NoContribution
         /\ contributions[c].step \in FinalSteps =>
              contributions'[c].step = contributions[c].step]_vars

\* Whatever a contribution waits for comes: the answer, if only an error, or
\* its timer.  A server that is asked again and again for something it can do
\* does it, and one of its answers arrives.
Concerns(r, c) == r.on \notin ItemHandlers /\ r.c = c
Continue(c) ==
  \/ OnRetryTimerElapsed(c)
  \/ \E r \in replies : Concerns(r, c) /\ Handlers(r)
  \/ \E r \in requests : Concerns(r, c) /\ (Answered(r) \/ Failed(r))

Fairness ==
  \A c \in Contributions :
     /\ WF_vars(Continue(c))
     /\ SF_vars(\E r \in requests : Concerns(r, c) /\ Served(r))
     /\ SF_vars(\E r \in requests : Concerns(r, c) /\ Answered(r))

FairSpec == Spec /\ Fairness

\* Tokens do not stay reserved for a contribution forever: they are redeemed
\* or they become spendable again, unless the server has already taken one of
\* them for something else.
HoldsTokens(c) ==
  /\ c \in Unfinished
  /\ ReservedFor(tokens, c) # {}
  /\ \A t \in ReservedFor(tokens, c) : \A payment \in redeemedFor[t] :
       /\ payment.type = ItemType[contributions[c].item]
       /\ payment.publisher = FirstOf(Unpaid(contributions[c]))
ReservedTokensAreUsed ==
  \A c \in Contributions : HoldsTokens(c) ~> ~HoldsTokens(c)
=============================================================================
