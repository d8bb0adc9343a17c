---------------------- MODULE RewardsContributionProofs ----------------------
(***************************************************************************)
(* TypeOK, OneContinuation, QueueNeverWedged, TransferredOncePerStart,     *)
(* FinalStepIsFinal and PaidWithRedeemedTokens hold for every value of the *)
(* constants: any items, tokens, publishers, contributions, retry limit,   *)
(* number of restarts and number of times the disk is full.  That an       *)
(* unfinished contribution waits for something, and that no pass is stuck, *)
(* is said only of states in which the disk was not full since the last    *)
(* start (disk = "well"); all the rest holds whether writes succeed or     *)
(* fail.  The first five are proved together, from one inductive           *)
(* invariant, IInv; the last from a second one, PaidInv, which relates the *)
(* tokens a contribution owns to what it still has to pay.                 *)
(***************************************************************************)
EXTENDS RewardsContributionProperties, FiniteSetTheorems,
        WellFoundedInduction, TLAPS

InFlight == replies \cup requests

Exists(c)   == contributions[c] # NoContribution
Finished(c) == Exists(c) /\ contributions[c].step \in FinalSteps

\* From here on a contribution asks for no transfer until the next start.
PastTransfer(r) ==
  \/ r.on \in {"Completed", "ContributionCompletedSaved"}
  \/ r.on = "OnCommitTransaction" /\ r.handled
  \/ r.on = "OnResult" /\ r.result # "RETRY_LONG"
  \/ r.on = "NotSaved" /\ r.result = "LEDGER_ERROR"

\* What a contribution waits for, by the state it is in.  Since the disk was
\* full it may wait for nothing, or for the answer to its last step though that
\* was not written.
WaitsForOne(c) ==
  /\ \A r, s \in Continuations(c) : r = s
  /\ c \in retryTimers => Continuations(c) = {}
  /\ ~Exists(c) => c \notin retryTimers /\ Continuations(c) = {}
  /\ Finished(c) =>
       /\ c \notin retryTimers
       /\ \A r \in Continuations(c) : r.on = "ContributionCompletedSaved"
  /\ Exists(c) /\ ~Finished(c) =>
       /\ contributions[c].retry # -1
       /\ disk = "well" =>
            /\ c \in retryTimers \/ Continuations(c) # {}
            /\ \A r \in Continuations(c) : r.on # "ContributionCompletedSaved"
  /\ \A r \in Continuations(c) :
       r.on = "OnServerPublisherInfo" => Unpaid(contributions[c]) # {}

\* Nothing continues it before the next start.
Forgotten(c) == Exists(c) /\ c \notin retryTimers /\ Continuations(c) = {}

\* A contribution that may still ask for a transfer has been transferred in
\* earlier runs of the process only.
TransfersBounded(c) ==
  /\ transfers[c] <= 1 + restarts
  /\ transfers[c] <= restarts \/ Finished(c) \/ Forgotten(c)
       \/ \E r \in Continuations(c) : PastTransfer(r)

ContributionOK(c) == WaitsForOne(c) /\ TransfersBounded(c)

\* The inductive invariant.
IInv ==
  /\ TypeOK
  /\ \A c \in Contributions : ContributionOK(c)
  /\ QueueNeverWedged

-----------------------------------------------------------------------------
(* Records in flight: the fields each kind has.                            *)

ReplyKinds ==
  {"QueueSaved", "OnProcessContributionQueue", "OnEntrySaved", "OnQueueSaved",
   "OnMarkContributionQueueAsComplete", "PrepareTokens", "OnProcessTokens",
   "OnMarkUnblindedTokensAsReserved", "OnPrepareAutoContribution",
   "PrepareStepSaved", "ContributionInfo", "OnServerPublisherInfo",
   "Completed", "ContributionCompletedSaved", "SetRetryCounter",
   "TokenProcessed", "ContributionAmountSaved", "OnResult", "NotSaved",
   "Retry", "OnReservedUnblindedTokensForRetryAttempt"}
RequestKinds == {"OnBalance", "OnRedeemTokens", "OnCommitTransaction"}

LEMMA ReplyParts ==
  ASSUME NEW r \in Replies
  PROVE  /\ r.on \in ReplyKinds
         /\ r.on \notin ItemHandlers => r.c \in Contributions
         /\ r.on = "QueueSaved" => r.item \in Items
         /\ r.on \in {"OnProcessContributionQueue", "OnEntrySaved",
                      "OnQueueSaved", "OnMarkContributionQueueAsComplete"} =>
              r.caller \in Items \cup {NoItem}
         /\ r.on = "OnProcessContributionQueue" =>
              r.item \in Items \cup {NoItem} /\ r.amount \in Nat
         /\ r.on \in {"OnEntrySaved", "OnQueueSaved"} =>
              /\ r.wallet \in {"BRAVE_TOKENS", "UPHOLD"}
              /\ r.balance \in Balances /\ r.rest \in Nat
         /\ r.on \in {"OnEntrySaved", "OnQueueSaved",
                      "OnMarkContributionQueueAsComplete"} => r.item \in Items
         /\ r.on \in {"PrepareTokens", "OnProcessTokens",
                      "OnMarkUnblindedTokensAsReserved",
                      "OnReservedUnblindedTokensForRetryAttempt"} =>
              r.ids \in SUBSET Tokens
         /\ r.on \in {"OnMarkUnblindedTokensAsReserved", "Retry",
                      "OnReservedUnblindedTokensForRetryAttempt"} =>
              r.retry \in 0..RetryLimit
         /\ r.on = "TokenProcessed" => r.publisher \in Publishers
         /\ r.on \in {"TokenProcessed", "ContributionAmountSaved"} =>
              r.final \in BOOLEAN
         /\ r.on = "OnResult" =>
              r.result \in {"LEDGER_OK", "LEDGER_ERROR", "NOT_ENOUGH_FUNDS",
                            "RETRY_LONG"}
         /\ r.on = "NotSaved" => r.result \in {"LEDGER_ERROR", "RETRY"}
BY DEF Replies, ReplyKinds, ItemHandlers

LEMMA RequestParts ==
  ASSUME NEW r \in Requests
  PROVE  /\ r.on \in RequestKinds
         /\ r.on = "OnBalance" =>
              /\ r.caller \in Items \cup {NoItem} /\ r.item \in Items
              /\ r.amount \in Nat /\ r.funds \in Nat
         /\ r.on # "OnBalance" =>
              /\ r.c \in Contributions /\ r.publisher \in Publishers
              /\ r.handled \in BOOLEAN
         /\ r.on = "OnRedeemTokens" =>
              r.ids \in SUBSET Tokens /\ r.final \in BOOLEAN
BY DEF Requests, RequestKinds

LEMMA RepliesAreNotRequests == Replies \cap Requests = {}
<1>1. ReplyKinds \cap RequestKinds = {}
  BY DEF ReplyKinds, RequestKinds
<1> QED
  BY <1>1, ReplyParts, RequestParts

\* The replies that continue a contribution and carry nothing else.
LEMMA PlainReply ==
  ASSUME NEW c \in Contributions,
         NEW on \in {"OnPrepareAutoContribution", "PrepareStepSaved",
                     "ContributionInfo", "OnServerPublisherInfo", "Completed",
                     "ContributionCompletedSaved", "SetRetryCounter"}
  PROVE  [on |-> on, c |-> c] \in Replies
BY DEF Replies

LEMMA ResultReply ==
  ASSUME NEW c \in Contributions,
         NEW result \in {"LEDGER_OK", "LEDGER_ERROR", "NOT_ENOUGH_FUNDS",
                         "RETRY_LONG"}
  PROVE  [on |-> "OnResult", c |-> c, result |-> result] \in Replies
BY DEF Replies

\* The result a handler makes of a write that failed.
LEMMA NotSavedReply ==
  ASSUME NEW c \in Contributions, NEW result \in {"LEDGER_ERROR", "RETRY"}
  PROVE  [on |-> "NotSaved", c |-> c, result |-> result] \in Replies
BY DEF Replies

-----------------------------------------------------------------------------
(* What is in flight after a handler, and what that means for the          *)
(* contributions.                                                          *)

LEMMA InFlightAfterReply ==
  ASSUME TypeOK, NEW r \in replies, NEW N, NEW M,
         replies' = (replies \ {r}) \cup N, requests' = requests \cup M
  PROVE  InFlight' = (InFlight \ {r}) \cup (N \cup M)
<1>1. r \notin requests
  BY RepliesAreNotRequests DEF TypeOK
<1> QED
  BY <1>1 DEF InFlight

LEMMA InFlightAfterRequest ==
  ASSUME TypeOK, NEW r \in requests, NEW N, NEW M,
         replies' = replies \cup N, requests' = (requests \ {r}) \cup M
  PROVE  InFlight' = (InFlight \ {r}) \cup (N \cup M)
<1>1. r \notin replies
  BY RepliesAreNotRequests DEF TypeOK
<1> QED
  BY <1>1 DEF InFlight

LEMMA InFlightFields ==
  ASSUME TypeOK, NEW r \in InFlight, r.on \notin ItemHandlers
  PROVE  r.c \in Contributions
BY ReplyParts, RequestParts DEF InFlight, TypeOK, ItemHandlers

LEMMA RowType ==
  ASSUME TypeOK, NEW c \in Contributions, Exists(c)
  PROVE  contributions[c] \in ContributionRows
BY DEF TypeOK, Exists

\* Whoever handles r is alone with its contribution.
LEMMA Alone ==
  ASSUME IInv, NEW r \in InFlight, r.on \notin ItemHandlers
  PROVE  /\ r.c \in Contributions
         /\ Exists(r.c)
         /\ Continuations(r.c) = {r}
         /\ r.c \notin retryTimers
         /\ r.on # "ContributionCompletedSaved" =>
              ~Finished(r.c) /\ contributions[r.c].retry # -1
         /\ r.on = "OnServerPublisherInfo" => Unpaid(contributions[r.c]) # {}
<1>1. r.c \in Contributions
  BY InFlightFields DEF IInv
<1>2. r \in Continuations(r.c)
  BY DEF Continuations, InFlight
<1> QED
  BY <1>1, <1>2 DEF IInv, ContributionOK, WaitsForOne

LEMMA ContinuationsAfter ==
  ASSUME IInv, NEW r \in InFlight, NEW N,
         InFlight' = (InFlight \ {r}) \cup N
  PROVE  /\ r.on \notin ItemHandlers =>
              Continuations(r.c)' = {n \in N : n.on \notin ItemHandlers
                                               /\ n.c = r.c}
         /\ \A c \in Contributions :
              /\ r.on \in ItemHandlers \/ r.c # c
              /\ \A n \in N : n.on \in ItemHandlers \/ n.c # c
              => Continuations(c)' = Continuations(c)
<1>1. \A c : Continuations(c) = {x \in InFlight : x.on \notin ItemHandlers
                                                  /\ x.c = c}
  BY DEF Continuations, InFlight
<1>2. \A c : Continuations(c)' = {x \in InFlight' : x.on \notin ItemHandlers
                                                    /\ x.c = c}
  BY DEF Continuations, InFlight
<1>3. r.on \notin ItemHandlers => Continuations(r.c) = {r}
  BY Alone
<1> QED
  BY <1>1, <1>2, <1>3

\* A contribution nothing happens to stays as it is.
LEMMA Untouched ==
  ASSUME NEW c \in Contributions, ContributionOK(c),
         contributions'[c] = contributions[c],
         Continuations(c)' = Continuations(c),
         c \in retryTimers' <=> c \in retryTimers,
         transfers'[c] = transfers[c], restarts' = restarts,
         disk' = "well" => disk = "well"
  PROVE  ContributionOK(c)'
BY DEF ContributionOK, WaitsForOne, TransfersBounded, Forgotten, Exists,
  Finished, PastTransfer

\* The three things a handler does to the contribution it was called for: it
\* asks for something else, ...
LEMMA GoesOn ==
  ASSUME IInv, NEW r \in InFlight, r.on \notin ItemHandlers,
         r.on # "ContributionCompletedSaved",
         NEW s, s.on \notin ItemHandlers, s.c = r.c,
         s.on # "ContributionCompletedSaved",
         NEW M, \A m \in M : m.on \in ItemHandlers,
         InFlight' = (InFlight \ {r}) \cup ({s} \cup M),
         \A c \in Contributions :
           c # r.c => contributions'[c] = contributions[c],
         Exists(r.c)', contributions'[r.c].step \notin FinalSteps,
         contributions'[r.c].retry # -1,
         s.on = "OnServerPublisherInfo" => Unpaid(contributions'[r.c]) # {},
         retryTimers' = retryTimers, restarts' = restarts, disk' = disk,
         \/ transfers' = transfers /\ (PastTransfer(r) => PastTransfer(s))
         \/ /\ transfers' = [transfers EXCEPT ![r.c] = @ + 1]
            /\ ~PastTransfer(r) /\ PastTransfer(s)
  PROVE  \A c \in Contributions : ContributionOK(c)'
<1>1. /\ r.c \in Contributions /\ Exists(r.c) /\ Continuations(r.c) = {r}
      /\ r.c \notin retryTimers /\ ~Finished(r.c)
  BY Alone
<1>2. /\ Continuations(r.c)' = {s}
      /\ \A c \in Contributions :
           c # r.c => Continuations(c)' = Continuations(c)
  <2> DEFINE N == {s} \cup M
  <2>1. InFlight' = (InFlight \ {r}) \cup N
    OBVIOUS
  <2>2. /\ {n \in N : n.on \notin ItemHandlers /\ n.c = r.c} = {s}
        /\ \A n \in N : n.on \in ItemHandlers \/ n.c = r.c
    OBVIOUS
  <2> HIDE DEF N
  <2> QED
    BY <2>1, <2>2, ContinuationsAfter
<1>3. ContributionOK(r.c)'
  <2>1. WaitsForOne(r.c)'
    BY <1>1, <1>2 DEF WaitsForOne, Exists, Finished
  <2>2. TransfersBounded(r.c)'
    <3>1. transfers[r.c] \in Nat /\ restarts \in Nat /\ TransfersBounded(r.c)
      BY <1>1 DEF IInv, TypeOK, ContributionOK
    <3>2. transfers[r.c] <= restarts \/ PastTransfer(r)
      BY <1>1, <3>1 DEF TransfersBounded, Forgotten
    <3>3. PastTransfer(s)' <=> PastTransfer(s)
      BY DEF PastTransfer
    <3>4. CASE transfers' = transfers /\ (PastTransfer(r) => PastTransfer(s))
      BY <1>2, <3>1, <3>2, <3>3, <3>4 DEF TransfersBounded
    <3>5. CASE /\ transfers' = [transfers EXCEPT ![r.c] = @ + 1]
               /\ ~PastTransfer(r) /\ PastTransfer(s)
      <4>1. transfers'[r.c] = transfers[r.c] + 1
        BY <1>1, <3>5 DEF IInv, TypeOK
      <4> QED
        BY <1>2, <3>1, <3>2, <3>3, <3>5, <4>1 DEF TransfersBounded
    <3> QED
      BY <3>4, <3>5
  <2> QED
    BY <2>1, <2>2 DEF ContributionOK
<1>4. ASSUME NEW c \in Contributions, c # r.c
      PROVE  ContributionOK(c)'
  <2>1. transfers'[c] = transfers[c]
    BY <1>1, <1>4 DEF IInv, TypeOK
  <2> QED
    BY <1>2, <1>4, <2>1, Untouched DEF IInv
<1> QED
  BY <1>3, <1>4

\* ... it waits for its retry timer, ...
LEMMA WaitsForTimer ==
  ASSUME IInv, NEW r \in InFlight, r.on \notin ItemHandlers,
         r.on # "ContributionCompletedSaved", ~PastTransfer(r),
         InFlight' = InFlight \ {r},
         contributions' = contributions,
         retryTimers' = retryTimers \cup {r.c}, restarts' = restarts,
         transfers' = transfers, disk' = disk
  PROVE  \A c \in Contributions : ContributionOK(c)'
<1>1. /\ r.c \in Contributions /\ Exists(r.c) /\ Continuations(r.c) = {r}
      /\ ~Finished(r.c) /\ contributions[r.c].retry # -1
  BY Alone
<1>2. /\ Continuations(r.c)' = {}
      /\ \A c \in Contributions :
           c # r.c => Continuations(c)' = Continuations(c)
  <2> DEFINE N == {}
  <2>1. /\ InFlight' = (InFlight \ {r}) \cup N
        /\ {n \in N : n.on \notin ItemHandlers /\ n.c = r.c} = {}
        /\ \A n \in N : n.on \in ItemHandlers
    OBVIOUS
  <2> HIDE DEF N
  <2> QED
    BY <2>1, ContinuationsAfter
<1>3. ContributionOK(r.c)'
  <2>1. WaitsForOne(r.c)'
    BY <1>1, <1>2 DEF WaitsForOne, Exists, Finished
  <2>2. transfers[r.c] \in Nat /\ restarts \in Nat /\ TransfersBounded(r.c)
    BY <1>1 DEF IInv, TypeOK, ContributionOK
  <2>3. transfers[r.c] <= restarts
    BY <1>1, <2>2 DEF TransfersBounded, Forgotten
  <2> QED
    BY <2>1, <2>2, <2>3 DEF ContributionOK, TransfersBounded
<1>4. \A c \in Contributions : c # r.c => ContributionOK(c)'
  BY <1>2, Untouched DEF IInv
<1> QED
  BY <1>3, <1>4

\* ... it is over, ...
LEMMA Ends ==
  ASSUME IInv, NEW r \in InFlight, r.on \notin ItemHandlers,
         NEW N, N \subseteq {[on |-> "ContributionCompletedSaved", c |-> r.c]},
         InFlight' = (InFlight \ {r}) \cup N,
         \A c \in Contributions :
           c # r.c => contributions'[c] = contributions[c],
         Exists(r.c)', contributions'[r.c].step \in FinalSteps,
         retryTimers' = retryTimers, restarts' = restarts,
         transfers' = transfers, disk' = disk
  PROVE  \A c \in Contributions : ContributionOK(c)'
<1>1. /\ r.c \in Contributions /\ Exists(r.c) /\ Continuations(r.c) = {r}
      /\ r.c \notin retryTimers
  BY Alone
<1>2. /\ Continuations(r.c)' \subseteq
           {[on |-> "ContributionCompletedSaved", c |-> r.c]}
      /\ \A c \in Contributions :
           c # r.c => Continuations(c)' = Continuations(c)
  <2>1. \A n \in N : n.c = r.c
    OBVIOUS
  <2> QED
    BY <2>1, ContinuationsAfter
<1>3. ContributionOK(r.c)'
  <2>1. WaitsForOne(r.c)'
    BY <1>1, <1>2 DEF WaitsForOne, Exists, Finished
  <2>2. TransfersBounded(r.c)'
    BY <1>1 DEF IInv, TypeOK, ContributionOK, TransfersBounded, Exists,
      Finished
  <2> QED
    BY <2>1, <2>2 DEF ContributionOK
<1>4. \A c \in Contributions : c # r.c => ContributionOK(c)'
  BY <1>2, Untouched DEF IInv
<1> QED
  BY <1>3, <1>4

\* ... or, after the disk was full, it is forgotten or its end is not saved.
LEMMA NotWritten ==
  ASSUME IInv, disk # "well", NEW r \in InFlight, r.on \notin ItemHandlers,
         NEW N, N \subseteq {[on |-> "ContributionCompletedSaved", c |-> r.c]},
         InFlight' = (InFlight \ {r}) \cup N,
         UNCHANGED <<contributions, retryTimers, restarts, transfers, disk>>
  PROVE  \A c \in Contributions : ContributionOK(c)'
<1>1. /\ r.c \in Contributions /\ Exists(r.c) /\ Continuations(r.c) = {r}
      /\ r.c \notin retryTimers
      /\ ~Finished(r.c) => contributions[r.c].retry # -1
  BY Alone DEF IInv, ContributionOK, WaitsForOne
<1>2. /\ Continuations(r.c)' \subseteq
           {[on |-> "ContributionCompletedSaved", c |-> r.c]}
      /\ \A c \in Contributions :
           c # r.c => Continuations(c)' = Continuations(c)
  <2>1. \A n \in N : n.c = r.c
    OBVIOUS
  <2> QED
    BY <2>1, ContinuationsAfter
<1>3. ContributionOK(r.c)'
  <2>1. WaitsForOne(r.c)'
    BY <1>1, <1>2 DEF WaitsForOne, Exists, Finished
  <2>2. TransfersBounded(r.c)'
    BY <1>1, <1>2 DEF IInv, TypeOK, ContributionOK, TransfersBounded, Exists,
      Forgotten, PastTransfer
  <2> QED
    BY <2>1, <2>2 DEF ContributionOK
<1>4. \A c \in Contributions : c # r.c => ContributionOK(c)'
  BY <1>2, Untouched DEF IInv
<1> QED
  BY <1>3, <1>4

PassKinds == {"OnBalance", "OnEntrySaved", "OnQueueSaved",
              "OnMarkContributionQueueAsComplete"}

\* A pass over the queue stays under way when something else is handled, and
\* when it goes on.
LEMMA PassStays ==
  ASSUME QueueNeverWedged, NEW r \in InFlight, NEW N,
         InFlight' = (InFlight \ {r}) \cup N,
         r.on \notin PassKinds \/ \E n \in N : n.on \in PassKinds,
         queueInProgress' = queueInProgress, disk' = disk
  PROVE  QueueNeverWedged'
BY DEF QueueNeverWedged, PassUnderWay, PassKinds, InFlight

-----------------------------------------------------------------------------
(* The helpers the handlers are made of.                                   *)

Everything == \A c \in Contributions : ContributionOK(c)

\* Handlers of a contribution that is not finished.
Handles(r) == r.on \notin ItemHandlers \cup {"ContributionCompletedSaved"}

LEMMA SetStepParts ==
  ASSUME TypeOK, Writes, NEW c \in Contributions, Exists(c),
         NEW step \in Steps, NEW retry \in -1..RetryLimit,
         SetStep(c, step, retry)
  PROVE  /\ contributions' \in
              [Contributions -> ContributionRows \cup {NoContribution}]
         /\ Exists(c)' /\ contributions'[c].step = step
         /\ contributions'[c].retry = retry
         /\ Unpaid(contributions'[c]) = Unpaid(contributions[c])
         /\ \A other \in Contributions :
              other # c => contributions'[other] = contributions[other]
<1> DEFINE row  == contributions[c]
           row2 == [row EXCEPT !.step = step, !.retry = retry]
<1>1. row \in ContributionRows
  BY RowType
<1>2. /\ row2 \in ContributionRows /\ row2.step = step /\ row2.retry = retry
      /\ row2.publishers = row.publishers /\ row2.total = row.total
      /\ row2.contributed = row.contributed
  BY <1>1 DEF ContributionRows
<1>3. contributions' = [contributions EXCEPT ![c] = row2]
  BY DEF SetStep, Written, TypeOK
<1> HIDE DEF row, row2
<1>4. /\ contributions' \in
           [Contributions -> ContributionRows \cup {NoContribution}]
      /\ contributions'[c] = row2
      /\ \A other \in Contributions :
           other # c => contributions'[other] = contributions[other]
  BY <1>2, <1>3 DEF TypeOK
<1>5. Unpaid(row2) = Unpaid(row)
  BY <1>2 DEF Unpaid
<1> QED
  BY <1>2, <1>4, <1>5, NoContributionAssumption DEF Exists, row

\* The next step of a contribution that is not finished, written or not.
LEMMA OnTheWay ==
  ASSUME TypeOK, NEW c \in Contributions, Exists(c), ~Finished(c),
         contributions[c].retry # -1,
         NEW step \in Steps \ FinalSteps, NEW retry \in 0..RetryLimit,
         SetStep(c, step, retry)
  PROVE  /\ contributions' \in
              [Contributions -> ContributionRows \cup {NoContribution}]
         /\ Exists(c)' /\ contributions'[c].step \notin FinalSteps
         /\ contributions'[c].retry # -1
         /\ \A other \in Contributions :
              other # c => contributions'[other] = contributions[other]
<1>1. CASE Writes
  <2>1. step \in Steps /\ retry \in -1..RetryLimit /\ retry # -1
    BY BoundsAssumption
  <2> QED
    BY <1>1, <2>1, SetStepParts
<1>2. CASE ~Writes
  BY <1>2 DEF SetStep, Written, TypeOK, Exists, Finished
<1> QED
  BY <1>1, <1>2

LEMMA NextReply ==
  ASSUME IInv, NEW r \in replies, Handles(r), r.on \notin PassKinds,
         NEW s \in Replies, Handles(s), s.c = r.c,
         s.on = "OnServerPublisherInfo" => Unpaid(contributions'[r.c]) # {},
         PastTransfer(r) => PastTransfer(s),
         \A c \in Contributions :
           c # r.c => contributions'[c] = contributions[c],
         Exists(r.c)', contributions'[r.c].step \notin FinalSteps,
         contributions'[r.c].retry # -1,
         Await({r}, {s}),
         UNCHANGED <<requests, retryTimers, queueInProgress, transfers,
                     restarts, disk>>
  PROVE  replies' \subseteq Replies /\ Everything' /\ QueueNeverWedged'
<1>1. InFlight' = (InFlight \ {r}) \cup ({s} \cup {})
  BY InFlightAfterReply, requests' = requests \cup {} DEF IInv, Await
<1>2. Everything'
  <2> DEFINE M == {}
  <2>1. InFlight' = (InFlight \ {r}) \cup ({s} \cup M) /\ M = {}
    BY <1>1
  <2> HIDE DEF M
  <2> QED
    BY <2>1, GoesOn DEF Handles, InFlight, Everything
<1>3. QueueNeverWedged'
  BY <1>1, PassStays DEF IInv, InFlight
<1> QED
  BY <1>2, <1>3 DEF IInv, TypeOK, Await

\* As NextReply, for a handler that leaves the contribution alone.
LEMMA NextReplyOnly ==
  ASSUME IInv, NEW r \in replies, Handles(r), r.on \notin PassKinds,
         NEW s \in Replies, Handles(s), s.c = r.c,
         s.on = "OnServerPublisherInfo" => Unpaid(contributions[r.c]) # {},
         PastTransfer(r) => PastTransfer(s),
         Await({r}, {s}),
         UNCHANGED <<contributions, requests, retryTimers, queueInProgress,
                     transfers, restarts, disk>>
  PROVE  replies' \subseteq Replies /\ Everything' /\ QueueNeverWedged'
<1>1. Exists(r.c) /\ ~Finished(r.c) /\ contributions[r.c].retry # -1
  BY Alone DEF InFlight, Handles
<1> QED
  BY <1>1, NextReply DEF Exists, Finished

Results == {"LEDGER_OK", "LEDGER_ERROR", "NOT_ENOUGH_FUNDS", "RETRY",
            "RETRY_LONG"}

LEMMA ResultOfReply ==
  ASSUME IInv, NEW r \in replies, Handles(r), r.on \notin PassKinds,
         NEW result \in Results, Result({r}, r.c, result),
         PastTransfer(r) => result \notin {"RETRY", "RETRY_LONG"},
         UNCHANGED <<contributions, requests, queueInProgress, transfers,
                     restarts, disk>>
  PROVE  /\ replies' \subseteq Replies /\ retryTimers' \subseteq Contributions
         /\ Everything' /\ QueueNeverWedged'
<1>1. r.c \in Contributions
  BY Alone DEF InFlight, Handles
<1>2. CASE result = "RETRY"
  <2>1. /\ retryTimers' = retryTimers \cup {r.c} /\ replies' = replies \ {r}
        /\ ~PastTransfer(r)
    BY <1>2 DEF Result, Await
  <2> DEFINE N == {}
             M == {}
  <2>2. replies' = (replies \ {r}) \cup N /\ requests' = requests \cup M
    BY <2>1
  <2>3. N \cup M = {}
    OBVIOUS
  <2> HIDE DEF N, M
  <2>4. InFlight' = (InFlight \ {r}) \cup (N \cup M)
    BY <2>2, InFlightAfterReply DEF IInv
  <2>5. Everything'
    BY <2>1, <2>3, <2>4, WaitsForTimer DEF Handles, InFlight, Everything
  <2>6. QueueNeverWedged'
    BY <2>4, PassStays DEF IInv, InFlight
  <2> QED
    BY <1>1, <2>1, <2>5, <2>6 DEF IInv, TypeOK
<1>3. CASE result # "RETRY"
  <2> DEFINE s == [on |-> "OnResult", c |-> r.c, result |-> result]
  <2>1. Await({r}, {s}) /\ retryTimers' = retryTimers
    BY <1>3 DEF Result
  <2>2. s \in Replies
    BY <1>1, <1>3, ResultReply DEF Results
  <2>3. /\ Handles(s) /\ s.c = r.c /\ s.on = "OnResult"
        /\ s.result = result
    BY DEF Handles, ItemHandlers
  <2> HIDE DEF s
  <2>4. PastTransfer(r) => PastTransfer(s)
    BY <2>3 DEF PastTransfer
  <2>5. replies' \subseteq Replies /\ Everything' /\ QueueNeverWedged'
    BY <2>1, <2>2, <2>3, <2>4, NextReplyOnly
  <2> QED
    BY <2>1, <2>5 DEF IInv, TypeOK
<1> QED
  BY <1>2, <1>3

LEMMA ResultOfRequest ==
  ASSUME IInv, NEW r \in requests, Handles(r), r.on \notin PassKinds,
         NEW result \in Results, Result({}, r.c, result), Asked({r}, {}),
         PastTransfer(r) => result \notin {"RETRY", "RETRY_LONG"},
         UNCHANGED <<contributions, queueInProgress, transfers, restarts, disk>>
  PROVE  /\ replies' \subseteq Replies /\ retryTimers' \subseteq Contributions
         /\ requests' \subseteq Requests
         /\ Everything' /\ QueueNeverWedged'
<1>1. /\ r.c \in Contributions /\ Exists(r.c) /\ ~Finished(r.c)
      /\ contributions[r.c].retry # -1
  BY Alone DEF InFlight, Handles
<1>2. requests' = requests \ {r} /\ requests' \subseteq Requests
  BY DEF Asked, IInv, TypeOK
<1>3. CASE result = "RETRY"
  <2>1. /\ retryTimers' = retryTimers \cup {r.c} /\ replies' = replies
        /\ ~PastTransfer(r)
    BY <1>3 DEF Result, Await
  <2> DEFINE N == {}
             M == {}
  <2>2. replies' = replies \cup N /\ requests' = (requests \ {r}) \cup M
    BY <1>2, <2>1
  <2>3. N \cup M = {}
    OBVIOUS
  <2> HIDE DEF N, M
  <2>4. InFlight' = (InFlight \ {r}) \cup (N \cup M)
    BY <2>2, InFlightAfterRequest DEF IInv
  <2>5. Everything'
    BY <2>1, <2>3, <2>4, WaitsForTimer DEF Handles, InFlight, Everything
  <2>6. QueueNeverWedged'
    BY <2>4, PassStays DEF IInv, InFlight
  <2> QED
    BY <1>1, <1>2, <2>1, <2>5, <2>6 DEF IInv, TypeOK
<1>4. CASE result # "RETRY"
  <2> DEFINE s == [on |-> "OnResult", c |-> r.c, result |-> result]
             N == {s}
             M == {}
  <2>1. replies' = replies \cup N /\ retryTimers' = retryTimers
    BY <1>4 DEF Result, Await
  <2>2. s \in Replies
    BY <1>1, <1>4, ResultReply DEF Results
  <2>3. /\ Handles(s) /\ s.c = r.c /\ s.on = "OnResult"
        /\ s.result = result
    BY DEF Handles, ItemHandlers
  <2>4. requests' = (requests \ {r}) \cup M /\ M = {} /\ N = {s}
    BY <1>2
  <2> HIDE DEF s, N, M
  <2>5. PastTransfer(r) => PastTransfer(s)
    BY <2>3 DEF PastTransfer
  <2>6. InFlight' = (InFlight \ {r}) \cup (N \cup M)
    BY <2>1, <2>4, InFlightAfterRequest DEF IInv
  <2>7. InFlight' = (InFlight \ {r}) \cup ({s} \cup M)
    BY <2>4, <2>6
  <2>8. Everything'
    BY <1>1, <2>1, <2>3, <2>4, <2>5, <2>7, GoesOn
    DEF Handles, InFlight, Everything, Exists, Finished
  <2>9. QueueNeverWedged'
    BY <2>6, PassStays DEF IInv, InFlight
  <2> QED
    BY <1>2, <2>1, <2>2, <2>4, <2>8, <2>9 DEF IInv, TypeOK
<1> QED
  BY <1>3, <1>4

\* What is in flight when the answer to the last step is waited for.
LEMMA WaitsForEnd ==
  ASSUME IInv, NEW r \in replies, r.c \in Contributions, NEW N,
         N \subseteq {[on |-> "ContributionCompletedSaved", c |-> r.c]},
         Await({r}, N), requests' = requests
  PROVE  /\ replies' \subseteq Replies /\ InFlight' = (InFlight \ {r}) \cup N
<1> DEFINE M == {}
<1>1. replies' = (replies \ {r}) \cup N /\ requests' = requests \cup M
  BY DEF Await
<1>2. N \cup M = N
  OBVIOUS
<1>3. replies' \subseteq Replies
  BY <1>1, PlainReply DEF IInv, TypeOK
<1> HIDE DEF M
<1>4. InFlight' = (InFlight \ {r}) \cup (N \cup M)
  BY <1>1, InFlightAfterReply DEF IInv
<1> QED
  BY <1>2, <1>3, <1>4

LEMMA CompletedStep ==
  ASSUME IInv, NEW r \in replies, Handles(r), r.on \notin PassKinds,
         NEW result, ContributionCompleted({r}, r.c, result),
         UNCHANGED <<requests, retryTimers, queueInProgress, transfers,
                     restarts, disk>>
  PROVE  /\ contributions' \in
              [Contributions -> ContributionRows \cup {NoContribution}]
         /\ replies' \subseteq Replies /\ Everything' /\ QueueNeverWedged'
<1>1. r.c \in Contributions /\ Exists(r.c)
  BY Alone DEF InFlight, Handles
<1>2. /\ SetStep(r.c, FinalStep(result), -1)
      /\ FinalStep(result) \in FinalSteps /\ FinalSteps \subseteq Steps
      /\ -1 \in -1..RetryLimit
  BY BoundsAssumption DEF ContributionCompleted, FinalStep, FinalSteps, Steps
<1> DEFINE N == {[on |-> "ContributionCompletedSaved", c |-> r.c]}
<1>3. Await({r}, N)
  BY DEF ContributionCompleted
<1>4. N \subseteq {[on |-> "ContributionCompletedSaved", c |-> r.c]}
  OBVIOUS
<1> HIDE DEF N
<1>5. replies' \subseteq Replies /\ InFlight' = (InFlight \ {r}) \cup N
  BY <1>1, <1>3, <1>4, WaitsForEnd
<1>6. QueueNeverWedged'
  BY <1>5, PassStays DEF IInv, InFlight
<1>7. CASE Writes
  <2>1. /\ contributions' \in
             [Contributions -> ContributionRows \cup {NoContribution}]
        /\ Exists(r.c)' /\ contributions'[r.c].step \in FinalSteps
        /\ \A c \in Contributions :
             c # r.c => contributions'[c] = contributions[c]
    BY <1>1, <1>2, <1>7, SetStepParts DEF IInv
  <2>2. Everything'
    BY <1>4, <1>5, <2>1, Ends DEF Handles, InFlight, Everything
  <2> QED
    BY <1>5, <1>6, <2>1, <2>2
<1>8. CASE ~Writes
  <2>1. contributions' = contributions /\ disk # "well"
    BY <1>2, <1>8 DEF SetStep, Written, Writes
  <2>2. Everything'
    BY <1>4, <1>5, <2>1, NotWritten DEF Handles, InFlight, Everything
  <2> QED
    BY <1>5, <1>6, <2>1, <2>2 DEF IInv, TypeOK
<1> QED
  BY <1>7, <1>8

-----------------------------------------------------------------------------
(* The handlers, one by one.  First those of the retries and the results.  *)

LEMMA OnResultStep ==
  ASSUME IInv, NEW r \in replies, r.on = "OnResult", OnResult(r)
  PROVE  IInv'
<1>1. r.result \in Results \ {"RETRY"} /\ r.c \in Contributions
  BY ReplyParts DEF IInv, TypeOK, Results, ItemHandlers
<1>2. Handles(r) /\ r.on \notin PassKinds
  BY DEF Handles, ItemHandlers, PassKinds
<1>3. CASE r.result = "RETRY_LONG"
  <2> DEFINE N == {}
             M == {}
  <2>1. replies' = (replies \ {r}) \cup N /\ requests' = requests \cup M
    BY <1>3 DEF OnResult, Await
  <2>2. N \cup M = {} /\ N = {}
    OBVIOUS
  <2> HIDE DEF N, M
  <2>3. InFlight' = (InFlight \ {r}) \cup (N \cup M)
    BY <2>1, InFlightAfterReply DEF IInv
  <2>4. ~PastTransfer(r)
    BY <1>3 DEF PastTransfer
  <2>5. Everything'
    BY <1>2, <1>3, <2>2, <2>3, <2>4, WaitsForTimer
    DEF Handles, InFlight, Everything, OnResult, servers
  <2>6. QueueNeverWedged'
    BY <1>2, <2>3, PassStays DEF IInv, InFlight, OnResult, passes, servers
  <2>7. TypeOK'
    BY <1>1, <1>3, <2>1, <2>2
    DEF IInv, TypeOK, OnResult, passes, prefs, servers
  <2> QED
    BY <2>5, <2>6, <2>7 DEF IInv, Everything
<1>4. CASE r.result # "RETRY_LONG"
  <2>1. /\ contributions' \in
             [Contributions -> ContributionRows \cup {NoContribution}]
        /\ replies' \subseteq Replies /\ Everything' /\ QueueNeverWedged'
    BY <1>2, <1>4, CompletedStep DEF OnResult, passes, servers
  <2>2. TypeOK'
    BY <1>4, <2>1 DEF IInv, TypeOK, OnResult, passes, prefs, servers
  <2> QED
    BY <2>1, <2>2 DEF IInv, Everything
<1> QED
  BY <1>3, <1>4

LEMMA NotSavedStep ==
  ASSUME IInv, NEW r \in replies, r.on = "NotSaved", NotSaved(r)
  PROVE  IInv'
<1>1. Handles(r) /\ r.on \notin PassKinds
  BY DEF Handles, ItemHandlers, PassKinds
<1>2. /\ r.result \in Results /\ Result({r}, r.c, r.result)
      /\ PastTransfer(r) => r.result \notin {"RETRY", "RETRY_LONG"}
  BY ReplyParts DEF IInv, TypeOK, Results, NotSaved, PastTransfer
<1>3. /\ replies' \subseteq Replies /\ retryTimers' \subseteq Contributions
      /\ Everything' /\ QueueNeverWedged'
  BY <1>1, <1>2, ResultOfReply DEF NotSaved, database, passes, servers
<1>4. TypeOK'
  BY <1>3 DEF IInv, TypeOK, NotSaved, database, passes, prefs, servers
<1> QED
  BY <1>3, <1>4 DEF IInv, Everything

LEMMA SpendableType ==
  ASSUME tokens \in [Tokens -> [owner : Contributions \cup {NoOwner},
                                reserved : BOOLEAN, spent : BOOLEAN]],
         NEW c \in Contributions
  PROVE  MarkRecordListAsSpendable(tokens, c) \in
           [Tokens -> [owner : Contributions \cup {NoOwner},
                       reserved : BOOLEAN, spent : BOOLEAN]]
BY DEF MarkRecordListAsSpendable, FreshToken

LEMMA ContributionCompletedSavedStep ==
  ASSUME IInv, NEW r \in replies, r.on = "ContributionCompletedSaved",
         ContributionCompletedSaved(r)
  PROVE  IInv'
<1>1. r.on \notin ItemHandlers /\ r.on \notin PassKinds
  BY DEF ItemHandlers, PassKinds
<1>2. /\ r.c \in Contributions /\ Exists(r.c) /\ Continuations(r.c) = {r}
  BY <1>1, Alone DEF InFlight
<1>3. Finished(r.c) \/ disk # "well"
  BY <1>2 DEF IInv, ContributionOK, WaitsForOne
<1> DEFINE N == {}
<1>4. Await({r}, N) /\ N = {}
  BY DEF ContributionCompletedSaved
<1> HIDE DEF N
<1>5. UNCHANGED <<contributions, requests, retryTimers, restarts, transfers,
                  disk>>
  BY DEF ContributionCompletedSaved, servers
<1>6. replies' \subseteq Replies /\ InFlight' = (InFlight \ {r}) \cup N
  BY <1>2, <1>4, <1>5, WaitsForEnd
<1>7. Everything'
  <2>1. CASE Finished(r.c)
    BY <1>1, <1>4, <1>5, <1>6, <2>1, Ends
    DEF InFlight, Everything, Exists, Finished
  <2>2. CASE disk # "well"
    BY <1>1, <1>4, <1>5, <1>6, <2>2, NotWritten DEF InFlight, Everything
  <2> QED
    BY <1>3, <2>1, <2>2
<1>8. QueueNeverWedged'
  BY <1>1, <1>5, <1>6, PassStays
  DEF IInv, InFlight, ContributionCompletedSaved, passes
<1>9. TypeOK'
  <2>1. tokens' \in [Tokens -> [owner : Contributions \cup {NoOwner},
                                reserved : BOOLEAN, spent : BOOLEAN]]
    BY <1>2, SpendableType
    DEF IInv, TypeOK, ContributionCompletedSaved, Written
  <2> QED
    BY <1>5, <1>6, <2>1
    DEF IInv, TypeOK, ContributionCompletedSaved, passes, prefs, servers
<1> QED
  BY <1>7, <1>8, <1>9 DEF IInv, Everything

\* The handler stops because its write has failed.
LEMMA ForgottenStep ==
  ASSUME IInv, ~Writes, NEW r \in replies, Handles(r), Await({r}, {}),
         UNCHANGED <<contributions, requests, retryTimers, transfers, restarts,
                     disk>>
  PROVE  replies' \subseteq Replies /\ Everything' /\ QueueNeverWedged'
<1> DEFINE N == {}
<1>1. Await({r}, N)
  OBVIOUS
<1>2. N \subseteq {[on |-> "ContributionCompletedSaved", c |-> r.c]}
  OBVIOUS
<1> HIDE DEF N
<1>3. r.c \in Contributions
  BY Alone DEF InFlight, Handles
<1>4. replies' \subseteq Replies /\ InFlight' = (InFlight \ {r}) \cup N
  BY <1>1, <1>2, <1>3, WaitsForEnd
<1>5. disk # "well"
  BY DEF Writes
<1>6. Everything'
  BY <1>2, <1>4, <1>5, NotWritten DEF Handles, InFlight, Everything
<1>7. QueueNeverWedged'
  BY <1>5 DEF QueueNeverWedged
<1> QED
  BY <1>4, <1>6, <1>7

LEMMA SetRetryCounterStep ==
  ASSUME IInv, NEW r \in replies, r.on = "SetRetryCounter", SetRetryCounter(r)
  PROVE  IInv'
<1>1. Handles(r) /\ r.on \notin PassKinds /\ ~PastTransfer(r)
  BY DEF Handles, ItemHandlers, PassKinds, PastTransfer
<1>2. /\ r.c \in Contributions /\ Exists(r.c) /\ ~Finished(r.c)
      /\ contributions[r.c].retry # -1
  BY <1>1, Alone DEF InFlight, Handles
<1> DEFINE info == contributions[r.c]
<1>3. /\ info.retry \in 0..RetryLimit /\ info.step \in Steps
      /\ info.step \notin FinalSteps
  BY <1>2, RowType, BoundsAssumption DEF IInv, ContributionRows, Finished
<1>4. CASE info.retry = RetryLimit /\ info.step # "PREPARE"
  <2>1. /\ contributions' \in
             [Contributions -> ContributionRows \cup {NoContribution}]
        /\ replies' \subseteq Replies /\ Everything' /\ QueueNeverWedged'
    BY <1>1, <1>4, CompletedStep DEF SetRetryCounter, passes, servers
  <2>2. TypeOK'
    BY <2>1 DEF IInv, TypeOK, SetRetryCounter, passes, prefs, servers
  <2> QED
    BY <2>1, <2>2 DEF IInv, Everything
<1>5. CASE ~(info.retry = RetryLimit /\ info.step # "PREPARE")
  <2> DEFINE s == [on |-> "Retry", c |-> r.c, retry |-> info.retry]
  <2>1. CountUp(info) \in 0..RetryLimit
    BY <1>3, <1>5, BoundsAssumption DEF CountUp
  <2>2. SetStep(r.c, info.step, CountUp(info)) /\ Await({r}, IfWritten({s}))
    BY <1>5 DEF SetRetryCounter
  <2>3. /\ contributions' \in
             [Contributions -> ContributionRows \cup {NoContribution}]
        /\ Exists(r.c)' /\ contributions'[r.c].step \notin FinalSteps
        /\ contributions'[r.c].retry # -1
        /\ \A c \in Contributions :
             c # r.c => contributions'[c] = contributions[c]
    BY <1>2, <1>3, <2>1, <2>2, OnTheWay DEF IInv
  <2>4. s \in Replies
    BY <1>2, <1>3 DEF Replies
  <2>5. Handles(s) /\ s.c = r.c /\ s.on = "Retry"
    BY DEF Handles, ItemHandlers
  <2> HIDE DEF s
  <2>6. replies' \subseteq Replies /\ Everything' /\ QueueNeverWedged'
    <3>1. CASE Writes
      <4>1. Await({r}, {s})
        BY <2>2, <3>1 DEF IfWritten
      <4> QED
        BY <1>1, <2>3, <2>4, <2>5, <4>1, NextReply
        DEF SetRetryCounter, passes, servers
    <3>2. CASE ~Writes
      <4>1. contributions' = contributions /\ Await({r}, {})
        BY <2>2, <3>2 DEF IfWritten, SetStep, Written
      <4> QED
        BY <1>1, <3>2, <4>1, ForgottenStep
        DEF SetRetryCounter, passes, servers
    <3> QED
      BY <3>1, <3>2
  <2>7. TypeOK'
    BY <2>3, <2>6 DEF IInv, TypeOK, SetRetryCounter, passes, prefs, servers
  <2> QED
    BY <2>6, <2>7 DEF IInv, Everything
<1> QED
  BY <1>4, <1>5

LEMMA ResumedType ==
  ASSUME TypeOK, NEW c \in Contributions, NEW retry \in 0..RetryLimit
  PROVE  /\ Resumed(c, retry) \in Replies
         /\ Handles(Resumed(c, retry)) /\ Resumed(c, retry).c = c
         /\ Resumed(c, retry).on # "OnServerPublisherInfo"
<1>1. /\ Spendable(tokens) \subseteq Tokens
      /\ ReservedFor(tokens, c) \subseteq Tokens
  BY DEF Spendable, ReservedFor, UnspentOf
<1>2. SpendableAnswer(c) \in Replies /\ ReservedAnswer(c) \in Replies
  BY <1>1 DEF SpendableAnswer, ReservedAnswer, Replies
<1>3. [on |-> "ContributionInfo", c |-> c] \in Replies
  BY PlainReply
<1>4. [on |-> "OnReservedUnblindedTokensForRetryAttempt", c |-> c,
       ids |-> ReservedFor(tokens, c), retry |-> retry] \in Replies
  BY <1>1 DEF Replies
<1>5. Resumed(c, retry) \in
        {SpendableAnswer(c), ReservedAnswer(c),
         [on |-> "ContributionInfo", c |-> c],
         [on |-> "OnReservedUnblindedTokensForRetryAttempt", c |-> c,
          ids |-> ReservedFor(tokens, c), retry |-> retry]}
  BY DEF Resumed
<1> QED
  BY <1>2, <1>3, <1>4, <1>5
  DEF Handles, ItemHandlers, SpendableAnswer, ReservedAnswer

LEMMA RetryStep ==
  ASSUME IInv, NEW r \in replies, r.on = "Retry", Retry(r)
  PROVE  IInv'
<1>1. Handles(r) /\ r.on \notin PassKinds /\ ~PastTransfer(r)
  BY DEF Handles, ItemHandlers, PassKinds, PastTransfer
<1>2. r.c \in Contributions /\ Exists(r.c) /\ ~Finished(r.c)
  BY <1>1, Alone DEF InFlight, Handles
<1> DEFINE off == ItemType[contributions[r.c].item] = "AUTO_CONTRIBUTE"
                  /\ ~acEnabled
<1>3. contributions[r.c].step \notin FinalSteps
  BY <1>2 DEF Finished
<1>4. CASE off
  <2>1. ContributionCompleted({r}, r.c, "AC_OFF")
    BY <1>3, <1>4 DEF Retry
  <2>2. /\ contributions' \in
             [Contributions -> ContributionRows \cup {NoContribution}]
        /\ replies' \subseteq Replies /\ Everything' /\ QueueNeverWedged'
    BY <1>1, <2>1, CompletedStep DEF Retry, passes, servers
  <2>3. TypeOK'
    BY <2>2 DEF IInv, TypeOK, Retry, passes, prefs, servers
  <2> QED
    BY <2>2, <2>3 DEF IInv, Everything
<1>5. CASE ~off
  <2>1. Await({r}, {Resumed(r.c, r.retry)}) /\ UNCHANGED contributions
    BY <1>3, <1>5 DEF Retry
  <2>2. r.retry \in 0..RetryLimit
    BY ReplyParts DEF IInv, TypeOK
  <2>3. replies' \subseteq Replies /\ Everything' /\ QueueNeverWedged'
    BY <1>1, <1>2, <2>1, <2>2, ResumedType, NextReplyOnly
    DEF IInv, Retry, passes, servers
  <2>4. TypeOK'
    BY <2>1, <2>3 DEF IInv, TypeOK, Retry, passes, prefs, servers
  <2> QED
    BY <2>3, <2>4 DEF IInv, Everything
<1> QED
  BY <1>4, <1>5

-----------------------------------------------------------------------------
(* Requests: asking a server, and hearing of it.                           *)

LEMMA AskServer ==
  ASSUME IInv, NEW r \in replies, Handles(r), r.on \notin PassKinds,
         ~PastTransfer(r),
         NEW s \in Requests, Handles(s), s.c = r.c,
         Await({r}, {}), Asked({}, {s}),
         UNCHANGED <<contributions, retryTimers, queueInProgress, transfers,
                     restarts, disk>>
  PROVE  /\ replies' \subseteq Replies /\ requests' \subseteq Requests
         /\ Everything' /\ QueueNeverWedged'
<1>1. Exists(r.c) /\ ~Finished(r.c) /\ contributions[r.c].retry # -1
  BY Alone DEF InFlight, Handles
<1> DEFINE N == {}
           M == {s}
<1>2. replies' = (replies \ {r}) \cup N /\ requests' = requests \cup M
  BY DEF Await, Asked
<1>3. N = {} /\ M = {s}
  OBVIOUS
<1> HIDE DEF N, M
<1>4. InFlight' = (InFlight \ {r}) \cup (N \cup M)
  BY <1>2, InFlightAfterReply DEF IInv
<1>5. InFlight' = (InFlight \ {r}) \cup ({s} \cup N)
  BY <1>3, <1>4
<1>6. s.on # "OnServerPublisherInfo"
  BY RequestParts DEF RequestKinds
<1>7. Everything'
  BY <1>1, <1>3, <1>5, <1>6, GoesOn
  DEF Handles, InFlight, Everything, Exists, Finished
<1>8. QueueNeverWedged'
  BY <1>4, PassStays DEF IInv, InFlight
<1> QED
  BY <1>2, <1>3, <1>7, <1>8 DEF IInv, TypeOK

\* The server has done what r asks for, and may have made a transfer.
LEMMA Serve ==
  ASSUME IInv, NEW r \in requests, Handles(r), r.on \notin PassKinds,
         ~r.handled,
         NEW s \in Requests, Handles(s), s.c = r.c, Asked({r}, {s}),
         \/ transfers' = transfers /\ ~PastTransfer(r)
         \/ /\ transfers' = [transfers EXCEPT ![r.c] = @ + 1]
            /\ ~PastTransfer(r) /\ PastTransfer(s),
         UNCHANGED <<replies, contributions, retryTimers, queueInProgress,
                     restarts, disk>>
  PROVE  /\ requests' \subseteq Requests /\ Everything' /\ QueueNeverWedged'
<1>1. Exists(r.c) /\ ~Finished(r.c) /\ contributions[r.c].retry # -1
  BY Alone DEF InFlight, Handles
<1> DEFINE N == {}
           M == {s}
<1>2. replies' = replies \cup N /\ requests' = (requests \ {r}) \cup M
  BY DEF Asked
<1>3. N = {} /\ M = {s}
  OBVIOUS
<1> HIDE DEF N, M
<1>4. InFlight' = (InFlight \ {r}) \cup (N \cup M)
  BY <1>2, InFlightAfterRequest DEF IInv
<1>5. InFlight' = (InFlight \ {r}) \cup ({s} \cup N)
  BY <1>3, <1>4
<1>6. s.on # "OnServerPublisherInfo"
  BY RequestParts DEF RequestKinds
<1>7. Everything'
  BY <1>1, <1>3, <1>5, <1>6, GoesOn
  DEF Handles, InFlight, Everything, Exists, Finished
<1>8. QueueNeverWedged'
  BY <1>4, PassStays DEF IInv, InFlight
<1> QED
  BY <1>2, <1>3, <1>7, <1>8 DEF IInv, TypeOK

LEMMA AnswerOfServer ==
  ASSUME IInv, NEW r \in requests, Handles(r), r.on \notin PassKinds,
         NEW s \in Replies, Handles(s), s.c = r.c,
         s.on # "OnServerPublisherInfo",
         PastTransfer(r) => PastTransfer(s),
         \A c \in Contributions :
           c # r.c => contributions'[c] = contributions[c],
         Exists(r.c)', contributions'[r.c].step \notin FinalSteps,
         contributions'[r.c].retry # -1,
         Asked({r}, {}), Await({}, {s}),
         UNCHANGED <<retryTimers, queueInProgress, transfers, restarts, disk>>
  PROVE  /\ replies' \subseteq Replies /\ requests' \subseteq Requests
         /\ Everything' /\ QueueNeverWedged'
<1> DEFINE N == {s}
           M == {}
<1>1. replies' = replies \cup N /\ requests' = (requests \ {r}) \cup M
  BY DEF Asked, Await
<1>2. N = {s} /\ M = {}
  OBVIOUS
<1> HIDE DEF N, M
<1>3. InFlight' = (InFlight \ {r}) \cup (N \cup M)
  BY <1>1, InFlightAfterRequest DEF IInv
<1>4. InFlight' = (InFlight \ {r}) \cup ({s} \cup M)
  BY <1>2, <1>3
<1>5. Everything'
  BY <1>2, <1>4, GoesOn DEF Handles, InFlight, Everything
<1>6. QueueNeverWedged'
  BY <1>3, PassStays DEF IInv, InFlight
<1> QED
  BY <1>1, <1>2, <1>5, <1>6 DEF IInv, TypeOK
-----------------------------------------------------------------------------
(* Contributions paid with tokens.                                         *)

TokenTable == [Tokens -> [owner : Contributions \cup {NoOwner},
                          reserved : BOOLEAN, spent : BOOLEAN]]

LEMMA MarkedType ==
  ASSUME tokens \in TokenTable, NEW c \in Contributions, NEW ids
  PROVE  /\ MarkRecordListAsReserved(tokens, ids, c) \in TokenTable
         /\ MarkRecordListAsSpent(tokens, ids, c) \in TokenTable
BY DEF MarkRecordListAsReserved, MarkRecordListAsSpent, TokenTable

\* Of publishers there is a first one.
LEMMA FirstOfPublishers ==
  ASSUME NEW publishers, publishers \subseteq Publishers, publishers # {}
  PROVE  FirstOf(publishers) \in publishers
<1> DEFINE Less == {pair \in Nat \X Nat : pair[1] < pair[2]}
<1>1. IsWellFoundedOn(Less, Nat)
  BY NatLessThanWellFounded DEF OpToRel
<1>2. publishers \subseteq Nat
  BY ItemsAssumption
<1> HIDE DEF Less
<1>3. PICK p \in publishers : \A q \in publishers : <<q, p>> \notin Less
  BY <1>1, <1>2, WFMin
<1>4. \A q \in publishers : p <= q
  <2> SUFFICES ASSUME NEW q \in publishers PROVE p <= q
    OBVIOUS
  <2>1. p \in Nat /\ q \in Nat
    BY <1>2
  <2>2. q < p => <<q, p>> \in Less
    BY <2>1 DEF Less
  <2> QED
    BY <1>3, <2>1, <2>2
<1> QED
  BY <1>4 DEF FirstOf

LEMMA UnpaidPublishers ==
  ASSUME TypeOK, NEW c \in Contributions, Exists(c)
  PROVE  Unpaid(contributions[c]) \subseteq Publishers
BY RowType DEF ContributionRows, Unpaid

LEMMA CardinalityOfTokens ==
  ASSUME NEW ids \in SUBSET Tokens
  PROVE  Cardinality(ids) \in Nat
BY TokensAssumption, FS_Subset, FS_CardinalityType

LEMMA PrepareTokensStep ==
  ASSUME IInv, NEW r \in replies, r.on = "PrepareTokens", PrepareTokens(r)
  PROVE  IInv'
<1>1. Handles(r) /\ r.on \notin PassKinds /\ ~PastTransfer(r)
  BY DEF Handles, ItemHandlers, PassKinds, PastTransfer
<1>2. /\ r.c \in Contributions /\ Exists(r.c) /\ ~Finished(r.c)
      /\ contributions[r.c].retry # -1
  BY <1>1, Alone DEF InFlight, Handles
<1> DEFINE info     == contributions[r.c]
           ids      == TakeFirst(r.ids, info.amount)
           reserved == MarkRecordListAsReserved(tokens, ids, r.c)
<1>3. info.retry \in 0..RetryLimit
  BY <1>2, RowType, BoundsAssumption DEF IInv, ContributionRows
<1>4. CASE Cardinality(ids) < info.amount
  <2>1. /\ Result({r}, r.c, "NOT_ENOUGH_FUNDS")
        /\ UNCHANGED <<tokens, contributions>>
    BY <1>4 DEF PrepareTokens
  <2>2. /\ replies' \subseteq Replies /\ retryTimers' \subseteq Contributions
        /\ Everything' /\ QueueNeverWedged'
    BY <1>1, <2>1, ResultOfReply DEF PrepareTokens, passes, servers, Results
  <2>3. TypeOK'
    BY <2>1, <2>2 DEF IInv, TypeOK, PrepareTokens, passes, prefs, servers
  <2> QED
    BY <2>2, <2>3 DEF IInv, Everything
<1>5. CASE ~(Cardinality(ids) < info.amount)
  <2> DEFINE s == [on |-> "OnMarkUnblindedTokensAsReserved", c |-> r.c,
                   ids |-> ids,
                   ok |-> Writes /\ AllReserved(reserved, ids),
                   retry |-> info.retry]
  <2>1. /\ tokens' = Written(tokens, reserved) /\ SetStep(r.c, "RESERVE", 0)
        /\ Await({r}, {s}) /\ retryTimers' = retryTimers
    BY <1>5 DEF PrepareTokens
  <2>2. /\ contributions' \in
             [Contributions -> ContributionRows \cup {NoContribution}]
        /\ Exists(r.c)' /\ contributions'[r.c].step \notin FinalSteps
        /\ contributions'[r.c].retry # -1
        /\ \A c \in Contributions :
             c # r.c => contributions'[c] = contributions[c]
    <3>1. "RESERVE" \in Steps \ FinalSteps /\ 0 \in 0..RetryLimit
      BY BoundsAssumption DEF Steps, FinalSteps
    <3> QED
      BY <1>2, <2>1, <3>1, OnTheWay DEF IInv
  <2>3. s \in Replies
    <3>1. ids \in SUBSET Tokens
      BY ReplyParts DEF TakeFirst, IInv, TypeOK
    <3>2. (Writes /\ AllReserved(reserved, ids)) \in BOOLEAN
      OBVIOUS
    <3> HIDE DEF ids, reserved
    <3> QED
      BY <1>2, <1>3, <3>1, <3>2 DEF Replies
  <2>4. Handles(s) /\ s.c = r.c /\ s.on = "OnMarkUnblindedTokensAsReserved"
    BY DEF Handles, ItemHandlers
  <2> HIDE DEF s
  <2>5. replies' \subseteq Replies /\ Everything' /\ QueueNeverWedged'
    BY <1>1, <2>1, <2>2, <2>3, <2>4, NextReply
    DEF PrepareTokens, passes, servers
  <2>6. tokens' \in TokenTable
    BY <1>2, <2>1, MarkedType DEF IInv, TypeOK, TokenTable, Written
  <2>7. TypeOK'
    BY <2>1, <2>2, <2>5, <2>6
    DEF IInv, TypeOK, PrepareTokens, passes, prefs, servers, TokenTable
  <2> QED
    BY <2>5, <2>7 DEF IInv, Everything
<1> QED
  BY <1>4, <1>5

\* "PREPARE" is a step on the way.
LEMMA SetPrepare ==
  ASSUME TypeOK, NEW c \in Contributions, Exists(c), ~Finished(c),
         contributions[c].retry # -1, SetStep(c, "PREPARE", 0)
  PROVE  /\ contributions' \in
              [Contributions -> ContributionRows \cup {NoContribution}]
         /\ Exists(c)' /\ contributions'[c].step \notin FinalSteps
         /\ contributions'[c].retry # -1
         /\ \A other \in Contributions :
              other # c => contributions'[other] = contributions[other]
<1>1. "PREPARE" \in Steps \ FinalSteps /\ 0 \in 0..RetryLimit
  BY BoundsAssumption DEF Steps, FinalSteps
<1> QED
  BY <1>1, OnTheWay

\* Written or not, the contribution goes on: the reply is the answer that was
\* waited for or reports the failure.
LEMMA AnswerOrResult ==
  ASSUME NEW c, c \in Contributions,
         NEW result, result \in {"LEDGER_ERROR", "RETRY"},
         NEW answer, answer \in Replies, Handles(answer), answer.c = c,
         answer.on # "OnServerPublisherInfo"
  PROVE  \E s \in Replies :
           /\ WrittenOr(result, answer) = {s} /\ Handles(s) /\ s.c = c
           /\ s.on # "OnServerPublisherInfo"
           /\ s = answer \/ (s.on = "NotSaved" /\ s.result = result)
<1> DEFINE failed == [on |-> "NotSaved", c |-> answer.c, result |-> result]
<1>1. failed \in Replies /\ failed.on = "NotSaved" /\ failed.c = c
      /\ failed.result = result
  BY NotSavedReply
<1>2. Handles(failed) /\ failed.on # "OnServerPublisherInfo"
  BY DEF Handles, ItemHandlers
<1>3. WrittenOr(result, answer) = {IF Writes THEN answer ELSE failed}
  BY DEF WrittenOr
<1> HIDE DEF failed
<1> QED
  BY <1>1, <1>2, <1>3

LEMMA OneTo ==
  ASSUME NEW n \in Nat
  PROVE  IsFiniteSet(1..n) /\ Cardinality(1..n) = n
<1>1. n \in Int /\ 1 \in Int
  OBVIOUS
<1> QED
  BY <1>1, FS_Interval

\* Whatever is drawn, each publisher gets a number of votes.
LEMMA VotesType ==
  ASSUME NEW publishers, NEW n \in Nat, NEW votes \in Votes(publishers, n)
  PROVE  votes \in [Publishers -> Nat]
<1>1. PICK draw \in [1..n -> publishers] :
        votes = [p \in Publishers |-> Cardinality({v \in 1..n : draw[v] = p})]
  BY DEF Votes
<1>2. ASSUME NEW p \in Publishers
      PROVE  Cardinality({v \in 1..n : draw[v] = p}) \in Nat
  <2>1. {v \in 1..n : draw[v] = p} \in SUBSET (1..n) /\ IsFiniteSet(1..n)
    BY OneTo
  <2> QED
    BY <2>1, FS_Subset, FS_CardinalityType
<1> QED
  BY <1>1, <1>2

LEMMA PreparePublishersStep ==
  ASSUME IInv, NEW r \in replies,
         r.on \in {"OnMarkUnblindedTokensAsReserved",
                   "OnReservedUnblindedTokensForRetryAttempt"},
         NEW step \in {"RESERVE", "START"}, PreparePublishers(r, step),
         UNCHANGED <<requests, retryTimers, queueInProgress, transfers,
                     restarts, disk>>
  PROVE  /\ contributions' \in
              [Contributions -> ContributionRows \cup {NoContribution}]
         /\ replies' \subseteq Replies /\ Everything' /\ QueueNeverWedged'
<1>1. Handles(r) /\ r.on \notin PassKinds /\ ~PastTransfer(r)
  BY DEF Handles, ItemHandlers, PassKinds, PastTransfer
<1>2. /\ r.c \in Contributions /\ Exists(r.c) /\ ~Finished(r.c)
      /\ contributions[r.c].retry # -1
  BY <1>1, Alone DEF InFlight, Handles
<1>3. r.ids \in SUBSET Tokens /\ r.retry \in 0..RetryLimit
  BY ReplyParts DEF IInv, TypeOK
<1> DEFINE info == contributions[r.c]
<1>4. CASE ItemType[info.item] = "AUTO_CONTRIBUTE"
  <2> DEFINE answer == [on |-> "OnPrepareAutoContribution", c |-> r.c]
  <2>1. PICK votes \in Votes(info.publishers, Cardinality(r.ids)) :
          contributions' = Written(contributions,
                             [contributions EXCEPT ![r.c].total = votes,
                                ![r.c].contributed = Nothing,
                                ![r.c].step = step, ![r.c].retry = r.retry])
    BY <1>4 DEF PreparePublishers
  <2> DEFINE row == [info EXCEPT !.total = votes, !.contributed = Nothing,
                                 !.step = step, !.retry = r.retry]
  <2>2. /\ row \in ContributionRows /\ row.step \notin FinalSteps
        /\ row.retry # -1
    <3>1. votes \in [Publishers -> Nat] /\ Nothing \in [Publishers -> Nat]
      <4>1. Cardinality(r.ids) \in Nat
        BY <1>3, CardinalityOfTokens
      <4>2. votes \in [Publishers -> Nat]
        BY <2>1, <4>1, VotesType
      <4> QED
        BY <4>1, <4>2 DEF Nothing
    <3>2. /\ step \in Steps /\ step \notin FinalSteps
          /\ r.retry \in -1..RetryLimit /\ r.retry # -1
      BY <1>3, BoundsAssumption DEF Steps, FinalSteps
    <3>3. info \in ContributionRows
      BY <1>2, RowType DEF IInv
    <3> HIDE DEF info
    <3> QED
      BY <3>1, <3>2, <3>3 DEF ContributionRows
  <2>3. contributions' = Written(contributions,
                                 [contributions EXCEPT ![r.c] = row])
    BY <2>1 DEF IInv, TypeOK
  <2> HIDE DEF row
  <2>4. /\ contributions' \in
             [Contributions -> ContributionRows \cup {NoContribution}]
        /\ contributions'[r.c] \in {row, info}
        /\ \A c \in Contributions :
             c # r.c => contributions'[c] = contributions[c]
    BY <1>2, <2>2, <2>3 DEF IInv, TypeOK, Written
  <2>5. Await({r}, WrittenOr("RETRY", answer))
    BY <1>4 DEF PreparePublishers
  <2>6. answer \in Replies /\ Handles(answer) /\ answer.c = r.c
        /\ answer.on = "OnPrepareAutoContribution"
    BY <1>2, PlainReply DEF Handles, ItemHandlers
  <2> HIDE DEF answer
  <2>7. PICK s \in Replies :
          /\ WrittenOr("RETRY", answer) = {s} /\ Handles(s) /\ s.c = r.c
          /\ s.on # "OnServerPublisherInfo"
    BY <1>2, <2>6, AnswerOrResult
  <2>8. /\ Exists(r.c)' /\ contributions'[r.c].step \notin FinalSteps
        /\ contributions'[r.c].retry # -1
    BY <1>2, <2>2, <2>4, NoContributionAssumption DEF Exists, Finished
  <2>9. replies' \subseteq Replies /\ Everything' /\ QueueNeverWedged'
    BY <1>1, <2>4, <2>5, <2>7, <2>8, NextReply
  <2> QED
    BY <2>4, <2>9
<1>5. CASE ItemType[info.item] # "AUTO_CONTRIBUTE"
  <2> DEFINE answer == [on |-> "PrepareStepSaved", c |-> r.c]
  <2>1. SetStep(r.c, "PREPARE", 0) /\ Await({r}, WrittenOr("RETRY", answer))
    BY <1>5 DEF PreparePublishers
  <2>2. answer \in Replies /\ Handles(answer) /\ answer.c = r.c
        /\ answer.on = "PrepareStepSaved"
    BY <1>2, PlainReply DEF Handles, ItemHandlers
  <2> HIDE DEF answer
  <2>3. PICK s \in Replies :
          /\ WrittenOr("RETRY", answer) = {s} /\ Handles(s) /\ s.c = r.c
          /\ s.on # "OnServerPublisherInfo"
    BY <1>2, <2>2, AnswerOrResult
  <2>4. replies' \subseteq Replies /\ Everything' /\ QueueNeverWedged'
    BY <1>1, <1>2, <2>1, <2>3, SetPrepare, NextReply DEF IInv
  <2> QED
    BY <1>2, <2>1, <2>4, SetPrepare DEF IInv
<1> QED
  BY <1>4, <1>5

LEMMA OnMarkUnblindedTokensAsReservedStep ==
  ASSUME IInv, NEW r \in replies, r.on = "OnMarkUnblindedTokensAsReserved",
         OnMarkUnblindedTokensAsReserved(r)
  PROVE  IInv'
<1>1. Handles(r) /\ r.on \notin PassKinds /\ ~PastTransfer(r)
  BY DEF Handles, ItemHandlers, PassKinds, PastTransfer
<1>2. CASE r.ok
  <2>1. PreparePublishers(r, "START") /\ UNCHANGED retryTimers
    BY <1>2 DEF OnMarkUnblindedTokensAsReserved
  <2>2. /\ contributions' \in
             [Contributions -> ContributionRows \cup {NoContribution}]
        /\ replies' \subseteq Replies /\ Everything' /\ QueueNeverWedged'
    BY <2>1, PreparePublishersStep
    DEF OnMarkUnblindedTokensAsReserved, passes, servers
  <2>3. TypeOK'
    BY <2>1, <2>2
    DEF IInv, TypeOK, OnMarkUnblindedTokensAsReserved, passes, prefs, servers
  <2> QED
    BY <2>2, <2>3 DEF IInv, Everything
<1>3. CASE ~r.ok
  <2>1. Result({r}, r.c, "LEDGER_ERROR") /\ UNCHANGED contributions
    BY <1>3 DEF OnMarkUnblindedTokensAsReserved
  <2>2. /\ replies' \subseteq Replies /\ retryTimers' \subseteq Contributions
        /\ Everything' /\ QueueNeverWedged'
    BY <1>1, <2>1, ResultOfReply
    DEF OnMarkUnblindedTokensAsReserved, passes, servers, Results
  <2>3. TypeOK'
    BY <2>1, <2>2
    DEF IInv, TypeOK, OnMarkUnblindedTokensAsReserved, passes, prefs, servers
  <2> QED
    BY <2>2, <2>3 DEF IInv, Everything
<1> QED
  BY <1>2, <1>3

LEMMA OnReservedUnblindedTokensForRetryAttemptStep ==
  ASSUME IInv, NEW r \in replies,
         r.on = "OnReservedUnblindedTokensForRetryAttempt",
         OnReservedUnblindedTokensForRetryAttempt(r)
  PROVE  IInv'
<1>1. Handles(r) /\ r.on \notin PassKinds /\ ~PastTransfer(r)
  BY DEF Handles, ItemHandlers, PassKinds, PastTransfer
<1>2. CASE r.ids # {}
  <2>1. PreparePublishers(r, "RESERVE") /\ UNCHANGED retryTimers
    BY <1>2 DEF OnReservedUnblindedTokensForRetryAttempt
  <2>2. /\ contributions' \in
             [Contributions -> ContributionRows \cup {NoContribution}]
        /\ replies' \subseteq Replies /\ Everything' /\ QueueNeverWedged'
    BY <2>1, PreparePublishersStep
    DEF OnReservedUnblindedTokensForRetryAttempt, passes, servers
  <2>3. TypeOK'
    BY <2>1, <2>2
    DEF IInv, TypeOK, OnReservedUnblindedTokensForRetryAttempt, passes, prefs,
      servers
  <2> QED
    BY <2>2, <2>3 DEF IInv, Everything
<1>3. CASE r.ids = {}
  <2>1. Result({r}, r.c, "LEDGER_ERROR") /\ UNCHANGED contributions
    BY <1>3 DEF OnReservedUnblindedTokensForRetryAttempt
  <2>2. /\ replies' \subseteq Replies /\ retryTimers' \subseteq Contributions
        /\ Everything' /\ QueueNeverWedged'
    BY <1>1, <2>1, ResultOfReply
    DEF OnReservedUnblindedTokensForRetryAttempt, passes, servers, Results
  <2>3. TypeOK'
    BY <2>1, <2>2
    DEF IInv, TypeOK, OnReservedUnblindedTokensForRetryAttempt, passes, prefs,
      servers
  <2> QED
    BY <2>2, <2>3 DEF IInv, Everything
<1> QED
  BY <1>2, <1>3

LEMMA OnPrepareAutoContributionStep ==
  ASSUME IInv, NEW r \in replies, r.on = "OnPrepareAutoContribution",
         OnPrepareAutoContribution(r)
  PROVE  IInv'
<1>1. Handles(r) /\ r.on \notin PassKinds /\ ~PastTransfer(r)
  BY DEF Handles, ItemHandlers, PassKinds, PastTransfer
<1>2. /\ r.c \in Contributions /\ Exists(r.c) /\ ~Finished(r.c)
      /\ contributions[r.c].retry # -1
  BY <1>1, Alone DEF InFlight, Handles
<1> DEFINE answer == [on |-> "PrepareStepSaved", c |-> r.c]
<1>3. SetStep(r.c, "PREPARE", 0) /\ Await({r}, WrittenOr("RETRY", answer))
  BY DEF OnPrepareAutoContribution
<1>4. answer \in Replies /\ Handles(answer) /\ answer.c = r.c
      /\ answer.on = "PrepareStepSaved"
  BY <1>2, PlainReply DEF Handles, ItemHandlers
<1> HIDE DEF answer
<1>5. PICK s \in Replies :
        /\ WrittenOr("RETRY", answer) = {s} /\ Handles(s) /\ s.c = r.c
        /\ s.on # "OnServerPublisherInfo"
  BY <1>2, <1>4, AnswerOrResult
<1>6. replies' \subseteq Replies /\ Everything' /\ QueueNeverWedged'
  BY <1>1, <1>2, <1>3, <1>5, SetPrepare, NextReply
  DEF IInv, OnPrepareAutoContribution, passes, servers
<1>7. TypeOK'
  BY <1>2, <1>3, <1>6, SetPrepare
  DEF IInv, TypeOK, OnPrepareAutoContribution, passes, prefs, servers
<1> QED
  BY <1>6, <1>7 DEF IInv, Everything

LEMMA PrepareStepSavedStep ==
  ASSUME IInv, NEW r \in replies, r.on = "PrepareStepSaved",
         PrepareStepSaved(r)
  PROVE  IInv'
<1>1. Handles(r) /\ r.on \notin PassKinds /\ ~PastTransfer(r)
  BY DEF Handles, ItemHandlers, PassKinds, PastTransfer
<1>2. r.c \in Contributions
  BY <1>1, Alone DEF InFlight, Handles
<1>3. /\ ReservedAnswer(r.c) \in Replies /\ Handles(ReservedAnswer(r.c))
      /\ ReservedAnswer(r.c).c = r.c
      /\ ReservedAnswer(r.c).on # "OnServerPublisherInfo"
  <2>1. ReservedFor(tokens, r.c) \in SUBSET Tokens
    BY DEF ReservedFor, UnspentOf
  <2> QED
    BY <1>2, <2>1 DEF ReservedAnswer, Replies, Handles, ItemHandlers
<1>4. replies' \subseteq Replies /\ Everything' /\ QueueNeverWedged'
  BY <1>1, <1>3, NextReplyOnly
  DEF PrepareStepSaved, database, passes, servers
<1>5. TypeOK'
  BY <1>4
  DEF IInv, TypeOK, PrepareStepSaved, database, passes, prefs, servers
<1> QED
  BY <1>4, <1>5 DEF IInv, Everything

LEMMA OnProcessTokensStep ==
  ASSUME IInv, NEW r \in replies, r.on = "OnProcessTokens", OnProcessTokens(r)
  PROVE  IInv'
<1>1. Handles(r) /\ r.on \notin PassKinds /\ ~PastTransfer(r)
  BY DEF Handles, ItemHandlers, PassKinds, PastTransfer
<1>2. r.c \in Contributions /\ Exists(r.c)
  BY <1>1, Alone DEF InFlight, Handles
<1> DEFINE info   == contributions[r.c]
           unpaid == Unpaid(info)
           p      == FirstOf(unpaid)
           ids    == TakeFirst(r.ids, info.total[p])
<1>3. ASSUME NEW result \in {"LEDGER_OK", "RETRY"}, Result({r}, r.c, result),
             UNCHANGED requests
      PROVE  IInv'
  <2>1. /\ replies' \subseteq Replies /\ retryTimers' \subseteq Contributions
        /\ Everything' /\ QueueNeverWedged'
    BY <1>1, <1>3, ResultOfReply
    DEF OnProcessTokens, database, passes, servers, Results
  <2>2. TypeOK'
    BY <1>3, <2>1
    DEF IInv, TypeOK, OnProcessTokens, database, passes, prefs, servers
  <2> QED
    BY <2>1, <2>2 DEF IInv, Everything
<1>4. CASE unpaid = {} \/ ids = {}
  BY <1>3, <1>4 DEF OnProcessTokens
<1>5. CASE unpaid # {} /\ ids # {}
  <2> DEFINE s == [on |-> "OnRedeemTokens", c |-> r.c, publisher |-> p,
                   ids |-> ids, final |-> p = LastOf(info.publishers),
                   handled |-> FALSE]
  <2>1. Await({r}, {}) /\ Asked({}, {s}) /\ UNCHANGED retryTimers
    BY <1>5 DEF OnProcessTokens
  <2>2. s \in Requests
    <3>1. p \in Publishers
      BY <1>2, <1>5, UnpaidPublishers, FirstOfPublishers DEF IInv
    <3>2. ids \in SUBSET Tokens
      BY ReplyParts DEF TakeFirst, IInv, TypeOK
    <3> HIDE DEF p, ids
    <3> QED
      BY <1>2, <3>1, <3>2 DEF Requests
  <2>3. Handles(s) /\ s.c = r.c
    BY DEF Handles, ItemHandlers
  <2> HIDE DEF s
  <2>4. /\ replies' \subseteq Replies /\ requests' \subseteq Requests
        /\ Everything' /\ QueueNeverWedged'
    BY <1>1, <2>1, <2>2, <2>3, AskServer
    DEF OnProcessTokens, database, passes, servers
  <2>5. TypeOK'
    BY <2>1, <2>4
    DEF IInv, TypeOK, OnProcessTokens, database, passes, prefs, servers
  <2> QED
    BY <2>4, <2>5 DEF IInv, Everything
<1> QED
  BY <1>4, <1>5

LEMMA HandledType ==
  ASSUME NEW r \in Requests, r.on # "OnBalance"
  PROVE  /\ [r EXCEPT !.handled = TRUE] \in Requests
         /\ [r EXCEPT !.handled = TRUE].on = r.on
         /\ [r EXCEPT !.handled = TRUE].c = r.c
         /\ [r EXCEPT !.handled = TRUE].handled
<1>1. CASE r.on = "OnRedeemTokens"
  BY <1>1 DEF Requests
<1>2. CASE r.on = "OnCommitTransaction"
  BY <1>2 DEF Requests
<1> QED
  BY <1>1, <1>2, RequestParts DEF RequestKinds

LEMMA ServerRedeemsStep ==
  ASSUME IInv, NEW r \in requests, r.on = "OnRedeemTokens", ServerRedeems(r)
  PROVE  IInv'
<1>1. Handles(r) /\ r.on \notin PassKinds /\ ~PastTransfer(r)
  BY DEF Handles, ItemHandlers, PassKinds, PastTransfer
<1>2. r.c \in Contributions /\ Exists(r.c)
  BY <1>1, Alone DEF InFlight, Handles
<1>3. r \in Requests /\ r.publisher \in Publishers
  BY RequestParts DEF IInv, TypeOK
<1> DEFINE s == [r EXCEPT !.handled = TRUE]
<1>4. s \in Requests /\ s.on = r.on /\ s.c = r.c
  BY <1>3, HandledType
<1>5. Asked({r}, {s}) /\ ~r.handled
  BY DEF ServerRedeems
<1> HIDE DEF s
<1>6. Handles(s)
  BY <1>1, <1>4 DEF Handles
<1>7. requests' \subseteq Requests /\ Everything' /\ QueueNeverWedged'
  BY <1>1, <1>4, <1>5, <1>6, Serve DEF ServerRedeems, database, passes
<1>8. redeemedFor' \in
        [Tokens -> SUBSET [type : RewardsType, publisher : Publishers]]
  <2>1. Payment(r) \in [type : RewardsType, publisher : Publishers]
    BY <1>2, <1>3, RowType, ItemsAssumption
    DEF IInv, Payment, ContributionRows
  <2> QED
    BY <2>1 DEF ServerRedeems, IInv, TypeOK
<1>9. TypeOK'
  BY <1>7, <1>8 DEF IInv, TypeOK, ServerRedeems, database, passes, prefs
<1> QED
  BY <1>7, <1>9 DEF IInv, Everything

LEMMA OnRedeemTokensStep ==
  ASSUME IInv, NEW r \in requests, r.on = "OnRedeemTokens", OnRedeemTokens(r)
  PROVE  IInv'
<1>1. Handles(r) /\ r.on \notin PassKinds /\ ~PastTransfer(r)
  BY DEF Handles, ItemHandlers, PassKinds, PastTransfer
<1>2. /\ r.c \in Contributions /\ Exists(r.c) /\ ~Finished(r.c)
      /\ contributions[r.c].retry # -1
  BY <1>1, Alone DEF InFlight, Handles
<1> DEFINE answer == [on |-> "TokenProcessed", c |-> r.c,
                      publisher |-> r.publisher, final |-> r.final]
<1>3. answer \in Replies
  BY <1>2, RequestParts DEF Replies, IInv, TypeOK
<1>4. Handles(answer) /\ answer.c = r.c /\ answer.on = "TokenProcessed"
  BY DEF Handles, ItemHandlers
<1>5. Asked({r}, {}) /\ Await({}, WrittenOr("RETRY", answer))
  BY DEF OnRedeemTokens
<1> HIDE DEF answer
<1>6. PICK s \in Replies :
        /\ WrittenOr("RETRY", answer) = {s} /\ Handles(s) /\ s.c = r.c
        /\ s.on # "OnServerPublisherInfo"
  BY <1>2, <1>3, <1>4, AnswerOrResult
<1>7. /\ replies' \subseteq Replies /\ requests' \subseteq Requests
      /\ Everything' /\ QueueNeverWedged'
  BY <1>1, <1>2, <1>5, <1>6, AnswerOfServer
  DEF OnRedeemTokens, passes, servers, Exists, Finished
<1>8. tokens' \in TokenTable
  BY <1>2, MarkedType DEF OnRedeemTokens, IInv, TypeOK, TokenTable, Written
<1>9. TypeOK'
  BY <1>7, <1>8
  DEF IInv, TypeOK, OnRedeemTokens, passes, prefs, servers, TokenTable
<1> QED
  BY <1>7, <1>9 DEF IInv, Everything

LEMMA OnRedeemTokensFailedStep ==
  ASSUME IInv, NEW r \in requests, r.on = "OnRedeemTokens",
         OnRedeemTokensFailed(r)
  PROVE  IInv'
<1>1. Handles(r) /\ r.on \notin PassKinds /\ ~PastTransfer(r)
  BY DEF Handles, ItemHandlers, PassKinds, PastTransfer
<1>2. /\ replies' \subseteq Replies /\ retryTimers' \subseteq Contributions
      /\ requests' \subseteq Requests /\ Everything' /\ QueueNeverWedged'
  BY <1>1, ResultOfRequest
  DEF OnRedeemTokensFailed, database, passes, servers, Results
<1>3. TypeOK'
  BY <1>2
  DEF IInv, TypeOK, OnRedeemTokensFailed, database, passes, prefs, servers
<1> QED
  BY <1>2, <1>3 DEF IInv, Everything

LEMMA ContributedParts ==
  ASSUME TypeOK, NEW c \in Contributions, Exists(c), ~Finished(c),
         contributions[c].retry # -1,
         NEW p \in Publishers, Contributed(c, p)
  PROVE  /\ contributions' \in
              [Contributions -> ContributionRows \cup {NoContribution}]
         /\ Exists(c)' /\ contributions'[c].step \notin FinalSteps
         /\ contributions'[c].retry # -1
         /\ \A other \in Contributions :
              other # c => contributions'[other] = contributions[other]
<1> DEFINE row  == contributions[c]
           row2 == [row EXCEPT !.contributed[p] = row.total[p]]
<1>1. row \in ContributionRows
  BY RowType
<1>2. /\ row2 \in ContributionRows /\ row2.step = row.step
      /\ row2.retry = row.retry
  BY <1>1 DEF ContributionRows
<1>3. contributions' = Written(contributions,
                               [contributions EXCEPT ![c] = row2])
  BY DEF Contributed, TypeOK
<1> HIDE DEF row2
<1>4. /\ contributions' \in
           [Contributions -> ContributionRows \cup {NoContribution}]
      /\ contributions'[c] \in {row2, row}
      /\ \A other \in Contributions :
           other # c => contributions'[other] = contributions[other]
  BY <1>2, <1>3 DEF TypeOK, Written
<1> QED
  BY <1>2, <1>4, NoContributionAssumption DEF Exists, Finished

LEMMA TokenProcessedStep ==
  ASSUME IInv, NEW r \in replies, r.on = "TokenProcessed", TokenProcessed(r)
  PROVE  IInv'
<1>1. Handles(r) /\ r.on \notin PassKinds /\ ~PastTransfer(r)
  BY DEF Handles, ItemHandlers, PassKinds, PastTransfer
<1>2. /\ r.c \in Contributions /\ Exists(r.c) /\ ~Finished(r.c)
      /\ contributions[r.c].retry # -1
  BY <1>1, Alone DEF InFlight, Handles
<1>3. r.publisher \in Publishers /\ r.final \in BOOLEAN
  BY ReplyParts DEF IInv, TypeOK
<1> DEFINE answer == [on |-> "ContributionAmountSaved", c |-> r.c,
                      final |-> r.final]
<1>4. answer \in Replies
  BY <1>2, <1>3 DEF Replies
<1>5. /\ Handles(answer) /\ answer.c = r.c
      /\ answer.on = "ContributionAmountSaved"
  BY DEF Handles, ItemHandlers
<1>6. /\ Contributed(r.c, r.publisher)
      /\ Await({r}, IF r.final THEN WrittenOr("LEDGER_ERROR", answer)
                               ELSE {answer})
  BY DEF TokenProcessed
<1> HIDE DEF answer
<1>7. /\ contributions' \in
           [Contributions -> ContributionRows \cup {NoContribution}]
      /\ Exists(r.c)' /\ contributions'[r.c].step \notin FinalSteps
      /\ contributions'[r.c].retry # -1
      /\ \A c \in Contributions :
           c # r.c => contributions'[c] = contributions[c]
  BY <1>2, <1>3, <1>6, ContributedParts DEF IInv
<1>8. PICK s \in Replies :
        /\ Await({r}, {s}) /\ Handles(s) /\ s.c = r.c
        /\ s.on # "OnServerPublisherInfo"
  <2>1. CASE r.final
    <3>1. Await({r}, WrittenOr("LEDGER_ERROR", answer))
      BY <1>6, <2>1
    <3>2. answer.on # "OnServerPublisherInfo"
      BY <1>5
    <3>3. \E s \in Replies :
            /\ WrittenOr("LEDGER_ERROR", answer) = {s} /\ Handles(s)
            /\ s.c = r.c /\ s.on # "OnServerPublisherInfo"
      BY <1>2, <1>4, <1>5, <3>2, AnswerOrResult
    <3> QED
      BY <3>1, <3>3
  <2>2. CASE ~r.final
    BY <1>4, <1>5, <1>6, <2>2
  <2> QED
    BY <2>1, <2>2
<1>9. replies' \subseteq Replies /\ Everything' /\ QueueNeverWedged'
  BY <1>1, <1>7, <1>8, NextReply DEF TokenProcessed, passes, servers
<1>10. TypeOK'
  BY <1>7, <1>9 DEF IInv, TypeOK, TokenProcessed, passes, prefs, servers
<1> QED
  BY <1>9, <1>10 DEF IInv, Everything

LEMMA ContributionAmountSavedStep ==
  ASSUME IInv, NEW r \in replies, r.on = "ContributionAmountSaved",
         ContributionAmountSaved(r)
  PROVE  IInv'
<1>1. Handles(r) /\ r.on \notin PassKinds /\ ~PastTransfer(r)
  BY DEF Handles, ItemHandlers, PassKinds, PastTransfer
<1> DEFINE result == IF r.final THEN "LEDGER_OK" ELSE "RETRY_LONG"
<1>2. result \in Results /\ Result({r}, r.c, result)
  BY DEF Results, ContributionAmountSaved
<1> HIDE DEF result
<1>3. /\ replies' \subseteq Replies /\ retryTimers' \subseteq Contributions
      /\ Everything' /\ QueueNeverWedged'
  BY <1>1, <1>2, ResultOfReply
  DEF ContributionAmountSaved, database, passes, servers
<1>4. TypeOK'
  BY <1>3
  DEF IInv, TypeOK, ContributionAmountSaved, database, passes, prefs, servers
<1> QED
  BY <1>3, <1>4 DEF IInv, Everything
-----------------------------------------------------------------------------
(* Contributions paid from an external wallet.                             *)

LEMMA ContributionInfoStep ==
  ASSUME IInv, NEW r \in replies, r.on = "ContributionInfo",
         ContributionInfo(r)
  PROVE  IInv'
<1>1. Handles(r) /\ r.on \notin PassKinds /\ ~PastTransfer(r)
  BY DEF Handles, ItemHandlers, PassKinds, PastTransfer
<1>2. r.c \in Contributions
  BY <1>1, Alone DEF InFlight, Handles
<1> DEFINE paid == Unpaid(contributions[r.c]) = {}
<1>3. ASSUME NEW result \in {"LEDGER_ERROR", "LEDGER_OK"},
             Result({r}, r.c, result)
      PROVE  IInv'
  <2>1. /\ replies' \subseteq Replies /\ retryTimers' \subseteq Contributions
        /\ Everything' /\ QueueNeverWedged'
    BY <1>1, <1>3, ResultOfReply
    DEF ContributionInfo, database, passes, servers, Results
  <2>2. TypeOK'
    BY <2>1
    DEF IInv, TypeOK, ContributionInfo, database, passes, prefs, servers
  <2> QED
    BY <2>1, <2>2 DEF IInv, Everything
<1>4. CASE ~connected \/ paid
  BY <1>3, <1>4 DEF ContributionInfo
<1>5. CASE connected /\ ~paid
  <2> DEFINE s == [on |-> "OnServerPublisherInfo", c |-> r.c]
  <2>1. Await({r}, {s}) /\ UNCHANGED retryTimers
    BY <1>5 DEF ContributionInfo
  <2>2. s \in Replies /\ Handles(s) /\ s.c = r.c
    BY <1>2, PlainReply DEF Handles, ItemHandlers
  <2> HIDE DEF s
  <2>3. replies' \subseteq Replies /\ Everything' /\ QueueNeverWedged'
    BY <1>1, <1>5, <2>1, <2>2, NextReplyOnly
    DEF ContributionInfo, database, passes, servers
  <2>4. TypeOK'
    BY <2>1, <2>3
    DEF IInv, TypeOK, ContributionInfo, database, passes, prefs, servers
  <2> QED
    BY <2>3, <2>4 DEF IInv, Everything
<1> QED
  BY <1>4, <1>5

LEMMA OnServerPublisherInfoStep ==
  ASSUME IInv, NEW r \in replies, r.on = "OnServerPublisherInfo",
         OnServerPublisherInfo(r)
  PROVE  IInv'
<1>1. Handles(r) /\ r.on \notin PassKinds /\ ~PastTransfer(r)
  BY DEF Handles, ItemHandlers, PassKinds, PastTransfer
<1>2. /\ r.c \in Contributions /\ Exists(r.c)
      /\ Unpaid(contributions[r.c]) # {}
  BY <1>1, Alone DEF InFlight, Handles
<1>3. CASE Result({r}, r.c, "LEDGER_ERROR") /\ UNCHANGED requests
  <2>1. /\ replies' \subseteq Replies /\ retryTimers' \subseteq Contributions
        /\ Everything' /\ QueueNeverWedged'
    BY <1>1, <1>3, ResultOfReply
    DEF OnServerPublisherInfo, database, passes, servers, Results
  <2>2. TypeOK'
    BY <1>3, <2>1
    DEF IInv, TypeOK, OnServerPublisherInfo, database, passes, prefs, servers
  <2> QED
    BY <2>1, <2>2 DEF IInv, Everything
<1> DEFINE p == FirstOf(Unpaid(contributions[r.c]))
           s == [on |-> "OnCommitTransaction", c |-> r.c, publisher |-> p,
                 handled |-> FALSE]
<1>4. CASE Await({r}, {}) /\ Asked({}, {s}) /\ UNCHANGED retryTimers
  <2>1. s \in Requests
    <3>1. p \in Publishers
      BY <1>2, UnpaidPublishers, FirstOfPublishers DEF IInv
    <3> HIDE DEF p
    <3> QED
      BY <1>2, <3>1 DEF Requests
  <2>2. Handles(s) /\ s.c = r.c
    BY DEF Handles, ItemHandlers
  <2> HIDE DEF s
  <2>3. /\ replies' \subseteq Replies /\ requests' \subseteq Requests
        /\ Everything' /\ QueueNeverWedged'
    BY <1>1, <1>4, <2>1, <2>2, AskServer
    DEF OnServerPublisherInfo, database, passes, servers
  <2>4. TypeOK'
    BY <1>4, <2>3
    DEF IInv, TypeOK, OnServerPublisherInfo, database, passes, prefs, servers
  <2> QED
    BY <2>3, <2>4 DEF IInv, Everything
<1> QED
  BY <1>3, <1>4 DEF OnServerPublisherInfo

LEMMA ProviderTransfersStep ==
  ASSUME IInv, NEW r \in requests, r.on = "OnCommitTransaction",
         ProviderTransfers(r)
  PROVE  IInv'
<1>1. Handles(r) /\ r.on \notin PassKinds
  BY DEF Handles, ItemHandlers, PassKinds
<1>2. r.c \in Contributions /\ Exists(r.c)
  BY <1>1, Alone DEF InFlight, Handles
<1>3. r \in Requests /\ r.publisher \in Publishers
  BY RequestParts DEF IInv, TypeOK
<1> DEFINE s == [r EXCEPT !.handled = TRUE]
<1>4. s \in Requests /\ s.on = r.on /\ s.c = r.c /\ s.handled
  BY <1>3, HandledType
<1>5. /\ Asked({r}, {s}) /\ ~r.handled
      /\ transfers' = [transfers EXCEPT ![r.c] = @ + 1]
  BY DEF ProviderTransfers
<1> HIDE DEF s
<1>6. Handles(s) /\ ~PastTransfer(r) /\ PastTransfer(s)
  BY <1>1, <1>4, <1>5 DEF Handles, PastTransfer
<1>7. requests' \subseteq Requests /\ Everything' /\ QueueNeverWedged'
  BY <1>1, <1>4, <1>5, <1>6, Serve DEF ProviderTransfers, database, passes
<1>8. external' \in Nat /\ transfers' \in [Contributions -> Nat]
  <2>1. contributions[r.c].total[r.publisher] \in Nat
    BY <1>2, <1>3, RowType DEF IInv, ContributionRows
  <2>2. external \in Nat /\ transfers \in [Contributions -> Nat]
    BY DEF IInv, TypeOK
  <2> QED
    BY <1>2, <2>1, <2>2 DEF ProviderTransfers
<1>9. TypeOK'
  BY <1>7, <1>8 DEF IInv, TypeOK, ProviderTransfers, database, passes, prefs
<1> QED
  BY <1>7, <1>9 DEF IInv, Everything

LEMMA OnCommitTransactionStep ==
  ASSUME IInv, NEW r \in requests, r.on = "OnCommitTransaction",
         OnCommitTransaction(r)
  PROVE  IInv'
<1>1. Handles(r) /\ r.on \notin PassKinds
  BY DEF Handles, ItemHandlers, PassKinds
<1>2. /\ r.c \in Contributions /\ Exists(r.c) /\ ~Finished(r.c)
      /\ contributions[r.c].retry # -1
  BY <1>1, Alone DEF InFlight, Handles
<1>3. r.publisher \in Publishers
  BY RequestParts DEF IInv, TypeOK
<1> DEFINE answer == [on |-> "Completed", c |-> r.c]
<1>4. /\ answer \in Replies /\ Handles(answer) /\ answer.c = r.c
      /\ answer.on = "Completed"
  BY <1>2, PlainReply DEF Handles, ItemHandlers
<1>5. /\ Asked({r}, {}) /\ Await({}, WrittenOr("LEDGER_ERROR", answer))
      /\ Contributed(r.c, r.publisher)
  BY DEF OnCommitTransaction
<1> HIDE DEF answer
<1>6. PICK s \in Replies :
        /\ WrittenOr("LEDGER_ERROR", answer) = {s} /\ Handles(s) /\ s.c = r.c
        /\ s.on # "OnServerPublisherInfo"
        /\ s = answer \/ (s.on = "NotSaved" /\ s.result = "LEDGER_ERROR")
  BY <1>2, <1>4, AnswerOrResult
<1>7. PastTransfer(s)
  BY <1>4, <1>6 DEF PastTransfer
<1>8. /\ contributions' \in
           [Contributions -> ContributionRows \cup {NoContribution}]
      /\ Exists(r.c)' /\ contributions'[r.c].step \notin FinalSteps
      /\ contributions'[r.c].retry # -1
      /\ \A c \in Contributions :
           c # r.c => contributions'[c] = contributions[c]
  BY <1>2, <1>3, <1>5, ContributedParts DEF IInv
<1>9. /\ replies' \subseteq Replies /\ requests' \subseteq Requests
      /\ Everything' /\ QueueNeverWedged'
  BY <1>1, <1>5, <1>6, <1>7, <1>8, AnswerOfServer
  DEF OnCommitTransaction, passes, servers
<1>10. TypeOK'
  BY <1>8, <1>9
  DEF IInv, TypeOK, OnCommitTransaction, passes, prefs, servers
<1> QED
  BY <1>9, <1>10 DEF IInv, Everything

LEMMA OnCommitTransactionFailedStep ==
  ASSUME IInv, NEW r \in requests, r.on = "OnCommitTransaction",
         OnCommitTransactionFailed(r)
  PROVE  IInv'
<1>1. Handles(r) /\ r.on \notin PassKinds
  BY DEF Handles, ItemHandlers, PassKinds
<1>2. /\ replies' \subseteq Replies /\ retryTimers' \subseteq Contributions
      /\ requests' \subseteq Requests /\ Everything' /\ QueueNeverWedged'
  BY <1>1, ResultOfRequest
  DEF OnCommitTransactionFailed, database, passes, servers, Results
<1>3. TypeOK'
  BY <1>2
  DEF IInv, TypeOK, OnCommitTransactionFailed, database, passes, servers
<1> QED
  BY <1>2, <1>3 DEF IInv, Everything

LEMMA CompletedHandlerStep ==
  ASSUME IInv, NEW r \in replies, r.on = "Completed", Completed(r)
  PROVE  IInv'
<1>1. Handles(r) /\ r.on \notin PassKinds
  BY DEF Handles, ItemHandlers, PassKinds
<1>2. /\ replies' \subseteq Replies /\ retryTimers' \subseteq Contributions
      /\ Everything' /\ QueueNeverWedged'
  BY <1>1, ResultOfReply DEF Completed, database, passes, servers, Results
<1>3. TypeOK'
  BY <1>2 DEF IInv, TypeOK, Completed, database, passes, prefs, servers
<1> QED
  BY <1>2, <1>3 DEF IInv, Everything
-----------------------------------------------------------------------------
(* Timers and restarts.                                                    *)

LEMMA OnRetryTimerElapsedStep ==
  ASSUME IInv, NEW c \in Contributions, OnRetryTimerElapsed(c)
  PROVE  IInv'
<1>1. /\ Continuations(c) = {} /\ Exists(c) /\ ~Finished(c)
      /\ contributions[c].retry # -1
  BY DEF OnRetryTimerElapsed, IInv, ContributionOK, WaitsForOne
<1> DEFINE s == NotCompletedAnswer(c)
<1>2. s \in Replies /\ Handles(s) /\ s.c = c /\ s.on = "SetRetryCounter"
  BY PlainReply DEF NotCompletedAnswer, Handles, ItemHandlers
<1>3. /\ replies' = replies \cup {s} /\ requests' = requests
      /\ retryTimers' = retryTimers \ {c}
  BY DEF OnRetryTimerElapsed, Await
<1> HIDE DEF s
<1>4. /\ Continuations(c)' = {s}
      /\ \A other \in Contributions :
           other # c => Continuations(other)' = Continuations(other)
  BY <1>1, <1>2, <1>3 DEF Continuations, Handles
<1>5. ContributionOK(c)'
  <2>1. WaitsForOne(c)'
    BY <1>1, <1>2, <1>3, <1>4
    DEF WaitsForOne, Exists, Finished, OnRetryTimerElapsed, database
  <2>2. TransfersBounded(c)'
    BY <1>1 DEF IInv, ContributionOK, TransfersBounded, Forgotten,
      OnRetryTimerElapsed, servers
  <2> QED
    BY <2>1, <2>2 DEF ContributionOK
<1>6. \A other \in Contributions : other # c => ContributionOK(other)'
  BY <1>3, <1>4, Untouched DEF IInv, OnRetryTimerElapsed, database, servers
<1>7. QueueNeverWedged'
  BY <1>3
  DEF IInv, QueueNeverWedged, PassUnderWay, OnRetryTimerElapsed, passes,
    servers
<1>8. TypeOK'
  BY <1>2, <1>3
  DEF IInv, TypeOK, OnRetryTimerElapsed, database, passes, prefs, servers
<1> QED
  BY <1>5, <1>6, <1>7, <1>8 DEF IInv

LEMMA RestartStep ==
  ASSUME IInv, Restart
  PROVE  IInv'
<1>1. \A c \in Contributions :
        /\ NotCompletedAnswer(c) \in Replies
        /\ NotCompletedAnswer(c).c = c
        /\ NotCompletedAnswer(c).on = "SetRetryCounter"
  BY PlainReply DEF NotCompletedAnswer
<1>2. ASSUME NEW c \in Contributions
      PROVE  ContributionOK(c)'
  <2>1. Continuations(c)' = IF c \in Unfinished THEN {NotCompletedAnswer(c)}
                                                ELSE {}
    BY <1>1 DEF Restart, Continuations, Unfinished, ItemHandlers
  <2>2. c \in Unfinished <=> Exists(c) /\ ~Finished(c)
    BY DEF Unfinished, Exists, Finished
  <2>3. WaitsForOne(c)
    BY DEF IInv, ContributionOK
  <2>4. WaitsForOne(c)'
    BY <1>1, <2>1, <2>2, <2>3
    DEF WaitsForOne, Exists, Finished, Restart, database
  <2>5. transfers[c] <= 1 + restarts
    BY DEF IInv, ContributionOK, TransfersBounded
  <2>6. TransfersBounded(c)'
    BY <2>5 DEF TransfersBounded, Restart, IInv, TypeOK
  <2> QED
    BY <2>4, <2>6 DEF ContributionOK
<1>3. QueueNeverWedged'
  BY DEF QueueNeverWedged, Restart
<1>4. replies' \subseteq Replies /\ requests' \subseteq Requests
  BY <1>1 DEF Restart, Unfinished
<1>5. TypeOK'
  <2>1. /\ retryTimers' = {} /\ queueInProgress' = FALSE /\ queueTimer' = TRUE
        /\ restarts' = restarts + 1
        /\ disk' = IF Writes THEN "well" ELSE "full"
    BY DEF Restart
  <2>2. /\ restarts' \in Nat /\ disk' \in {"well", "full", "freed"}
        /\ limits' \in Limits
    BY <2>1 DEF IInv, TypeOK, Restart, Limits
  <2>3. UNCHANGED <<database, prefs, redeemedFor, external, transfers>>
    BY Zenon DEF Restart
  <2> QED
    BY <1>4, <2>1, <2>2, <2>3 DEF IInv, TypeOK, database, prefs
<1> QED
  BY <1>2, <1>3, <1>5 DEF IInv

LEMMA SetAutoContributeEnabledStep ==
  ASSUME IInv, SetAutoContributeEnabled
  PROVE  IInv'
<1>1. \A c \in Contributions : ContributionOK(c)'
  BY Untouched
  DEF IInv, SetAutoContributeEnabled, database, servers, Continuations
<1>2. QueueNeverWedged'
  BY DEF IInv, QueueNeverWedged, PassUnderWay, SetAutoContributeEnabled,
    passes, servers
<1>3. TypeOK'
  BY DEF IInv, TypeOK, SetAutoContributeEnabled, database, passes, servers
<1> QED
  BY <1>1, <1>2, <1>3 DEF IInv

\* Until the next start the disk is known to have been full.
LEMMA DiskStep ==
  ASSUME IInv, DiskFills \/ DiskIsFreed
  PROVE  IInv'
<1>1. /\ UNCHANGED <<database, passes, retryTimers, replies, requests, prefs,
                     redeemedFor, external, transfers, restarts>>
      /\ disk' \in {"full", "freed"} /\ limits' \in Limits
  BY DEF DiskFills, DiskIsFreed, IInv, TypeOK, Limits
<1>2. \A c \in Contributions : ContributionOK(c)'
  BY <1>1, Untouched DEF IInv, database, Continuations
<1>3. QueueNeverWedged'
  BY <1>1 DEF QueueNeverWedged
<1>4. TypeOK'
  BY <1>1 DEF IInv, TypeOK, database, passes, prefs
<1> QED
  BY <1>2, <1>3, <1>4 DEF IInv

-----------------------------------------------------------------------------
(* The queue.                                                              *)

\* Handling an item does nothing to any contribution.
LEMMA ItemOnly ==
  ASSUME IInv, NEW Gone, NEW N, \A r \in Gone \cup N : r.on \in ItemHandlers,
         InFlight' = (InFlight \ Gone) \cup N,
         UNCHANGED <<contributions, retryTimers, transfers, restarts, disk>>
  PROVE  Everything'
<1>1. \A c : Continuations(c) = {x \in InFlight : x.on \notin ItemHandlers
                                                  /\ x.c = c}
  BY DEF Continuations, InFlight
<1>2. \A c : Continuations(c)' = {x \in InFlight' : x.on \notin ItemHandlers
                                                    /\ x.c = c}
  BY DEF Continuations, InFlight
<1>3. \A c : Continuations(c)' = Continuations(c)
  BY <1>1, <1>2
<1> QED
  BY <1>3, Untouched DEF IInv, Everything

LEMMA PassGoesOn ==
  ASSUME QueueNeverWedged, NEW Gone, NEW N,
         \A r \in Gone : r.on \notin PassKinds,
         InFlight' = (InFlight \ Gone) \cup N,
         queueInProgress' = queueInProgress, disk' = disk
  PROVE  QueueNeverWedged'
BY DEF QueueNeverWedged, PassUnderWay, PassKinds, InFlight

LEMMA QueueType ==
  ASSUME TypeOK, NEW i \in Items, NEW amount \in Nat,
         SaveContributionQueue(i, amount)
  PROVE  queue' \in [Items -> [saved : BOOLEAN, done : BOOLEAN, amount : Nat]]
BY DEF TypeOK, SaveContributionQueue, Written

LEMMA QueueDoneType ==
  ASSUME TypeOK, NEW i \in Items,
         queue' = Written(queue, [queue EXCEPT ![i].done = TRUE])
  PROVE  queue' \in [Items -> [saved : BOOLEAN, done : BOOLEAN, amount : Nat]]
<1>1. queue[i] \in [saved : BOOLEAN, done : BOOLEAN, amount : Nat]
  BY DEF TypeOK
<1> QED
  BY <1>1 DEF TypeOK, Written

\* A new item and the answer to its being saved, if it could be.
LEMMA ItemSaved ==
  ASSUME IInv, NEW i \in Items, SaveContributionQueue(i, ItemAmount[i]),
         Await({}, IfWritten({[on |-> "QueueSaved", item |-> i]})),
         UNCHANGED <<contributions, tokens, passes, retryTimers, requests,
                     prefs, servers>>
  PROVE  IInv'
<1> DEFINE s == [on |-> "QueueSaved", item |-> i]
<1>1. s \in Replies /\ s.on \in ItemHandlers
  BY DEF Replies, ItemHandlers
<1> DEFINE Gone == {}
           N    == IfWritten({s})
<1>2. replies' = replies \cup N /\ N \subseteq {s}
  BY DEF Await, IfWritten
<1> HIDE DEF s
<1>3. InFlight' = (InFlight \ Gone) \cup N
  BY <1>2 DEF InFlight
<1>4. /\ \A r \in Gone \cup N : r.on \in ItemHandlers
      /\ \A r \in Gone : r.on \notin PassKinds
  BY <1>1, <1>2
<1> HIDE DEF Gone, N
<1>5. Everything'
  BY <1>3, <1>4, ItemOnly DEF servers
<1>6. QueueNeverWedged'
  BY <1>3, <1>4, PassGoesOn DEF IInv, passes, servers
<1>7. queue' \in [Items -> [saved : BOOLEAN, done : BOOLEAN, amount : Nat]]
  BY QueueType, ItemsAssumption DEF IInv
<1>8. TypeOK'
  BY <1>1, <1>2, <1>7 DEF IInv, TypeOK, passes, prefs, servers
<1> QED
  BY <1>5, <1>6, <1>8 DEF IInv, Everything

LEMMA StartMonthlyContributionStep ==
  ASSUME IInv, NEW i \in Items, StartMonthlyContribution(i)
  PROVE  IInv'
<1>1. \A c \in Contributions : ContributionOK(c)'
  BY Untouched DEF IInv, StartMonthlyContribution, servers, Continuations
<1>2. QueueNeverWedged'
  BY DEF IInv, QueueNeverWedged, PassUnderWay, StartMonthlyContribution,
    servers
<1>3. queue' \in [Items -> [saved : BOOLEAN, done : BOOLEAN, amount : Nat]]
  BY QueueType, ItemsAssumption DEF IInv, StartMonthlyContribution
<1>4. TypeOK'
  BY <1>3 DEF IInv, TypeOK, StartMonthlyContribution, prefs, servers
<1> QED
  BY <1>1, <1>2, <1>4 DEF IInv

\* A pass that may start reads the queue.
LEMMA ReadsTheQueue ==
  ASSUME TypeOK, NEW done, NEW caller \in Items \cup {NoItem},
         ProcessContributionQueue(done, caller)
  PROVE  \E N \in SUBSET Replies :
           /\ \A r \in N : r.on = "OnProcessContributionQueue"
           /\ Await(done, N)
<1> DEFINE Answer(i, amount) ==
             {[on |-> "OnProcessContributionQueue", caller |-> caller,
               item |-> i, amount |-> amount]}
<1>1. \A i \in Items \cup {NoItem}, amount \in Nat :
        /\ Answer(i, amount) \subseteq Replies
        /\ \A r \in Answer(i, amount) : r.on = "OnProcessContributionQueue"
  BY DEF Replies
<1>2. \A i \in Waiting : i \in Items /\ queue[i].amount \in Nat
  BY DEF Waiting, TypeOK
<1>3. \/ Await(done, {}) \/ Await(done, Answer(NoItem, 0))
      \/ \E i \in Waiting : Await(done, Answer(i, queue[i].amount))
  BY DEF ProcessContributionQueue
<1> HIDE DEF Answer
<1> QED
  BY <1>1, <1>2, <1>3

LEMMA StartsPass ==
  ASSUME IInv, NEW Gone \in SUBSET replies, NEW N \in SUBSET Replies,
         \A r \in Gone \cup N : r.on \in ItemHandlers /\ r.on \notin PassKinds,
         Await(Gone, N), queueTimer' \in BOOLEAN,
         UNCHANGED <<database, queueInProgress, retryTimers, requests, prefs,
                     servers>>
  PROVE  IInv'
<1>1. Gone \cap requests = {}
  BY RepliesAreNotRequests DEF IInv, TypeOK
<1>2. InFlight' = (InFlight \ Gone) \cup N
  BY <1>1 DEF InFlight, Await
<1>3. Everything'
  BY <1>2, ItemOnly DEF database, servers
<1>4. QueueNeverWedged'
  BY <1>2, PassGoesOn DEF IInv, servers
<1>5. replies' \subseteq Replies
  BY DEF Await, IInv, TypeOK
<1>6. TypeOK'
  BY <1>5 DEF IInv, TypeOK, database, prefs, servers
<1> QED
  BY <1>3, <1>4, <1>6 DEF IInv, Everything

LEMMA QueueSavedStep ==
  ASSUME IInv, NEW r \in replies, r.on = "QueueSaved", QueueSaved(r)
  PROVE  IInv'
<1>1. r.item \in Items
  BY ReplyParts DEF IInv, TypeOK
<1>2. PICK N \in SUBSET Replies :
        /\ \A s \in N : s.on = "OnProcessContributionQueue"
        /\ Await({r}, N)
  <2>1. CASE ItemType[r.item] = "AUTO_CONTRIBUTE"
    BY <2>1 DEF QueueSaved
  <2>2. CASE ItemType[r.item] # "AUTO_CONTRIBUTE"
    BY <1>1, <2>2, ReadsTheQueue DEF QueueSaved, IInv
  <2> QED
    BY <2>1, <2>2
<1>3. \A s \in {r} \cup N : s.on \in ItemHandlers /\ s.on \notin PassKinds
  BY <1>2 DEF ItemHandlers, PassKinds
<1>4. queueTimer' \in BOOLEAN
  BY DEF QueueSaved, IInv, TypeOK
<1> QED
  BY <1>2, <1>3, <1>4, StartsPass DEF QueueSaved

LEMMA QueueTimerElapsedStep ==
  ASSUME IInv, QueueTimerElapsed
  PROVE  IInv'
<1>1. PICK N \in SUBSET Replies :
        /\ \A s \in N : s.on = "OnProcessContributionQueue"
        /\ Await({}, N)
  BY ReadsTheQueue DEF QueueTimerElapsed, IInv
<1>2. \A s \in {} \cup N : s.on \in ItemHandlers /\ s.on \notin PassKinds
  BY <1>1 DEF ItemHandlers, PassKinds
<1> QED
  BY <1>1, <1>2, StartsPass DEF QueueTimerElapsed

LEMMA OnProcessContributionQueueStep ==
  ASSUME IInv, NEW r \in replies, r.on = "OnProcessContributionQueue",
         OnProcessContributionQueue(r)
  PROVE  IInv'
<1>1. /\ r.caller \in Items \cup {NoItem} /\ r.item \in Items \cup {NoItem}
      /\ r.amount \in Nat
  BY ReplyParts DEF IInv, TypeOK
<1> DEFINE s == [on |-> "OnBalance", caller |-> r.caller, item |-> r.item,
                 amount |-> r.amount,
                 funds |-> Cardinality(Spendable(tokens))]
<1>2. Cardinality(Spendable(tokens)) \in Nat
  BY CardinalityOfTokens DEF Spendable
<1>3. r.item # NoItem => s \in Requests
  BY <1>1, <1>2 DEF Requests
<1>4. s.on = "OnBalance"
  OBVIOUS
<1>5. r.item # NoItem => requests' = requests \cup {s}
  BY DEF OnProcessContributionQueue, Asked
<1> HIDE DEF s
<1> DEFINE M == IF r.item = NoItem THEN {} ELSE {s}
<1>6. M \subseteq Requests /\ \A x \in M : x.on = "OnBalance"
  BY <1>3, <1>4
<1>7. requests' = requests \cup M
  BY <1>5 DEF OnProcessContributionQueue
<1>8. replies' = (replies \ {r}) \cup {}
  BY DEF OnProcessContributionQueue, Await
<1>9. QueueNeverWedged'
  BY <1>4, <1>5 DEF QueueNeverWedged, PassUnderWay, OnProcessContributionQueue
<1> HIDE DEF M
<1>10. Everything'
  <2> DEFINE Gone == {r}
  <2>1. InFlight' = (InFlight \ Gone) \cup M
    <3>1. r \notin requests
      BY RepliesAreNotRequests DEF IInv, TypeOK
    <3> QED
      BY <1>7, <1>8, <3>1 DEF InFlight
  <2>2. \A x \in Gone \cup M : x.on \in ItemHandlers
    BY <1>6 DEF ItemHandlers
  <2> HIDE DEF Gone
  <2> QED
    BY <2>1, <2>2, ItemOnly DEF OnProcessContributionQueue, database, servers
<1>11. TypeOK'
  BY <1>6, <1>7, <1>8
  DEF IInv, TypeOK, OnProcessContributionQueue, database, prefs, servers
<1> QED
  BY <1>9, <1>10, <1>11 DEF IInv, Everything

-----------------------------------------------------------------------------
(* A pass over an item.                                                    *)

\* The item is done; the answer ends the pass.
LEMMA PassEnds ==
  ASSUME IInv, NEW r \in InFlight, r.on \in ItemHandlers, r.item \in Items,
         r.caller \in Items \cup {NoItem}, NEW done,
         MarkContributionQueueAsComplete(done, {}, r),
         \A N : Await(done, N) => /\ InFlight' = (InFlight \ {r}) \cup N
                                  /\ replies' \subseteq replies \cup N,
         UNCHANGED <<contributions, retryTimers, queueInProgress, transfers,
                     restarts, disk>>
  PROVE  /\ queue' \in [Items -> [saved : BOOLEAN, done : BOOLEAN,
                                  amount : Nat]]
         /\ contributions' \in
              [Contributions -> ContributionRows \cup {NoContribution}]
         /\ replies' \subseteq Replies
         /\ Everything' /\ QueueNeverWedged'
<1> DEFINE s == [on |-> "OnMarkContributionQueueAsComplete",
                 caller |-> r.caller, item |-> r.item]
           N == {s}
<1>1. s \in Replies /\ s.on = "OnMarkContributionQueueAsComplete"
  BY DEF Replies
<1>2. Await(done, N)
  <2>1. {} \cup {s} = N
    OBVIOUS
  <2>2. Await(done, {} \cup {s})
    BY DEF MarkContributionQueueAsComplete
  <2> QED
    BY <2>1, <2>2
<1> HIDE DEF s
<1>3. InFlight' = (InFlight \ {r}) \cup N /\ replies' \subseteq replies \cup N
  BY <1>2
<1>4. QueueNeverWedged'
  BY <1>1, <1>3, PassStays DEF IInv, PassKinds
<1>5. Everything'
  <2> DEFINE Gone == {r}
  <2>1. /\ InFlight' = (InFlight \ Gone) \cup N
        /\ \A x \in Gone \cup N : x.on \in ItemHandlers
    BY <1>1, <1>3 DEF ItemHandlers
  <2> HIDE DEF Gone, N
  <2> QED
    BY <2>1, ItemOnly
<1>6. queue' \in [Items -> [saved : BOOLEAN, done : BOOLEAN, amount : Nat]]
  BY QueueDoneType DEF IInv, MarkContributionQueueAsComplete
<1>7. replies' \subseteq Replies
  BY <1>1, <1>3 DEF IInv, TypeOK
<1> QED
  BY <1>4, <1>5, <1>6, <1>7 DEF IInv, TypeOK

LEMMA NewContributionType ==
  ASSUME NEW i \in Items, NEW processor \in {"BRAVE_TOKENS", "UPHOLD"},
         NEW amount \in Nat
  PROVE  NewContribution(i, processor, amount) \in ContributionRows
<1>1. ItemPublishers[i] \in SUBSET Publishers /\ 0 \in -1..RetryLimit
      /\ "START" \in Steps
  BY ItemsAssumption, BoundsAssumption DEF Steps
<1>2. Nothing \in [Publishers -> Nat]
  BY DEF Nothing
<1>3. [Nothing EXCEPT ![FirstOf(ItemPublishers[i])] = amount]
        \in [Publishers -> Nat]
  BY <1>2
<1> QED
  BY <1>1, <1>2, <1>3 DEF NewContribution, ContributionRows

\* A contribution that did not exist waits for its row to be saved.
LEMMA EntrySaved ==
  ASSUME IInv, NEW r \in InFlight, r.on \in ItemHandlers,
         NEW c \in Contributions, ~Exists(c),
         NEW row \in ContributionRows, row.step = "START", row.retry = 0,
         contributions' = [contributions EXCEPT ![c] = row],
         NEW s, s.on = "OnEntrySaved", s.c = c,
         InFlight' = (InFlight \ {r}) \cup {s},
         UNCHANGED <<retryTimers, transfers, restarts, disk>>
  PROVE  /\ contributions' \in
              [Contributions -> ContributionRows \cup {NoContribution}]
         /\ Everything'
<1>1. /\ contributions' \in
           [Contributions -> ContributionRows \cup {NoContribution}]
      /\ contributions'[c] = row
      /\ \A other \in Contributions :
           other # c => contributions'[other] = contributions[other]
  BY DEF IInv, TypeOK
<1>2. /\ Continuations(c) = {} /\ c \notin retryTimers
      /\ transfers[c] <= restarts /\ transfers[c] \in Nat /\ restarts \in Nat
  BY DEF IInv, TypeOK, ContributionOK, WaitsForOne, TransfersBounded, Finished,
    Forgotten
<1>3. s.on \notin ItemHandlers
  BY DEF ItemHandlers
<1>4. Continuations(c)' = {s}
  <2>1. \A x \in InFlight : x.on \in ItemHandlers \/ x.c # c
    BY <1>2 DEF Continuations, InFlight
  <2>2. Continuations(c)' = {x \in InFlight' : x.on \notin ItemHandlers
                                               /\ x.c = c}
    BY DEF Continuations, InFlight
  <2> QED
    BY <1>3, <2>1, <2>2
<1>5. \A other \in Contributions :
        other # c => Continuations(other)' = Continuations(other)
  <2> DEFINE N == {s}
  <2>1. /\ InFlight' = (InFlight \ {r}) \cup N
        /\ \A n \in N : n.c = c
    OBVIOUS
  <2> HIDE DEF N
  <2> QED
    BY <2>1, ContinuationsAfter
<1>6. ContributionOK(c)'
  <2>1. Exists(c)' /\ ~Finished(c)' /\ contributions'[c].retry # -1
    BY <1>1, NoContributionAssumption DEF Exists, Finished, FinalSteps
  <2>2. WaitsForOne(c)'
    BY <1>2, <1>4, <2>1 DEF WaitsForOne
  <2>3. TransfersBounded(c)'
    BY <1>2 DEF TransfersBounded
  <2> QED
    BY <2>2, <2>3 DEF ContributionOK
<1>7. \A other \in Contributions : other # c => ContributionOK(other)'
  BY <1>1, <1>5, Untouched DEF IInv
<1> QED
  BY <1>1, <1>6, <1>7 DEF Everything

LEMMA CreateNewEntryStep ==
  ASSUME IInv, NEW r \in InFlight, r.on \in ItemHandlers, r.item \in Items,
         r.caller \in Items \cup {NoItem}, NEW done, NEW previous,
         NEW balance \in Balances, NEW amount \in Nat,
         CreateNewEntry(done, r, previous, balance, amount),
         \A N : Await(done, N) => /\ InFlight' = (InFlight \ {r}) \cup N
                                  /\ replies' \subseteq replies \cup N,
         UNCHANGED <<retryTimers, queueInProgress, transfers, restarts, disk>>
  PROVE  /\ queue' \in [Items -> [saved : BOOLEAN, done : BOOLEAN,
                                  amount : Nat]]
         /\ contributions' \in
              [Contributions -> ContributionRows \cup {NoContribution}]
         /\ replies' \subseteq Replies
         /\ Everything' /\ QueueNeverWedged'
<1> DEFINE wallet == NextFunded(previous, balance)
           funds  == IF wallet = "UPHOLD" THEN balance.external
                                          ELSE balance.tokens
           pays   == IF funds < amount THEN funds ELSE amount
<1>1. CASE wallet = "NONE"
  <2>1. MarkContributionQueueAsComplete(done, {}, r)
        /\ UNCHANGED contributions
    BY <1>1 DEF CreateNewEntry
  <2> QED
    BY <2>1, PassEnds
<1>2. CASE wallet # "NONE"
  <2>1. wallet \in {"BRAVE_TOKENS", "UPHOLD"}
    BY <1>2 DEF NextFunded
  <2>2. funds \in Nat
    BY DEF Balances
  <2>3. pays \in Nat /\ amount - pays \in Nat
    BY <2>2
  <2> DEFINE s(c) == [on |-> "OnEntrySaved", caller |-> r.caller, c |-> c,
                      item |-> r.item, wallet |-> wallet,
                      balance |-> balance, rest |-> amount - pays]
             row  == NewContribution(r.item, wallet, pays)
  <2>4. PICK c \in FreshIds :
          /\ contributions' = Written(contributions,
                                      [contributions EXCEPT ![c] = row])
          /\ Await(done, IfWritten({s(c)}))
          /\ UNCHANGED queue
    BY <1>2 DEF CreateNewEntry
  <2>5. c \in Contributions /\ ~Exists(c)
    BY DEF FreshIds, Exists
  <2>6. row \in ContributionRows /\ row.step = "START" /\ row.retry = 0
    BY <2>1, <2>3, NewContributionType DEF NewContribution
  <2> HIDE DEF wallet, funds, pays, row
  <2>7. s(c) \in Replies /\ s(c).on = "OnEntrySaved" /\ s(c).c = c
    BY <2>1, <2>3, <2>5 DEF Replies
  <2> HIDE DEF s
  <2>8. CASE Writes
    <3>1. contributions' = [contributions EXCEPT ![c] = row]
      BY <2>4, <2>8 DEF Written
    <3>2. Await(done, {s(c)})
      BY <2>4, <2>8 DEF IfWritten
    <3>3. /\ InFlight' = (InFlight \ {r}) \cup {s(c)}
          /\ replies' \subseteq replies \cup {s(c)}
      BY <3>2
    <3>4. QueueNeverWedged'
      BY <2>7, <3>3, PassStays DEF IInv, PassKinds
    <3>5. /\ contributions' \in
                [Contributions -> ContributionRows \cup {NoContribution}]
          /\ Everything'
      BY <2>5, <2>6, <2>7, <3>1, <3>3, EntrySaved
    <3> QED
      BY <2>4, <2>7, <3>3, <3>4, <3>5 DEF IInv, TypeOK
  <2>9. CASE ~Writes
    <3> DEFINE Gone == {r}
               N    == {}
    <3>1. contributions' = contributions /\ Await(done, N)
      BY <2>4, <2>9 DEF Written, IfWritten
    <3>2. /\ InFlight' = (InFlight \ Gone) \cup N
          /\ replies' \subseteq replies
      BY <3>1
    <3>3. \A x \in Gone \cup N : x.on \in ItemHandlers
      OBVIOUS
    <3> HIDE DEF Gone, N
    <3>4. Everything'
      BY <3>1, <3>2, <3>3, ItemOnly
    <3>5. QueueNeverWedged'
      BY <2>9 DEF QueueNeverWedged, Writes
    <3> QED
      BY <2>4, <3>1, <3>2, <3>4, <3>5 DEF IInv, TypeOK
  <2> QED
    BY <2>8, <2>9
<1> QED
  BY <1>1, <1>2

LEMMA AfterReply ==
  ASSUME TypeOK, NEW r \in replies, requests' = requests
  PROVE  \A N : Await({r}, N) => /\ InFlight' = (InFlight \ {r}) \cup N
                                 /\ replies' \subseteq replies \cup N
<1>1. r \notin requests
  BY RepliesAreNotRequests DEF TypeOK
<1> QED
  BY <1>1 DEF Await, InFlight

LEMMA AfterRequest ==
  ASSUME TypeOK, NEW r \in requests, Asked({r}, {})
  PROVE  \A N : Await({}, N) => /\ InFlight' = (InFlight \ {r}) \cup N
                                /\ replies' \subseteq replies \cup N
<1>1. r \notin replies
  BY RepliesAreNotRequests DEF TypeOK
<1> QED
  BY <1>1 DEF Await, Asked, InFlight

LEMMA OnBalanceStep ==
  ASSUME IInv, NEW r \in requests, r.on = "OnBalance", OnBalance(r)
  PROVE  IInv'
<1>1. /\ r.item \in Items /\ r.caller \in Items \cup {NoItem}
      /\ r.amount \in Nat /\ r.funds \in Nat /\ external \in Nat
      /\ r \in InFlight /\ r.on \in ItemHandlers
  BY RequestParts DEF IInv, TypeOK, InFlight, ItemHandlers
<1>2. Asked({r}, {})
  BY DEF OnBalance
<1>3. \A N : Await({}, N) => /\ InFlight' = (InFlight \ {r}) \cup N
                             /\ replies' \subseteq replies \cup N
  BY <1>2, AfterRequest DEF IInv
<1>4. requests' \subseteq Requests
  BY <1>2 DEF Asked, IInv, TypeOK
<1>5. PICK seen \in {0, external} :
        Process(r, [tokens |-> r.funds, external |-> seen])
  BY DEF OnBalance
<1> DEFINE balance == [tokens |-> r.funds, external |-> seen]
           total   == balance.tokens + balance.external
           amount  == IF r.amount > total THEN total ELSE r.amount
<1>6. balance \in Balances
  BY <1>1 DEF Balances
<1>7. amount \in Nat
  BY <1>1
<1>8. \/ MarkContributionQueueAsComplete({}, {}, r) /\ UNCHANGED contributions
      \/ CreateNewEntry({}, r, "", balance, amount)
  BY <1>5 DEF Process
<1>9. UNCHANGED <<retryTimers, queueInProgress, transfers, restarts, disk>>
  BY DEF OnBalance, passes, servers
<1> HIDE DEF balance, amount
<1>10. /\ queue' \in [Items -> [saved : BOOLEAN, done : BOOLEAN, amount : Nat]]
       /\ contributions' \in
            [Contributions -> ContributionRows \cup {NoContribution}]
       /\ replies' \subseteq Replies
       /\ Everything' /\ QueueNeverWedged'
  <2>1. CASE /\ MarkContributionQueueAsComplete({}, {}, r)
             /\ UNCHANGED contributions
    BY <1>1, <1>3, <1>9, <2>1, PassEnds
  <2>2. CASE CreateNewEntry({}, r, "", balance, amount)
    BY <1>1, <1>3, <1>6, <1>7, <1>9, <2>2, CreateNewEntryStep
  <2> QED
    BY <1>8, <2>1, <2>2
<1>11. TypeOK'
  BY <1>4, <1>10 DEF IInv, TypeOK, OnBalance, passes, prefs, servers
<1> QED
  BY <1>10, <1>11 DEF IInv, Everything

LEMMA OnBalanceFailedStep ==
  ASSUME IInv, NEW r \in requests, r.on = "OnBalance", OnBalanceFailed(r)
  PROVE  IInv'
<1>1. requests' = requests \ {r} /\ replies' = replies
  BY DEF OnBalanceFailed, Asked
<1>2. Everything'
  <2> DEFINE Gone == {r}
             N == {}
  <2>1. r \notin replies
    BY RepliesAreNotRequests DEF IInv, TypeOK
  <2>2. /\ InFlight' = (InFlight \ Gone) \cup N
        /\ \A x \in Gone \cup N : x.on \in ItemHandlers
    BY <1>1, <2>1 DEF InFlight, ItemHandlers
  <2> HIDE DEF Gone, N
  <2> QED
    BY <2>2, ItemOnly DEF OnBalanceFailed, database, servers
<1>3. QueueNeverWedged'
  BY DEF QueueNeverWedged, OnBalanceFailed
<1>4. TypeOK'
  BY <1>1 DEF IInv, TypeOK, OnBalanceFailed, database, prefs, servers
<1> QED
  BY <1>2, <1>3, <1>4 DEF IInv, Everything

LEMMA OnQueueSavedStep ==
  ASSUME IInv, NEW r \in replies, r.on = "OnQueueSaved", OnQueueSaved(r)
  PROVE  IInv'
<1>1. /\ r.item \in Items /\ r.caller \in Items \cup {NoItem}
      /\ r.balance \in Balances /\ r.rest \in Nat
      /\ r \in InFlight /\ r.on \in ItemHandlers
  BY ReplyParts DEF IInv, TypeOK, InFlight, ItemHandlers
<1>2. \A N : Await({r}, N) => /\ InFlight' = (InFlight \ {r}) \cup N
                              /\ replies' \subseteq replies \cup N
  BY AfterReply DEF IInv, OnQueueSaved
<1>3. CreateNewEntry({r}, r, r.wallet, r.balance, r.rest)
  BY DEF OnQueueSaved
<1>4. UNCHANGED <<retryTimers, queueInProgress, transfers, restarts, disk>>
  BY DEF OnQueueSaved, passes, servers
<1>5. /\ queue' \in [Items -> [saved : BOOLEAN, done : BOOLEAN, amount : Nat]]
      /\ contributions' \in
           [Contributions -> ContributionRows \cup {NoContribution}]
      /\ replies' \subseteq Replies
      /\ Everything' /\ QueueNeverWedged'
  BY <1>1, <1>2, <1>3, <1>4, CreateNewEntryStep
<1>6. TypeOK'
  BY <1>5 DEF IInv, TypeOK, OnQueueSaved, passes, prefs, servers
<1> QED
  BY <1>5, <1>6 DEF IInv, Everything

LEMMA OnMarkContributionQueueAsCompleteStep ==
  ASSUME IInv, NEW r \in replies, r.on = "OnMarkContributionQueueAsComplete",
         OnMarkContributionQueueAsComplete(r)
  PROVE  IInv'
<1>1. replies' = replies \ {r} /\ requests' = requests
  BY DEF OnMarkContributionQueueAsComplete, Await
<1>2. Everything'
  <2> DEFINE Gone == {r}
             N == {}
  <2>1. r \notin requests
    BY RepliesAreNotRequests DEF IInv, TypeOK
  <2>2. /\ InFlight' = (InFlight \ Gone) \cup N
        /\ \A x \in Gone \cup N : x.on \in ItemHandlers
    BY <1>1, <2>1 DEF InFlight, ItemHandlers
  <2> HIDE DEF Gone, N
  <2> QED
    BY <2>2, ItemOnly
    DEF OnMarkContributionQueueAsComplete, database, servers
<1>3. QueueNeverWedged'
  BY DEF QueueNeverWedged, OnMarkContributionQueueAsComplete
<1>4. TypeOK'
  BY <1>1 DEF IInv, TypeOK, OnMarkContributionQueueAsComplete, database,
    prefs, servers
<1> QED
  BY <1>2, <1>3, <1>4 DEF IInv, Everything

LEMMA OnEntrySavedStep ==
  ASSUME IInv, NEW r \in replies, r.on = "OnEntrySaved", OnEntrySaved(r)
  PROVE  IInv'
<1>1. /\ r.c \in Contributions /\ r.item \in Items
      /\ r.caller \in Items \cup {NoItem}
      /\ r.wallet \in {"BRAVE_TOKENS", "UPHOLD"}
      /\ r.balance \in Balances /\ r.rest \in Nat
      /\ r \in InFlight /\ r.on \notin ItemHandlers
  BY ReplyParts DEF IInv, TypeOK, InFlight, ItemHandlers
<1>2. /\ Exists(r.c) /\ ~Finished(r.c) /\ contributions[r.c].retry # -1
      /\ contributions' = contributions
  BY <1>1, Alone DEF OnEntrySaved
<1> DEFINE s    == IF r.wallet = "BRAVE_TOKENS"
                   THEN SpendableAnswer(r.c)
                   ELSE [on |-> "ContributionInfo", c |-> r.c]
           left == [on |-> "OnQueueSaved", caller |-> r.caller,
                    item |-> r.item, wallet |-> r.wallet,
                    balance |-> r.balance, rest |-> r.rest]
           over == [on |-> "OnMarkContributionQueueAsComplete",
                    caller |-> r.caller, item |-> r.item]
<1>3. /\ s \in Replies /\ s.c = r.c
      /\ s.on \in {"PrepareTokens", "ContributionInfo"}
  <2>1. /\ SpendableAnswer(r.c) \in Replies
        /\ SpendableAnswer(r.c).on = "PrepareTokens"
        /\ SpendableAnswer(r.c).c = r.c
    BY <1>1 DEF SpendableAnswer, Spendable, Replies
  <2>2. [on |-> "ContributionInfo", c |-> r.c] \in Replies
    BY <1>1, PlainReply
  <2> QED
    BY <2>1, <2>2
<1>4. left \in Replies /\ over \in Replies
  BY <1>1 DEF Replies
<1>5. left.on = "OnQueueSaved" /\ over.on = "OnMarkContributionQueueAsComplete"
  OBVIOUS
<1>6. PICK M \in SUBSET {left, over} :
        /\ Await({r}, {s} \cup M)
        /\ M # {} \/ ~Writes
        /\ queue' \in [Items -> [saved : BOOLEAN, done : BOOLEAN,
                                 amount : Nat]]
  <2>1. CASE r.rest > 0
    <3>1. /\ SaveContributionQueue(r.item, r.rest)
          /\ Await({r}, {s} \cup IfWritten({left}))
      BY <2>1 DEF OnEntrySaved
    <3>2. queue' \in [Items -> [saved : BOOLEAN, done : BOOLEAN, amount : Nat]]
      BY <1>1, <3>1, QueueType DEF IInv
    <3>3. /\ IfWritten({left}) \in SUBSET {left, over}
          /\ IfWritten({left}) # {} \/ ~Writes
      BY DEF IfWritten
    <3> QED
      BY <3>1, <3>2, <3>3
  <2>2. CASE ~(r.rest > 0)
    <3>1. MarkContributionQueueAsComplete({r}, {s}, r)
      BY <2>2 DEF OnEntrySaved
    <3>2. /\ Await({r}, {s} \cup {over})
          /\ queue' \in [Items -> [saved : BOOLEAN, done : BOOLEAN,
                                   amount : Nat]]
      BY <1>1, <3>1, QueueDoneType DEF IInv, MarkContributionQueueAsComplete
    <3> QED
      BY <3>2
  <2> QED
    BY <2>1, <2>2
<1> HIDE DEF s, left, over
<1>7. M \subseteq Replies /\ \A x \in M : x.on \in ItemHandlers \cap PassKinds
  BY <1>4, <1>5, <1>6 DEF ItemHandlers, PassKinds
<1>8. /\ InFlight' = (InFlight \ {r}) \cup ({s} \cup M)
      /\ replies' \subseteq replies \cup ({s} \cup M)
  <2>1. r \notin requests /\ requests' = requests
    BY RepliesAreNotRequests DEF IInv, TypeOK, OnEntrySaved
  <2> QED
    BY <1>6, <2>1 DEF Await, InFlight
<1>9. UNCHANGED <<queueInProgress, retryTimers, transfers, restarts, disk>>
  BY DEF OnEntrySaved, passes, servers
<1>10. QueueNeverWedged'
  <2>1. CASE ~Writes
    BY <1>9, <2>1 DEF QueueNeverWedged, Writes
  <2>2. CASE M # {}
    <3> DEFINE N == {s} \cup M
    <3>1. InFlight' = (InFlight \ {r}) \cup N /\ \E n \in N : n.on \in PassKinds
      BY <1>7, <1>8, <2>2
    <3> HIDE DEF N
    <3> QED
      BY <1>1, <1>9, <3>1, PassStays DEF IInv
  <2> QED
    BY <1>6, <2>1, <2>2
<1>11. Everything'
  <2>1. /\ s.on \notin ItemHandlers /\ s.on # "ContributionCompletedSaved"
        /\ s.on # "OnServerPublisherInfo"
        /\ r.on # "ContributionCompletedSaved" /\ ~PastTransfer(r)
    BY <1>3 DEF ItemHandlers, PastTransfer
  <2>2. contributions[r.c].step \notin FinalSteps
    BY <1>2 DEF Finished
  <2>3. Exists(r.c)'
    BY <1>2 DEF Exists
  <2> QED
    BY <1>1, <1>2, <1>3, <1>7, <1>8, <1>9, <2>1, <2>2, <2>3, GoesOn
    DEF Everything
<1>12. replies' \subseteq Replies
  BY <1>3, <1>7, <1>8 DEF IInv, TypeOK
<1>13. TypeOK'
  BY <1>2, <1>6, <1>12 DEF IInv, TypeOK, OnEntrySaved, passes, prefs, servers
<1> QED
  BY <1>10, <1>11, <1>13 DEF IInv, Everything

-----------------------------------------------------------------------------
(* The specification.                                                      *)

LEMMA InitInv == Init => IInv
<1> SUFFICES ASSUME Init PROVE IInv
  OBVIOUS
<1>1. TypeOK
  <2>1. queue \in [Items -> [saved : BOOLEAN, done : BOOLEAN, amount : Nat]]
    BY DEF Init
  <2>2. /\ external \in Nat /\ restarts \in Nat /\ connected \in BOOLEAN
        /\ disk \in {"well", "full", "freed"} /\ limits \in Limits
    BY BoundsAssumption DEF Init
  <2>3. /\ contributions \in
             [Contributions -> ContributionRows \cup {NoContribution}]
        /\ tokens \in [Tokens -> [owner : Contributions \cup {NoOwner},
                                  reserved : BOOLEAN, spent : BOOLEAN]]
        /\ redeemedFor \in [Tokens -> SUBSET [type : RewardsType,
                                              publisher : Publishers]]
        /\ transfers \in [Contributions -> Nat]
    BY DEF Init, FreshToken
  <2> QED
    BY <2>1, <2>2, <2>3 DEF Init, TypeOK
<1>2. ASSUME NEW c \in Contributions
      PROVE  ContributionOK(c)
  <2>1. Continuations(c) = {} /\ c \notin retryTimers /\ ~Exists(c)
        /\ transfers[c] = 0 /\ restarts = 0
    BY DEF Init, Continuations, Exists
  <2> QED
    BY <2>1 DEF ContributionOK, WaitsForOne, TransfersBounded, Finished
<1>3. QueueNeverWedged
  BY DEF Init, QueueNeverWedged
<1> QED
  BY <1>1, <1>2, <1>3 DEF IInv

LEMMA HandlersStep ==
  ASSUME IInv, NEW r \in replies, Handlers(r)
  PROVE  IInv'
BY NotSavedStep, QueueSavedStep, OnProcessContributionQueueStep,
  OnEntrySavedStep, OnQueueSavedStep,
  OnMarkContributionQueueAsCompleteStep, PrepareTokensStep,
  OnMarkUnblindedTokensAsReservedStep, OnPrepareAutoContributionStep,
  PrepareStepSavedStep, OnProcessTokensStep, TokenProcessedStep,
  ContributionAmountSavedStep, ContributionInfoStep,
  OnServerPublisherInfoStep, CompletedHandlerStep, OnResultStep,
  ContributionCompletedSavedStep, SetRetryCounterStep, RetryStep,
  OnReservedUnblindedTokensForRetryAttemptStep
DEF Handlers

LEMMA RequestsStep ==
  ASSUME IInv, NEW r \in requests, Answered(r) \/ Failed(r) \/ Served(r)
  PROVE  IInv'
BY OnBalanceStep, OnRedeemTokensStep, OnCommitTransactionStep,
  OnBalanceFailedStep, OnRedeemTokensFailedStep,
  OnCommitTransactionFailedStep, ServerRedeemsStep, ProviderTransfersStep
DEF Answered, Failed, Served

LEMMA NextInv == IInv /\ [Next]_vars => IInv'
<1> SUFFICES ASSUME IInv, [Next]_vars PROVE IInv'
  OBVIOUS
<1>1. CASE UNCHANGED vars
  <2>1. \A c \in Contributions : ContributionOK(c)'
    BY <1>1, Untouched DEF IInv, vars, database, servers, Continuations
  <2>2. QueueNeverWedged'
    BY <1>1 DEF IInv, vars, passes, servers, QueueNeverWedged, PassUnderWay
  <2>3. TypeOK'
    BY <1>1 DEF IInv, TypeOK, vars, database, passes, prefs, servers
  <2> QED
    BY <2>1, <2>2, <2>3 DEF IInv
<1>2. ASSUME NEW i \in Items,
             OneTimeTip(i) \/ StartMonthlyContribution(i)
               \/ StartAutoContribute(i)
      PROVE  IInv'
  BY <1>2, ItemSaved, StartMonthlyContributionStep
  DEF OneTimeTip, StartAutoContribute
<1> QED
  BY <1>1, <1>2, QueueTimerElapsedStep, HandlersStep, RequestsStep,
    OnRetryTimerElapsedStep, SetAutoContributeEnabledStep, DiskStep,
    RestartStep
  DEF Next

\* In every state the program can reach, no contribution waits for two things,
\* each waits for what its state calls for unless the disk has been full since
\* the last start, and its transfers are bounded by its starts.
THEOREM Invariance == Spec => []IInv
<1> QED
  BY InitInv, NextInv, PTL DEF Spec

\* The type invariant.
THEOREM TypeCorrect == Spec => []TypeOK
<1>1. IInv => TypeOK
  BY DEF IInv
<1> QED
  BY <1>1, Invariance, PTL

\* A contribution that is not finished never waits for two answers or timers
\* (contribution.cc), whatever is written or not; and as long as no write has
\* failed since the last start it waits for one: no answer of a server, no
\* lost connection and no lack of funds makes a handler forget it.
THEOREM OneContinuationAlways == Spec => []OneContinuation
<1>1. IInv => OneContinuation
  BY DEF IInv, ContributionOK, WaitsForOne, OneContinuation, Unfinished,
    Exists, Finished
<1> QED
  BY <1>1, Invariance, PTL

\* As long as no write has failed since the last start, queue_in_progress_
\* is not set without a pass under way: no way through the handlers of the
\* queue (contribution.cc) leaves it stuck but the two for a failed save.
THEOREM QueueNeverWedgedAlways == Spec => []QueueNeverWedged
<1>1. IInv => QueueNeverWedged
  BY DEF IInv
<1> QED
  BY <1>1, Invariance, PTL

\* An external wallet pays a contribution at most once in each run of the
\* process: within a run no retry leads back to the transfer, not even when
\* the payment could not be written down (contribution_external_wallet.cc).
THEOREM TransferredOncePerStartAlways == Spec => []TransferredOncePerStart
<1>1. IInv => TransferredOncePerStart
  BY DEF IInv, ContributionOK, TransfersBounded, TransferredOncePerStart
<1> QED
  BY <1>1, Invariance, PTL

-----------------------------------------------------------------------------
(* Final steps.                                                            *)

RowsKept ==
  \A c \in Contributions :
     Exists(c) => /\ contributions'[c] # NoContribution
                  /\ contributions[c].step \in FinalSteps =>
                       contributions'[c].step = contributions[c].step

\* A handler writes the row of its contribution only, and the contribution
\* goes on waiting for something.
OwnRow(r) ==
  /\ \A c \in Contributions : c # r.c => contributions'[c] = contributions[c]
  /\ \E s \in replies' : s.on \notin ItemHandlers /\ s.c = r.c

\* Whoever handles an answer for a contribution knows that it is not finished,
\* and what waits for something exists.
LEMMA OwnRowKeeps ==
  ASSUME IInv, IInv', NEW r \in InFlight, Handles(r), OwnRow(r)
  PROVE  RowsKept
<1>1. r.c \in Contributions /\ Exists(r.c) /\ ~Finished(r.c)
  BY Alone DEF Handles
<1>2. Continuations(r.c)' # {}
  BY DEF OwnRow, Continuations
<1>3. contributions'[r.c] # NoContribution
  BY <1>1, <1>2 DEF IInv, ContributionOK, WaitsForOne, Exists
<1> QED
  BY <1>1, <1>3 DEF RowsKept, OwnRow, Exists, Finished

LEMMA RowsUnchanged ==
  ASSUME contributions' = contributions
  PROVE  RowsKept
BY DEF RowsKept, Exists

LEMMA SetStepOwn ==
  ASSUME IInv, NEW r, NEW done, NEW s, NEW step, NEW retry,
         SetStep(r.c, step, retry), Await(done, {s}),
         s.c = r.c, s.on \notin ItemHandlers
  PROVE  OwnRow(r)
<1>1. \A c \in Contributions : c # r.c => contributions'[c] = contributions[c]
  BY DEF SetStep, Written, IInv, TypeOK
<1>2. s \in replies'
  BY DEF Await
<1> QED
  BY <1>1, <1>2 DEF OwnRow

LEMMA CompletedOwn ==
  ASSUME IInv, NEW r, NEW result, ContributionCompleted({r}, r.c, result)
  PROVE  OwnRow(r)
<1> DEFINE s == [on |-> "ContributionCompletedSaved", c |-> r.c]
<1>1. s.c = r.c /\ s.on \notin ItemHandlers
  BY DEF ItemHandlers
<1>2. SetStep(r.c, FinalStep(result), -1) /\ Await({r}, {s})
  BY DEF ContributionCompleted
<1> HIDE DEF s
<1> QED
  BY <1>1, <1>2, SetStepOwn

LEMMA PrepareOwn ==
  ASSUME IInv, Writes, NEW r, NEW step, PreparePublishers(r, step)
  PROVE  OwnRow(r)
<1> DEFINE drawn == [on |-> "OnPrepareAutoContribution", c |-> r.c]
           saved == [on |-> "PrepareStepSaved", c |-> r.c]
<1>1. /\ drawn.c = r.c /\ drawn.on \notin ItemHandlers
      /\ saved.c = r.c /\ saved.on \notin ItemHandlers
  BY DEF ItemHandlers
<1>2. CASE ItemType[contributions[r.c].item] = "AUTO_CONTRIBUTE"
  <2>1. Await({r}, {drawn})
    BY <1>2 DEF PreparePublishers, WrittenOr
  <2>2. drawn \in replies'
    BY <2>1 DEF Await
  <2>3. PICK votes \in Votes(contributions[r.c].publishers,
                             Cardinality(r.ids)) :
          contributions' = [contributions EXCEPT
                              ![r.c].total = votes,
                              ![r.c].contributed = Nothing,
                              ![r.c].step = step,
                              ![r.c].retry = r.retry]
    BY <1>2 DEF PreparePublishers, Written
  <2>4. \A c \in Contributions :
          c # r.c => contributions'[c] = contributions[c]
    BY <2>3 DEF IInv, TypeOK
  <2> QED
    BY <1>1, <2>2, <2>4 DEF OwnRow
<1>3. CASE ItemType[contributions[r.c].item] # "AUTO_CONTRIBUTE"
  <2>1. SetStep(r.c, "PREPARE", 0) /\ Await({r}, {saved})
    BY <1>3 DEF PreparePublishers, WrittenOr
  <2> HIDE DEF saved
  <2> QED
    BY <1>1, <2>1, SetStepOwn
<1> QED
  BY <1>2, <1>3

LEMMA ContributedOwn ==
  ASSUME IInv, NEW r, NEW done, NEW s, NEW p, Contributed(r.c, p),
         Await(done, {s}), s.c = r.c, s.on \notin ItemHandlers
  PROVE  OwnRow(r)
<1>1. \A c \in Contributions : c # r.c => contributions'[c] = contributions[c]
  BY DEF Contributed, Written, IInv, TypeOK
<1>2. s \in replies'
  BY DEF Await
<1> QED
  BY <1>1, <1>2 DEF OwnRow

LEMMA NewEntryKeeps ==
  ASSUME IInv, NEW done, NEW r, NEW previous, NEW balance, NEW amount,
         CreateNewEntry(done, r, previous, balance, amount)
  PROVE  RowsKept
<1>1. contributions' = contributions
      \/ \E c \in FreshIds : \E row :
           contributions' = [contributions EXCEPT ![c] = row]
  BY DEF CreateNewEntry, Written
<1>2. ASSUME NEW c \in FreshIds, NEW row,
             contributions' = [contributions EXCEPT ![c] = row]
      PROVE  RowsKept
  BY <1>2 DEF FreshIds, RowsKept, Exists, IInv, TypeOK
<1> QED
  BY <1>1, <1>2, RowsUnchanged

\* The handlers that write their own row, when it is written ...
LEMMA WritersKeep ==
  ASSUME IInv, IInv', Writes, NEW r \in InFlight, Handles(r),
         \/ PrepareTokens(r) \/ OnMarkUnblindedTokensAsReserved(r)
         \/ OnReservedUnblindedTokensForRetryAttempt(r)
         \/ OnPrepareAutoContribution(r) \/ TokenProcessed(r)
         \/ OnCommitTransaction(r) \/ OnResult(r) \/ SetRetryCounter(r)
         \/ Retry(r)
  PROVE  RowsKept
<1>1. CASE contributions' = contributions
  BY <1>1, RowsUnchanged
<1>2. CASE OwnRow(r)
  BY <1>2, OwnRowKeeps
<1>3. CASE PrepareTokens(r)
  <2> DEFINE ids == TakeFirst(r.ids, contributions[r.c].amount)
             reserved == MarkRecordListAsReserved(tokens, ids, r.c)
             s == [on |-> "OnMarkUnblindedTokensAsReserved", c |-> r.c,
                   ids |-> ids, ok |-> Writes /\ AllReserved(reserved, ids),
                   retry |-> contributions[r.c].retry]
  <2>1. s.c = r.c /\ s.on \notin ItemHandlers
    BY DEF ItemHandlers
  <2>2. \/ contributions' = contributions
        \/ SetStep(r.c, "RESERVE", 0) /\ Await({r}, {s})
    BY <1>3 DEF PrepareTokens
  <2> HIDE DEF s
  <2> QED
    BY <1>1, <1>2, <2>1, <2>2, SetStepOwn
<1>4. CASE OnMarkUnblindedTokensAsReserved(r)
           \/ OnReservedUnblindedTokensForRetryAttempt(r)
  <2>1. contributions' = contributions \/ PreparePublishers(r, "START")
        \/ PreparePublishers(r, "RESERVE")
    BY <1>4 DEF OnMarkUnblindedTokensAsReserved,
      OnReservedUnblindedTokensForRetryAttempt
  <2> QED
    BY <1>1, <1>2, <2>1, PrepareOwn
<1>5. CASE OnPrepareAutoContribution(r)
  <2> DEFINE s == [on |-> "PrepareStepSaved", c |-> r.c]
  <2>1. s.c = r.c /\ s.on \notin ItemHandlers
    BY DEF ItemHandlers
  <2>2. SetStep(r.c, "PREPARE", 0) /\ Await({r}, {s})
    BY <1>5 DEF OnPrepareAutoContribution, WrittenOr
  <2> HIDE DEF s
  <2> QED
    BY <1>2, <2>1, <2>2, SetStepOwn
<1>6. CASE TokenProcessed(r)
  <2> DEFINE s == [on |-> "ContributionAmountSaved", c |-> r.c,
                   final |-> r.final]
  <2>1. s.c = r.c /\ s.on \notin ItemHandlers
    BY DEF ItemHandlers
  <2>2. Contributed(r.c, r.publisher) /\ Await({r}, {s})
    BY <1>6 DEF TokenProcessed, WrittenOr
  <2> HIDE DEF s
  <2> QED
    BY <1>2, <2>1, <2>2, ContributedOwn
<1>7. CASE OnCommitTransaction(r)
  <2> DEFINE s == [on |-> "Completed", c |-> r.c]
  <2>1. s.c = r.c /\ s.on \notin ItemHandlers
    BY DEF ItemHandlers
  <2>2. Contributed(r.c, r.publisher) /\ Await({}, {s})
    BY <1>7 DEF OnCommitTransaction, WrittenOr
  <2> HIDE DEF s
  <2> QED
    BY <1>2, <2>1, <2>2, ContributedOwn
<1>8. CASE OnResult(r) \/ Retry(r)
  <2>1. \/ contributions' = contributions
        \/ ContributionCompleted({r}, r.c, r.result)
        \/ ContributionCompleted({r}, r.c, "AC_OFF")
    BY <1>8 DEF OnResult, Retry
  <2> QED
    BY <1>1, <1>2, <2>1, CompletedOwn
<1>9. CASE SetRetryCounter(r)
  <2> DEFINE info == contributions[r.c]
             s == [on |-> "Retry", c |-> r.c, retry |-> info.retry]
  <2>1. s.c = r.c /\ s.on \notin ItemHandlers
    BY DEF ItemHandlers
  <2>2. \/ ContributionCompleted({r}, r.c, "TOO_MANY_RESULTS")
        \/ SetStep(r.c, info.step, CountUp(info)) /\ Await({r}, {s})
    BY <1>9 DEF SetRetryCounter, IfWritten
  <2> HIDE DEF s, info
  <2> QED
    BY <1>2, <2>1, <2>2, CompletedOwn, SetStepOwn
<1> QED
  BY <1>3, <1>4, <1>5, <1>6, <1>7, <1>8, <1>9

\* ... and when it is not.
LEMMA NoWriterKeeps ==
  ASSUME ~Writes, NEW r,
         \/ PrepareTokens(r) \/ OnMarkUnblindedTokensAsReserved(r)
         \/ OnReservedUnblindedTokensForRetryAttempt(r)
         \/ OnPrepareAutoContribution(r) \/ TokenProcessed(r)
         \/ OnCommitTransaction(r) \/ OnResult(r) \/ SetRetryCounter(r)
         \/ Retry(r)
  PROVE  RowsKept
<1>1. contributions' = contributions
  BY DEF PrepareTokens, OnMarkUnblindedTokensAsReserved,
    OnReservedUnblindedTokensForRetryAttempt, PreparePublishers,
    OnPrepareAutoContribution, TokenProcessed, OnCommitTransaction, OnResult,
    SetRetryCounter, Retry, ContributionCompleted, SetStep, Contributed,
    Written
<1> QED
  BY <1>1, RowsUnchanged

LEMMA HandlersKeep ==
  ASSUME IInv, NEW r \in replies, Handlers(r)
  PROVE  RowsKept
<1>1. IInv'
  BY HandlersStep
<1>2. CASE OnQueueSaved(r)
  BY <1>2, NewEntryKeeps DEF OnQueueSaved
<1>3. CASE \/ QueueSaved(r) \/ OnProcessContributionQueue(r) \/ OnEntrySaved(r)
           \/ OnMarkContributionQueueAsComplete(r) \/ PrepareStepSaved(r)
           \/ OnProcessTokens(r) \/ ContributionAmountSaved(r)
           \/ ContributionInfo(r) \/ OnServerPublisherInfo(r) \/ Completed(r)
           \/ ContributionCompletedSaved(r) \/ NotSaved(r)
  <2>1. contributions' = contributions
    BY <1>3 DEF QueueSaved, OnProcessContributionQueue, OnEntrySaved,
      OnMarkContributionQueueAsComplete, PrepareStepSaved, OnProcessTokens,
      ContributionAmountSaved, ContributionInfo, OnServerPublisherInfo,
      Completed, ContributionCompletedSaved, NotSaved, database
  <2> QED
    BY <2>1, RowsUnchanged
<1>4. CASE /\ \/ PrepareTokens(r) \/ OnMarkUnblindedTokensAsReserved(r)
              \/ OnReservedUnblindedTokensForRetryAttempt(r)
              \/ OnPrepareAutoContribution(r) \/ TokenProcessed(r)
              \/ OnResult(r) \/ SetRetryCounter(r) \/ Retry(r)
           /\ Handles(r)
  BY <1>1, <1>4, WritersKeep, NoWriterKeeps DEF InFlight
<1> QED
  BY <1>2, <1>3, <1>4 DEF Handlers, Handles, ItemHandlers

LEMMA RequestsKeep ==
  ASSUME IInv, NEW r \in requests, Answered(r) \/ Failed(r) \/ Served(r)
  PROVE  RowsKept
<1>1. IInv'
  BY RequestsStep
<1>2. CASE OnBalance(r)
  <2>1. PICK balance : Process(r, balance)
    BY <1>2 DEF OnBalance
  <2> QED
    BY <2>1, NewEntryKeeps, RowsUnchanged DEF Process
<1>3. CASE r.on = "OnCommitTransaction" /\ OnCommitTransaction(r)
  BY <1>1, <1>3, WritersKeep, NoWriterKeeps
  DEF InFlight, Handles, ItemHandlers
<1>4. CASE \/ OnRedeemTokens(r) \/ OnBalanceFailed(r)
           \/ OnRedeemTokensFailed(r) \/ OnCommitTransactionFailed(r)
           \/ ServerRedeems(r) \/ ProviderTransfers(r)
  <2>1. contributions' = contributions
    BY <1>4 DEF OnRedeemTokens, OnBalanceFailed, OnRedeemTokensFailed,
      OnCommitTransactionFailed, ServerRedeems, ProviderTransfers, database
  <2> QED
    BY <2>1, RowsUnchanged
<1> QED
  BY <1>2, <1>3, <1>4 DEF Answered, Failed, Served

\* A contribution that has reached a final step keeps it ("negative steps are
\* final steps, nothing to retry", contribution.cc): answers that come after
\* it, failed writes and restarts do not write another.
THEOREM FinalStaysFinal == Spec => FinalStepIsFinal
<1>1. IInv /\ [Next]_vars => [RowsKept]_vars
  <2> SUFFICES ASSUME IInv, Next PROVE RowsKept
    OBVIOUS
  <2>1. CASE \E r \in replies : Handlers(r)
    BY <2>1, HandlersKeep
  <2>2. CASE \E r \in requests : Answered(r) \/ Failed(r) \/ Served(r)
    BY <2>2, RequestsKeep
  <2>3. CASE \/ \E i \in Items : \/ OneTimeTip(i)
                                 \/ StartMonthlyContribution(i)
                                 \/ StartAutoContribute(i)
             \/ QueueTimerElapsed
             \/ \E c \in Contributions : OnRetryTimerElapsed(c)
             \/ SetAutoContributeEnabled
             \/ DiskFills \/ DiskIsFreed
             \/ Restart
    <3>1. contributions' = contributions
      BY <2>3, Zenon DEF OneTimeTip, StartMonthlyContribution,
        StartAutoContribute, QueueTimerElapsed, OnRetryTimerElapsed,
        SetAutoContributeEnabled, DiskFills, DiskIsFreed, Restart, database
    <3> QED
      BY <3>1, RowsUnchanged
  <2> QED
    BY <2>1, <2>2, <2>3 DEF Next
<1>2. [RowsKept]_vars => [\A c \in Contributions :
         contributions[c] # NoContribution =>
           /\ contributions'[c] # NoContribution
           /\ contributions[c].step \in FinalSteps =>
                contributions'[c].step = contributions[c].step]_vars
  BY DEF RowsKept, Exists
<1> QED
  BY <1>1, <1>2, Invariance, PTL DEF Spec, FinalStepIsFinal

-----------------------------------------------------------------------------
(***************************************************************************)
(* What is paid with tokens.  Who pays with them owns as many as the       *)
(* amount of the contribution or none at all; the tokens it still has are  *)
(* no more than what is still due.  Sums over publishers are sizes of      *)
(* sets: a publisher that is due n tokens has n units.                     *)
(***************************************************************************)
Owned(c) == {t \in Tokens : tokens[t].owner = c}
Reserved(c) == ReservedFor(tokens, c)

\* The units of the publishers that are not paid yet, those in paid aside.
UnitsOf(info, p) == {p} \X (1..info.total[p])
Due(info, paid) == UNION {UnitsOf(info, p) : p \in Unpaid(info) \ paid}

PaysWithTokens(c) == Exists(c) /\ contributions[c].processor = "BRAVE_TOKENS"

\* Tokens are taken in the order of their rows, and redeemed for a publisher
\* of the contribution.
TokensOf(c) ==
  /\ ~PaysWithTokens(c) => Owned(c) = {}
  /\ \A t \in Owned(c) : ~tokens[t].spent =>
       /\ tokens[t].reserved
       /\ \A u \in Tokens : u < t => tokens[u].spent \/ tokens[u].owner = c
  /\ \A t \in SpentFor(c) : \E payment \in redeemedFor[t] :
       payment.publisher \in contributions[c].publishers

Backed(c) ==
  LET info == contributions[c]
  IN  /\ info.step \in {"START", "RESERVE"} =>
           /\ SpentFor(c) = {}
           /\ Owned(c) = {} \/ Cardinality(Owned(c)) = info.amount
           /\ Cardinality(Due(info, {})) >= info.amount
      /\ info.step = "PREPARE" =>
           /\ \/ Cardinality(Owned(c)) = info.amount
              \/ Reserved(c) = {} /\ Unpaid(info) # {}
           /\ Cardinality(Reserved(c)) <= Cardinality(Due(info, {}))
      /\ info.step = "COMPLETED" => Cardinality(SpentFor(c)) = info.amount

TokenKinds ==
  {"PrepareTokens", "OnMarkUnblindedTokensAsReserved",
   "OnReservedUnblindedTokensForRetryAttempt", "OnPrepareAutoContribution",
   "PrepareStepSaved", "OnProcessTokens", "OnRedeemTokens", "TokenProcessed",
   "ContributionAmountSaved"}
WalletKinds == {"ContributionInfo", "OnServerPublisherInfo", "Completed",
                "OnCommitTransaction"}
PrepareKinds == {"PrepareStepSaved", "OnProcessTokens", "OnRedeemTokens",
                 "TokenProcessed", "ContributionAmountSaved"}

\* What is true of a contribution while r is in flight for it.
Carries(r) ==
  LET info == contributions[r.c]
  IN  /\ r.on \in TokenKinds => PaysWithTokens(r.c)
      /\ r.on \in WalletKinds => ~PaysWithTokens(r.c)
      /\ r.on = "OnEntrySaved" =>
           r.wallet = info.processor /\ info.step = "START"
      /\ r.on = "PrepareTokens" =>
           /\ info.step = "START" /\ Owned(r.c) \subseteq r.ids
           /\ \A t \in Tokens \ r.ids : tokens[t].spent
      /\ r.on = "OnMarkUnblindedTokensAsReserved" /\ r.ok =>
           info.step = "RESERVE" /\ Cardinality(r.ids) = info.amount
      /\ r.on = "OnReservedUnblindedTokensForRetryAttempt" =>
           info.step = "RESERVE" /\ r.ids = Reserved(r.c)
      /\ r.on = "OnPrepareAutoContribution" =>
           info.step \in {"START", "RESERVE"}
      /\ r.on \in PrepareKinds => info.step = "PREPARE"
      /\ r.on = "OnProcessTokens" => r.ids = Reserved(r.c)
      /\ r.on = "OnRedeemTokens" =>
           /\ r.publisher \in Unpaid(info) /\ r.ids # {}
           /\ r.ids = TakeFirst(Reserved(r.c), info.total[r.publisher])
           /\ r.final => Unpaid(info) = {r.publisher}
           /\ r.handled => \A t \in r.ids : \E payment \in redeemedFor[t] :
                payment.publisher = r.publisher
      /\ r.on = "TokenProcessed" =>
           /\ Cardinality(Owned(r.c)) = info.amount
           /\ Cardinality(Reserved(r.c))
                <= Cardinality(Due(info, {r.publisher}))
           /\ r.final => Unpaid(info) = {r.publisher}
      /\ \/ r.on = "ContributionAmountSaved" /\ r.final
         \/ r.on = "OnResult" /\ r.result = "LEDGER_OK" /\ PaysWithTokens(r.c)
         => Cardinality(SpentFor(r.c)) = info.amount

Secured(c) ==
  /\ TokensOf(c)
  /\ PaysWithTokens(c) => Backed(c)
  /\ \A r \in Continuations(c) : Carries(r)

PaidInv == \A c \in Contributions : Secured(c)
-----------------------------------------------------------------------------
(* Counting.                                                               *)

LEMMA FiniteTokens ==
  ASSUME NEW S \in SUBSET Tokens
  PROVE  IsFiniteSet(S) /\ Cardinality(S) \in Nat
BY TokensAssumption, FS_Subset, FS_CardinalityType

\* Less of a finite set is less.
LEMMA StrictlyFewer ==
  ASSUME NEW T, IsFiniteSet(T), NEW S \in SUBSET T, NEW x \in T, x \notin S
  PROVE  Cardinality(S) \in Nat /\ Cardinality(T) \in Nat
         /\ Cardinality(S) < Cardinality(T)
<1>1. /\ IsFiniteSet(S) /\ Cardinality(S) <= Cardinality(T)
      /\ Cardinality(S) = Cardinality(T) => S = T
  BY FS_Subset
<1>2. Cardinality(S) \in Nat /\ Cardinality(T) \in Nat
  BY <1>1, FS_CardinalityType
<1> QED
  BY <1>1, <1>2

LEMMA Rest ==
  ASSUME NEW S, IsFiniteSet(S), NEW T \in SUBSET S
  PROVE  /\ Cardinality(T) \in Nat /\ Cardinality(S) \in Nat
         /\ Cardinality(S \ T) \in Nat
         /\ Cardinality(S \ T) = Cardinality(S) - Cardinality(T)
<1>1. S \cap T = T /\ IsFiniteSet(T)
  BY FS_Subset
<1>2. IsFiniteSet(S \ T)
      /\ Cardinality(S \ T) = Cardinality(S) - Cardinality(S \cap T)
  BY FS_Difference
<1> QED
  BY <1>1, <1>2, FS_CardinalityType

\* What comes before x in S, and what comes after it.
Below(S, x) == {y \in S : y < x}
Above(S, x) == {y \in S : x < y}

LEMMA FewerBelow ==
  ASSUME NEW S \in SUBSET Nat, IsFiniteSet(S), NEW x \in S, NEW y \in S, x < y
  PROVE  /\ Cardinality(Below(S, x)) \in Nat
         /\ Cardinality(Below(S, y)) \in Nat
         /\ Cardinality(Below(S, x)) < Cardinality(Below(S, y))
         /\ Cardinality(Above(S, x)) \in Nat
         /\ Cardinality(Above(S, y)) \in Nat
         /\ Cardinality(Above(S, y)) < Cardinality(Above(S, x))
<1>0. x \in Nat /\ y \in Nat /\ \A z \in S : z \in Nat
  OBVIOUS
<1>1. /\ \A z \in S : z < x => z < y
      /\ \A z \in S : y < z => x < z
  BY <1>0
<1>2. /\ x \in Below(S, y) /\ x \notin Below(S, x)
      /\ y \in Above(S, x) /\ y \notin Above(S, y)
      /\ Below(S, y) \subseteq S /\ Above(S, x) \subseteq S
  BY <1>0 DEF Below, Above
<1>3. IsFiniteSet(Below(S, y)) /\ IsFiniteSet(Above(S, x))
  BY <1>2, FS_Subset
<1> QED
  <2>1. Below(S, x) \subseteq Below(S, y) /\ Above(S, y) \subseteq Above(S, x)
    BY <1>1 DEF Below, Above
  <2> QED
    BY <1>2, <1>3, <2>1, StrictlyFewer

\* A set of numbers that is not empty has a least one.
LEMMA LeastOf ==
  ASSUME NEW S \in SUBSET Nat, S # {}
  PROVE  \E x \in S : \A y \in S : x <= y
<1> DEFINE Less == {pair \in Nat \X Nat : pair[1] < pair[2]}
<1>1. IsWellFoundedOn(Less, Nat)
  BY NatLessThanWellFounded DEF OpToRel
<1> HIDE DEF Less
<1>2. PICK x \in S : \A y \in S : <<y, x>> \notin Less
  BY <1>1, WFMin
<1>3. \A y \in S : x <= y
  <2> SUFFICES ASSUME NEW y \in S PROVE x <= y
    OBVIOUS
  <2>1. x \in Nat /\ y \in Nat
    OBVIOUS
  <2>2. y < x => <<y, x>> \in Less
    BY <2>1 DEF Less
  <2> QED
    BY <1>2, <2>1, <2>2
<1> QED
  BY <1>3

\* A finite one also has a greatest one: the one with the fewest above it.
LEMMA GreatestOf ==
  ASSUME NEW S \in SUBSET Nat, IsFiniteSet(S), S # {}
  PROVE  \E x \in S : \A y \in S : y <= x
<1> DEFINE Counts == {Cardinality(Above(S, x)) : x \in S}
<1>1. \A x \in S : Cardinality(Above(S, x)) \in Nat
  BY FS_Subset, FS_CardinalityType DEF Above
<1>2. Counts \in SUBSET Nat /\ Counts # {}
  BY <1>1
<1> HIDE DEF Counts
<1>3. PICK n \in Counts : \A m \in Counts : n <= m
  BY <1>2, LeastOf
<1>4. PICK x \in S : n = Cardinality(Above(S, x))
  BY DEF Counts
<1>5. ASSUME NEW y \in S PROVE y <= x
  <2>1. CASE x < y
    <3>1. Cardinality(Above(S, y)) < Cardinality(Above(S, x))
      BY <2>1, FewerBelow
    <3>2. n <= Cardinality(Above(S, y))
      BY <1>3 DEF Counts
    <3> QED
      BY <1>1, <1>4, <3>1, <3>2
  <2>2. x \in Nat /\ y \in Nat
    OBVIOUS
  <2> QED
    BY <2>1, <2>2
<1> QED
  BY <1>5

LEMMA Taken ==
  ASSUME NEW ids \in SUBSET Tokens, NEW n
  PROVE  /\ TakeFirst(ids, n) \subseteq ids
         /\ \A t \in ids : t \in TakeFirst(ids, n)
                             <=> Cardinality(Below(ids, t)) < n
BY DEF TakeFirst, Below

\* TakeFirst takes at most as many as the amount, ...
LEMMA TakesAtMost ==
  ASSUME NEW ids \in SUBSET Tokens, NEW n \in Nat
  PROVE  Cardinality(TakeFirst(ids, n)) <= n
<1> DEFINE taken == TakeFirst(ids, n)
           f == [t \in taken |-> Cardinality(Below(ids, t))]
<1>1. IsFiniteSet(ids) /\ ids \in SUBSET Nat
  BY FiniteTokens, TokensAssumption
<1>2. \A t \in taken : Cardinality(Below(ids, t)) \in 0..(n - 1)
  <2> SUFFICES ASSUME NEW t \in taken
               PROVE  Cardinality(Below(ids, t)) \in 0..(n - 1)
    OBVIOUS
  <2>1. t \in ids /\ Cardinality(Below(ids, t)) < n
    BY Taken
  <2>2. Cardinality(Below(ids, t)) \in Nat
    BY FiniteTokens DEF Below
  <2> QED
    BY <2>1, <2>2
<1>3. ASSUME NEW s \in taken, NEW t \in taken,
             Cardinality(Below(ids, s)) = Cardinality(Below(ids, t))
      PROVE  s = t
  <2>1. s \in ids /\ t \in ids /\ s \in Nat /\ t \in Nat
    BY <1>1, Taken
  <2>2. ~(s < t) /\ ~(t < s)
    BY <1>1, <1>3, <2>1, FewerBelow
  <2> QED
    BY <2>1, <2>2
<1> HIDE DEF taken
<1>4. f \in Injection(taken, 0..(n - 1))
  BY <1>2, <1>3 DEF Injection, IsInjective
<1>5. IsFiniteSet(0..(n - 1)) /\ Cardinality(0..(n - 1)) = n
  <2>1. 0 \in Int /\ n - 1 \in Int
    OBVIOUS
  <2> QED
    BY <2>1, FS_Interval
<1> HIDE DEF f
<1>6. Cardinality(taken) <= n
  BY <1>4, <1>5, FS_Injection
<1> QED
  BY <1>6 DEF taken

\* ... and all there are or exactly the amount.
LEMMA TakesEnough ==
  ASSUME NEW ids \in SUBSET Tokens, NEW n \in Nat
  PROVE  TakeFirst(ids, n) = ids \/ Cardinality(TakeFirst(ids, n)) = n
<1> DEFINE taken == TakeFirst(ids, n)
           left  == ids \ taken
<1>1. taken \subseteq ids /\ taken \subseteq Tokens
  BY Taken
<1>2. CASE left # {}
  <2>1. left \in SUBSET Nat /\ \A u \in ids : u \in Nat
    BY TokensAssumption
  <2> HIDE DEF taken
  <2>2. PICK t \in left : \A u \in left : t <= u
    BY <1>2, <2>1, LeastOf
  <2>3. Below(ids, t) \subseteq taken
    BY <2>1, <2>2 DEF Below
  <2>4. ~(Cardinality(Below(ids, t)) < n)
    BY <2>2, Taken DEF taken
  <2>5. /\ Cardinality(Below(ids, t)) <= Cardinality(taken)
        /\ Cardinality(taken) \in Nat
        /\ Cardinality(Below(ids, t)) \in Nat
    <3>1. IsFiniteSet(taken) /\ Cardinality(taken) \in Nat
      BY <1>1, FiniteTokens
    <3> QED
      BY <2>3, <3>1, FS_Subset, FS_CardinalityType
  <2>6. Cardinality(taken) <= n
    BY TakesAtMost DEF taken
  <2> QED
    BY <2>4, <2>5, <2>6 DEF taken
<1>3. CASE left = {}
  BY <1>1, <1>3
<1> QED
  BY <1>2, <1>3

\* What comes before something taken is taken.
LEMMA TakesInOrder ==
  ASSUME NEW ids \in SUBSET Tokens, NEW n \in Nat,
         NEW t \in TakeFirst(ids, n), NEW u \in ids, u < t
  PROVE  u \in TakeFirst(ids, n)
<1>1. IsFiniteSet(ids) /\ ids \in SUBSET Nat
  BY FiniteTokens, TokensAssumption
<1>2. t \in ids /\ Cardinality(Below(ids, t)) < n
  BY Taken
<1>3. /\ Cardinality(Below(ids, u)) < Cardinality(Below(ids, t))
      /\ Cardinality(Below(ids, u)) \in Nat
      /\ Cardinality(Below(ids, t)) \in Nat
  BY <1>1, <1>2, FewerBelow
<1>4. Cardinality(Below(ids, u)) < n
  BY <1>2, <1>3
<1> QED
  BY <1>4, Taken

-----------------------------------------------------------------------------
(* What keeps the contributions secured.                                   *)

\* A contribution keeps what is its own.
Keeps(c) ==
  /\ contributions'[c] = contributions[c]
  /\ \A t \in Tokens : \/ tokens'[t] = tokens[t]
                       \/ tokens[t].owner # c /\ tokens'[t].owner # c

\* What is spent stays spent, what is redeemed stays redeemed.
NothingUndone ==
  \A t \in Tokens : /\ tokens[t].spent => tokens'[t].spent
                    /\ redeemedFor[t] \subseteq redeemedFor'[t]

LEMMA OwnTokens ==
  ASSUME NEW c, Keeps(c)
  PROVE  /\ Owned(c)' = Owned(c) /\ Reserved(c)' = Reserved(c)
         /\ SpentFor(c)' = SpentFor(c)
         /\ Exists(c)' <=> Exists(c)
         /\ PaysWithTokens(c)' <=> PaysWithTokens(c)
<1>1. /\ Owned(c)' = Owned(c) /\ SpentFor(c)' = SpentFor(c)
      /\ {t \in Tokens : tokens[t].owner = c /\ ~tokens[t].spent}'
           = {t \in Tokens : tokens[t].owner = c /\ ~tokens[t].spent}
  BY DEF Keeps, Owned, SpentFor
<1>2. Reserved(c) = {t \in Tokens : /\ tokens[t].owner = c
                                    /\ ~tokens[t].spent
                                    /\ tokens[t].reserved}
  BY DEF Reserved, ReservedFor, UnspentOf
<1>3. Reserved(c)' = {t \in Tokens : /\ tokens'[t].owner = c
                                     /\ ~tokens'[t].spent
                                     /\ tokens'[t].reserved}
  BY DEF Reserved, ReservedFor, UnspentOf
<1>4. Reserved(c)' = Reserved(c)
  BY <1>2, <1>3 DEF Keeps
<1> QED
  BY <1>1, <1>4 DEF Keeps, Exists, PaysWithTokens

LEMMA KeepsTokensOf ==
  ASSUME NEW c, Keeps(c), NothingUndone, TokensOf(c)
  PROVE  TokensOf(c)'
<1>1. /\ Owned(c)' = Owned(c) /\ SpentFor(c)' = SpentFor(c)
      /\ PaysWithTokens(c)' <=> PaysWithTokens(c)
  BY OwnTokens
<1>2. ~PaysWithTokens(c)' => Owned(c)' = {}
  BY <1>1 DEF TokensOf
<1>3. ASSUME NEW t \in Owned(c)', ~tokens'[t].spent
      PROVE  /\ tokens'[t].reserved
             /\ \A u \in Tokens :
                  u < t => tokens'[u].spent \/ tokens'[u].owner = c
  <2>1. /\ t \in Owned(c) /\ tokens'[t] = tokens[t]
        /\ \A u \in Tokens : /\ tokens[u].owner = c => tokens'[u] = tokens[u]
                             /\ tokens[u].spent => tokens'[u].spent
    BY <1>1, <1>3 DEF Keeps, NothingUndone, Owned
  <2> QED
    BY <1>3, <2>1 DEF TokensOf
<1>4. ASSUME NEW t \in SpentFor(c)'
      PROVE  \E payment \in redeemedFor'[t] :
                payment.publisher \in contributions'[c].publishers
  <2>1. t \in SpentFor(c) /\ t \in Tokens
    BY <1>1, <1>4 DEF SpentFor
  <2>2. PICK payment \in redeemedFor[t] :
          payment.publisher \in contributions[c].publishers
    BY <2>1 DEF TokensOf
  <2> QED
    BY <2>1, <2>2 DEF Keeps, NothingUndone
<1> QED
  BY <1>2, <1>3, <1>4 DEF TokensOf

LEMMA KeepsBacked ==
  ASSUME NEW c, Keeps(c), Backed(c)
  PROVE  Backed(c)'
<1>1. /\ Owned(c)' = Owned(c) /\ Reserved(c)' = Reserved(c)
      /\ SpentFor(c)' = SpentFor(c) /\ contributions'[c] = contributions[c]
  BY OwnTokens DEF Keeps
<1> QED
  BY <1>1 DEF Backed

LEMMA KeepsCarries ==
  ASSUME NEW r, Keeps(r.c), NothingUndone, r.ids \in SUBSET Tokens
           \/ r.on # "OnRedeemTokens", Carries(r)
  PROVE  Carries(r)'
<1>1. /\ Owned(r.c)' = Owned(r.c) /\ Reserved(r.c)' = Reserved(r.c)
      /\ SpentFor(r.c)' = SpentFor(r.c)
      /\ contributions'[r.c] = contributions[r.c]
      /\ PaysWithTokens(r.c)' <=> PaysWithTokens(r.c)
  BY OwnTokens DEF Keeps
<1>2. r.on = "PrepareTokens" =>
        \A t \in Tokens \ r.ids : tokens'[t].spent
  BY DEF Carries, NothingUndone
<1>3. r.on = "OnRedeemTokens" /\ r.handled =>
        \A t \in r.ids : \E payment \in redeemedFor'[t] :
          payment.publisher = r.publisher
  BY DEF Carries, NothingUndone
<1> QED
  BY <1>1, <1>2, <1>3 DEF Carries

\* A handler that writes nothing: what it asks for has to carry what is true.
LEMMA Reads ==
  ASSUME TypeOK, PaidInv, UNCHANGED <<contributions, tokens>>,
         \A t \in Tokens : redeemedFor[t] \subseteq redeemedFor'[t],
         NEW N, InFlight' \subseteq InFlight \cup N,
         \A n \in N : n.on \in ItemHandlers \/ Carries(n)'
  PROVE  PaidInv'
<1>1. NothingUndone /\ \A c : Keeps(c)
  BY DEF NothingUndone, Keeps
<1> SUFFICES ASSUME NEW c \in Contributions PROVE Secured(c)'
  BY DEF PaidInv
<1>2. Secured(c)
  BY DEF PaidInv
<1>3. TokensOf(c)' /\ (PaysWithTokens(c)' => Backed(c)')
  BY <1>1, <1>2, OwnTokens, KeepsTokensOf, KeepsBacked DEF Secured
<1>4. ASSUME NEW n \in Continuations(c)' PROVE Carries(n)'
  <2>1. n \in InFlight' /\ n.on \notin ItemHandlers /\ n.c = c
    BY DEF Continuations, InFlight
  <2>2. CASE n \in N
    BY <2>1, <2>2
  <2>3. CASE n \in InFlight
    <3>1. n \in Continuations(c)
      BY <2>1, <2>3 DEF Continuations, InFlight
    <3>2. Carries(n)
      BY <1>2, <3>1 DEF Secured
    <3>3. n.ids \in SUBSET Tokens \/ n.on # "OnRedeemTokens"
      BY <2>3, ReplyParts, RequestParts DEF InFlight, TypeOK, ReplyKinds
    <3> QED
      BY <1>1, <3>2, <3>3, KeepsCarries
  <2> QED
    BY <2>1, <2>2, <2>3
<1> QED
  BY <1>3, <1>4 DEF Secured

\* A step that writes for one contribution only.
LEMMA WritesFor ==
  ASSUME TypeOK, PaidInv, NEW c \in Contributions,
         \A other \in Contributions : other # c =>
           Keeps(other) /\ Continuations(other)' \subseteq Continuations(other),
         NothingUndone, \A n \in Continuations(c)' : Carries(n)',
         TokensOf(c)', PaysWithTokens(c)' => Backed(c)'
  PROVE  PaidInv'
<1>1. Secured(c)'
  BY DEF Secured
<1>2. ASSUME NEW other \in Contributions, other # c
      PROVE  Secured(other)'
  <2>1. Secured(other) /\ Keeps(other)
    BY <1>2 DEF PaidInv
  <2>2. TokensOf(other)' /\ (PaysWithTokens(other)' => Backed(other)')
    BY <2>1, OwnTokens, KeepsTokensOf, KeepsBacked DEF Secured
  <2>3. ASSUME NEW n \in Continuations(other)' PROVE Carries(n)'
    <3>1. n \in Continuations(other)
      BY <1>2
    <3>2. n \in InFlight /\ n.c = other /\ Carries(n)
      BY <2>1, <3>1 DEF Continuations, InFlight, Secured
    <3>3. n.ids \in SUBSET Tokens \/ n.on # "OnRedeemTokens"
      BY <3>2, ReplyParts, RequestParts DEF InFlight, TypeOK, ReplyKinds
    <3> QED
      BY <2>1, <3>2, <3>3, KeepsCarries
  <2> QED
    BY <2>2, <2>3 DEF Secured
<1> QED
  BY <1>1, <1>2 DEF PaidInv

\* A handler that writes for its contribution only.
LEMMA WritesTable ==
  ASSUME IInv, PaidInv, NEW r \in InFlight, r.on \notin ItemHandlers,
         \A other \in Contributions : other # r.c => Keeps(other),
         NothingUndone,
         NEW N, InFlight' = (InFlight \ {r}) \cup N,
         \A n \in N : n.c = r.c /\ Carries(n)',
         TokensOf(r.c)', PaysWithTokens(r.c)' => Backed(r.c)'
  PROVE  PaidInv'
<1>1. r.c \in Contributions
  BY Alone
<1>2. \A n \in Continuations(r.c)' : Carries(n)'
  <2>1. Continuations(r.c)' = {n \in N : n.on \notin ItemHandlers /\ n.c = r.c}
    BY ContinuationsAfter
  <2> QED
    BY <2>1
<1>3. \A other \in Contributions :
        other # r.c => Continuations(other)' = Continuations(other)
  BY ContinuationsAfter
<1> QED
  BY <1>1, <1>2, <1>3, WritesFor DEF IInv

-----------------------------------------------------------------------------
(* What is due.                                                            *)

LEMMA UnitsFinite ==
  ASSUME NEW info \in ContributionRows, NEW p \in Publishers
  PROVE  /\ IsFiniteSet(UnitsOf(info, p))
         /\ Cardinality(UnitsOf(info, p)) = info.total[p]
         /\ info.total[p] \in Nat
<1>1. info.total[p] \in Nat
  BY DEF ContributionRows
<1>2. /\ IsFiniteSet(1..info.total[p])
      /\ Cardinality(1..info.total[p]) = info.total[p]
  BY <1>1, OneTo
<1>3. IsFiniteSet({p}) /\ Cardinality({p}) = 1
  BY FS_Singleton
<1>4. /\ IsFiniteSet({p} \X (1..info.total[p]))
      /\ Cardinality({p} \X (1..info.total[p])) = 1 * info.total[p]
  BY <1>2, <1>3, FS_Product
<1> QED
  BY <1>1, <1>4 DEF UnitsOf

LEMMA UnpaidAre ==
  ASSUME NEW info \in ContributionRows
  PROVE  /\ Unpaid(info) \subseteq Publishers
         /\ Unpaid(info) \subseteq info.publishers
BY DEF Unpaid, ContributionRows

LEMMA DueFinite ==
  ASSUME NEW info \in ContributionRows, NEW paid
  PROVE  IsFiniteSet(Due(info, paid)) /\ Cardinality(Due(info, paid)) \in Nat
<1> DEFINE X == Unpaid(info) \ paid
           units == [p \in X |-> UnitsOf(info, p)]
           S == {UnitsOf(info, p) : p \in X}
<1>1. X \subseteq Publishers /\ IsFiniteSet(X)
  BY UnpaidAre, ItemsAssumption, FS_Subset
<1> HIDE DEF X
<1>2. units \in Surjection(X, S)
  BY DEF Surjection
<1> HIDE DEF units
<1>3. IsFiniteSet(S)
  BY <1>1, <1>2, FS_Surjection
<1>4. \A T \in S : IsFiniteSet(T)
  BY <1>1, UnitsFinite
<1>5. IsFiniteSet(UNION S)
  <2> HIDE DEF S
  <2> QED
    BY <1>3, <1>4, FS_UNION
<1>6. Due(info, paid) = UNION S
  BY DEF Due, X
<1> QED
  BY <1>5, <1>6, FS_CardinalityType

\* With one publisher put aside no more than its share is gone.
LEMMA DueWithout ==
  ASSUME NEW info \in ContributionRows, NEW p \in Unpaid(info)
  PROVE  /\ Cardinality(Due(info, {}))
              <= Cardinality(Due(info, {p})) + info.total[p]
         /\ info.total[p] \in Nat /\ info.total[p] <= Cardinality(Due(info, {}))
<1>1. p \in Publishers
  BY UnpaidAre
<1>2. Due(info, {}) = Due(info, {p}) \cup UnitsOf(info, p)
  BY DEF Due
<1> DEFINE rest == Due(info, {p})
           units == UnitsOf(info, p)
<1>3. /\ IsFiniteSet(rest) /\ Cardinality(rest) \in Nat
      /\ IsFiniteSet(units) /\ Cardinality(units) = info.total[p]
      /\ info.total[p] \in Nat
  BY <1>1, DueFinite, UnitsFinite
<1>4. Due(info, {}) = rest \cup units
  BY <1>2
<1> HIDE DEF rest, units
<1>5. /\ Cardinality(rest \cup units)
           = Cardinality(rest) + Cardinality(units)
               - Cardinality(rest \cap units)
      /\ IsFiniteSet(rest \cup units)
  BY <1>3, FS_Union
<1>6. Cardinality(rest \cap units) \in Nat
  BY <1>3, FS_Intersection, FS_CardinalityType
<1>7. Cardinality(units) <= Cardinality(rest \cup units)
  BY <1>5, FS_Subset
<1>8. /\ Cardinality(rest \cup units) <= Cardinality(rest) + info.total[p]
      /\ info.total[p] <= Cardinality(rest \cup units)
  BY <1>3, <1>5, <1>6, <1>7
<1> QED
  BY <1>3, <1>4, <1>8 DEF rest

LEMMA NothingDue ==
  ASSUME NEW info, NEW paid, Unpaid(info) \subseteq paid
  PROVE  Due(info, paid) = {} /\ Cardinality(Due(info, paid)) = 0
<1>1. Due(info, paid) = {}
  BY DEF Due
<1> QED
  BY <1>1, FS_EmptySet

\* Rows that differ in neither the shares nor what has been contributed.
SameShares(info, row) ==
  /\ row.publishers = info.publishers /\ row.total = info.total
  /\ row.contributed = info.contributed

LEMMA DueOfSameShares ==
  ASSUME NEW info, NEW row, SameShares(info, row)
  PROVE  /\ Unpaid(row) = Unpaid(info)
         /\ \A paid : Due(row, paid) = Due(info, paid)
BY DEF SameShares, Due, Unpaid, UnitsOf

\* However votes are given, all of them are due.
LEMMA VotesAreDue ==
  ASSUME NEW row \in ContributionRows, NEW n \in Nat,
         row.total \in Votes(row.publishers, n), row.contributed = Nothing
  PROVE  Cardinality(Due(row, {})) >= n
<1>1. PICK draw \in [1..n -> row.publishers] :
        row.total = [p \in Publishers |->
                       Cardinality({v \in 1..n : draw[v] = p})]
  BY DEF Votes
<1> DEFINE for(p) == {v \in 1..n : draw[v] = p}
           g == [v \in 1..n |->
                   <<draw[v], Cardinality(Below(for(draw[v]), v)) + 1>>]
<1>2. /\ \A p : for(p) \in SUBSET Nat /\ IsFiniteSet(for(p))
      /\ \A v \in 1..n : v \in for(draw[v])
      /\ \A v, w \in 1..n : w \in for(draw[v]) <=> draw[w] = draw[v]
  BY FS_Interval, FS_Subset
<1>3. \A v \in 1..n : draw[v] \in row.publishers /\ draw[v] \in Publishers
  BY DEF ContributionRows
<1>4. \A p \in Publishers : row.total[p] = Cardinality(for(p))
  BY <1>1
<1> HIDE DEF for
<1>5. ASSUME NEW v \in 1..n
      PROVE  /\ Cardinality(Below(for(draw[v]), v)) \in Nat
             /\ Cardinality(Below(for(draw[v]), v)) < row.total[draw[v]]
             /\ row.total[draw[v]] \in Nat
  <2>1. /\ v \in for(draw[v]) /\ IsFiniteSet(for(draw[v]))
        /\ Below(for(draw[v]), v) \subseteq for(draw[v])
        /\ v \notin Below(for(draw[v]), v)
    BY <1>2 DEF Below
  <2>2. /\ Cardinality(Below(for(draw[v]), v)) \in Nat
        /\ Cardinality(for(draw[v])) \in Nat
        /\ Cardinality(Below(for(draw[v]), v)) < Cardinality(for(draw[v]))
    BY <2>1, StrictlyFewer
  <2> QED
    BY <1>3, <1>4, <2>2
<1>6. ASSUME NEW v \in 1..n
      PROVE  g[v] \in Due(row, {})
  <2> DEFINE p == draw[v]
             k == Cardinality(Below(for(p), v)) + 1
  <2>1. k \in 1..row.total[p] /\ row.total[p] # 0
    BY <1>5
  <2>2. Nothing[p] = 0
    BY <1>3 DEF Nothing
  <2>3. p \in Unpaid(row)
    BY <1>3, <2>1, <2>2 DEF Unpaid
  <2> HIDE DEF k
  <2>4. <<p, k>> \in UnitsOf(row, p)
    BY <2>1 DEF UnitsOf
  <2>5. <<p, k>> \in Due(row, {})
    BY <2>3, <2>4 DEF Due
  <2> QED
    BY <2>5 DEF k
<1>7. ASSUME NEW v \in 1..n, NEW w \in 1..n, g[v] = g[w]
      PROVE  v = w
  <2>1. /\ draw[v] = draw[w]
        /\ Cardinality(Below(for(draw[v]), v)) + 1
             = Cardinality(Below(for(draw[w]), w)) + 1
    BY <1>7
  <2>2. Cardinality(Below(for(draw[v]), v))
          = Cardinality(Below(for(draw[v]), w))
    BY <1>5, <2>1
  <2>3. v \in for(draw[v]) /\ w \in for(draw[v]) /\ v \in Nat /\ w \in Nat
    BY <1>2, <2>1
  <2>4. ~(v < w) /\ ~(w < v)
    BY <1>2, <2>2, <2>3, FewerBelow
  <2> QED
    BY <2>3, <2>4
<1>8. g \in Injection(1..n, Due(row, {}))
  BY <1>6, <1>7 DEF Injection, IsInjective
<1> HIDE DEF g
<1>9. Cardinality(1..n) <= Cardinality(Due(row, {}))
  BY <1>8, DueFinite, FS_Injection
<1>10. Cardinality(1..n) = n
  BY FS_Interval
<1> QED
  BY <1>9, <1>10, DueFinite

-----------------------------------------------------------------------------
(* The handlers that write neither contributions nor tokens.               *)

Pays(c) == Cardinality(SpentFor(c)) = contributions[c].amount

LEMMA SameCarries ==
  ASSUME UNCHANGED <<contributions, tokens, redeemedFor>>, NEW n, Carries(n)
  PROVE  Carries(n)'
BY DEF Carries, Owned, Reserved, ReservedFor, UnspentOf, SpentFor,
  PaysWithTokens, Exists

LEMMA ReadsOnly ==
  ASSUME TypeOK, PaidInv, UNCHANGED <<contributions, tokens, redeemedFor>>,
         NEW N, InFlight' \subseteq InFlight \cup N,
         \A n \in N : n.on \in ItemHandlers \/ Carries(n)
  PROVE  PaidInv'
BY Reads, SameCarries

LEMMA Knows ==
  ASSUME IInv, PaidInv, NEW r \in InFlight, r.on \notin ItemHandlers
  PROVE  /\ r.c \in Contributions /\ Exists(r.c)
         /\ contributions[r.c] \in ContributionRows
         /\ contributions[r.c].step \notin FinalSteps
              \/ r.on = "ContributionCompletedSaved"
         /\ Carries(r) /\ TokensOf(r.c)
         /\ PaysWithTokens(r.c) => Backed(r.c)
<1>1. r.c \in Contributions /\ Exists(r.c) /\ Continuations(r.c) = {r}
  BY Alone
<1>2. Secured(r.c)
  BY <1>1 DEF PaidInv
<1> QED
  BY <1>1, <1>2, Alone, RowType DEF Secured, IInv, Finished

LEMMA ResultReads ==
  ASSUME TypeOK, PaidInv, NEW done, NEW c, NEW result, Result(done, c, result),
         requests' \subseteq requests,
         UNCHANGED <<contributions, tokens, redeemedFor>>,
         result = "LEDGER_OK" /\ PaysWithTokens(c) => Pays(c)
  PROVE  PaidInv'
<1> DEFINE s == [on |-> "OnResult", c |-> c, result |-> result]
           N == {s}
<1>1. InFlight' \subseteq InFlight \cup N
  BY DEF InFlight, Result, Await
<1>2. Carries(s)
  BY DEF Carries, TokenKinds, WalletKinds, PrepareKinds, Pays
<1>3. \A n \in N : Carries(n)
  BY <1>2
<1> HIDE DEF N
<1> QED
  BY <1>1, <1>3, ReadsOnly

\* Records of items, and what starts a contribution again.
LEMMA ItemReads ==
  ASSUME TypeOK, PaidInv, UNCHANGED <<contributions, tokens, redeemedFor>>,
         \A n \in InFlight' : n \in InFlight \/ n.on \in ItemHandlers
                                \/ n.on = "SetRetryCounter"
  PROVE  PaidInv'
<1> DEFINE N == {n \in InFlight' : n.on \in ItemHandlers
                                   \/ n.on = "SetRetryCounter"}
<1>1. \A n \in N : n.on \in ItemHandlers \/ Carries(n)
  BY DEF Carries, TokenKinds, WalletKinds, PrepareKinds
<1>2. InFlight' \subseteq InFlight \cup N
  OBVIOUS
<1> HIDE DEF N
<1> QED
  BY <1>1, <1>2, ReadsOnly

\* A handler whose only answer to come is s.
LEMMA NextReads ==
  ASSUME TypeOK, PaidInv, UNCHANGED <<contributions, tokens, redeemedFor>>,
         NEW done, NEW s, Await(done, {s}), requests' \subseteq requests,
         Carries(s)
  PROVE  PaidInv'
<1> DEFINE N == {s}
<1>1. InFlight' \subseteq InFlight \cup N
  BY DEF InFlight, Await
<1> QED
  BY <1>1, ReadsOnly

\* A handler whose write has failed reports it, ...
LEMMA NotSavedReads ==
  ASSUME TypeOK, PaidInv, UNCHANGED <<contributions, tokens, redeemedFor>>,
         NEW done, NEW c, NEW result, requests' \subseteq requests,
         Await(done, {[on |-> "NotSaved", c |-> c, result |-> result]})
  PROVE  PaidInv'
<1> DEFINE s == [on |-> "NotSaved", c |-> c, result |-> result]
<1>1. Carries(s)
  BY DEF Carries, TokenKinds, WalletKinds, PrepareKinds
<1>2. Await(done, {s})
  OBVIOUS
<1> HIDE DEF s
<1> QED
  BY <1>1, <1>2, NextReads

\* ... and that is a result which is not a success.
LEMMA NotSavedPaid ==
  ASSUME IInv, PaidInv, NEW r \in replies, r.on = "NotSaved", NotSaved(r)
  PROVE  PaidInv'
<1>1. r.result # "LEDGER_OK"
  BY ReplyParts DEF IInv, TypeOK
<1>2. /\ Result({r}, r.c, r.result) /\ requests' \subseteq requests
      /\ UNCHANGED <<contributions, tokens, redeemedFor>>
  BY DEF NotSaved, database, servers
<1> QED
  BY <1>1, <1>2, ResultReads DEF IInv

\* Reads of the tables that start a contribution or go on with it.
LEMMA SpendableCarries ==
  ASSUME NEW c, PaysWithTokens(c), TokensOf(c), Backed(c),
         contributions[c].step = "START"
  PROVE  Carries(SpendableAnswer(c))
<1> DEFINE ids == Spendable(tokens)
<1>1. Owned(c) \subseteq ids
  BY DEF Backed, Owned, SpentFor, Spendable
<1>2. \A t \in Tokens \ ids : tokens[t].spent
  BY DEF Spendable
<1> HIDE DEF ids
<1>3. SpendableAnswer(c) = [on |-> "PrepareTokens", c |-> c, ids |-> ids]
  BY DEF SpendableAnswer, ids
<1> QED
  BY <1>1, <1>2, <1>3 DEF Carries, TokenKinds, WalletKinds, PrepareKinds

LEMMA ReservedCarries ==
  ASSUME NEW c, PaysWithTokens(c), contributions[c].step = "PREPARE"
  PROVE  Carries(ReservedAnswer(c))
<1> DEFINE ids == ReservedFor(tokens, c)
<1>1. ids = Reserved(c)
  BY DEF Reserved
<1> HIDE DEF ids
<1>2. ReservedAnswer(c) = [on |-> "OnProcessTokens", c |-> c, ids |-> ids]
  BY DEF ReservedAnswer, ids
<1> QED
  BY <1>1, <1>2 DEF Carries, TokenKinds, WalletKinds, PrepareKinds

LEMMA InfoCarries ==
  ASSUME NEW c, ~PaysWithTokens(c),
         NEW on \in {"ContributionInfo", "OnServerPublisherInfo", "Completed"}
  PROVE  Carries([on |-> on, c |-> c])
BY DEF Carries, TokenKinds, WalletKinds, PrepareKinds

LEMMA OnEntrySavedPaid ==
  ASSUME IInv, PaidInv, NEW r \in replies, r.on = "OnEntrySaved",
         OnEntrySaved(r)
  PROVE  PaidInv'
<1>1. /\ r.c \in Contributions /\ Exists(r.c) /\ TokensOf(r.c)
      /\ PaysWithTokens(r.c) => Backed(r.c)
      /\ r.wallet = contributions[r.c].processor
      /\ contributions[r.c].step = "START"
  BY Knows DEF InFlight, ItemHandlers, Carries
<1> DEFINE s == IF r.wallet = "BRAVE_TOKENS"
                THEN SpendableAnswer(r.c)
                ELSE [on |-> "ContributionInfo", c |-> r.c]
           q == [on |-> "OnQueueSaved", caller |-> r.caller, item |-> r.item,
                 wallet |-> r.wallet, balance |-> r.balance, rest |-> r.rest]
           m == [on |-> "OnMarkContributionQueueAsComplete",
                 caller |-> r.caller, item |-> r.item]
           N == {s, q, m}
<1>2. Carries(s)
  <2>1. PaysWithTokens(r.c) <=> r.wallet = "BRAVE_TOKENS"
    BY <1>1 DEF PaysWithTokens
  <2> QED
    BY <1>1, <2>1, SpendableCarries, InfoCarries
<1>3. q.on \in ItemHandlers /\ m.on \in ItemHandlers
  BY DEF ItemHandlers
<1>4. replies' \subseteq replies \cup N /\ requests' = requests
  BY DEF OnEntrySaved, Await, MarkContributionQueueAsComplete, IfWritten
<1>5. UNCHANGED <<contributions, tokens, redeemedFor>>
  BY DEF OnEntrySaved, servers
<1> HIDE DEF s, q, m
<1>6. InFlight' \subseteq InFlight \cup N
  BY <1>4 DEF InFlight
<1>7. \A n \in N : n.on \in ItemHandlers \/ Carries(n)
  BY <1>2, <1>3
<1> HIDE DEF N
<1> QED
  BY <1>5, <1>6, <1>7, ReadsOnly DEF IInv

LEMMA PrepareStepSavedPaid ==
  ASSUME IInv, PaidInv, NEW r \in replies, r.on = "PrepareStepSaved",
         PrepareStepSaved(r)
  PROVE  PaidInv'
<1>1. PaysWithTokens(r.c) /\ contributions[r.c].step = "PREPARE"
  BY Knows
  DEF InFlight, ItemHandlers, Carries, TokenKinds, PrepareKinds
<1> DEFINE s == ReservedAnswer(r.c)
<1>2. Carries(s)
  BY <1>1, ReservedCarries
<1> HIDE DEF s
<1>3. /\ Await({r}, {s}) /\ requests' = requests
      /\ UNCHANGED <<contributions, tokens, redeemedFor>>
  BY DEF PrepareStepSaved, database, servers, s
<1> QED
  BY <1>2, <1>3, NextReads DEF IInv

\* The publisher that is first of the unpaid and last of all is the only one
\* unpaid.
LEMMA OnlyUnpaid ==
  ASSUME NEW info \in ContributionRows, Unpaid(info) # {},
         FirstOf(Unpaid(info)) = LastOf(info.publishers)
  PROVE  Unpaid(info) = {FirstOf(Unpaid(info))}
<1> DEFINE unpaid == Unpaid(info)
           all == info.publishers
<1>1. /\ unpaid \subseteq all /\ all \in SUBSET Nat /\ all # {}
      /\ IsFiniteSet(all)
  <2>1. all \subseteq Publishers
    BY DEF ContributionRows
  <2> QED
    BY <2>1, UnpaidAre, ItemsAssumption, FS_Subset
<1> HIDE DEF unpaid, all
<1>2. FirstOf(unpaid) \in unpaid /\ \A p \in unpaid : FirstOf(unpaid) <= p
  <2>1. unpaid \in SUBSET Nat /\ unpaid # {}
    BY <1>1 DEF unpaid
  <2>2. \E p \in unpaid : \A other \in unpaid : p <= other
    BY <2>1, LeastOf
  <2> QED
    BY <2>2 DEF FirstOf
<1>3. \A p \in all : p <= LastOf(all)
  <2>1. \E p \in all : \A other \in all : other <= p
    BY <1>1, GreatestOf
  <2> QED
    BY <2>1 DEF LastOf
<1>4. ASSUME NEW p \in unpaid PROVE p = FirstOf(unpaid)
  <2>1. FirstOf(unpaid) <= p /\ p <= FirstOf(unpaid)
    BY <1>1, <1>2, <1>3 DEF unpaid, all
  <2>2. FirstOf(unpaid) \in Nat /\ p \in Nat
    BY <1>1, <1>2
  <2> QED
    BY <2>1, <2>2
<1> QED
  BY <1>2, <1>4 DEF unpaid

\* When nothing is reserved any more, what is owned has been redeemed.
LEMMA AllRedeemed ==
  ASSUME NEW c, TokensOf(c), Cardinality(Owned(c)) = contributions[c].amount,
         Cardinality(Reserved(c)) <= 0
  PROVE  Pays(c)
<1>1. Reserved(c) \in SUBSET Tokens
  BY DEF Reserved, ReservedFor, UnspentOf
<1>2. IsFiniteSet(Reserved(c)) /\ Cardinality(Reserved(c)) \in Nat
  BY <1>1, FiniteTokens
<1>3. Cardinality(Reserved(c)) = 0
  BY <1>2
<1>4. Reserved(c) = {}
  BY <1>2, <1>3, FS_EmptySet
<1>5. Owned(c) = SpentFor(c)
  <2>1. ASSUME NEW t \in Owned(c) PROVE tokens[t].spent
    <3>1. ~tokens[t].spent => tokens[t].reserved
      BY DEF TokensOf
    <3> QED
      BY <1>4, <3>1 DEF Reserved, ReservedFor, UnspentOf, Owned
  <2> QED
    BY <2>1 DEF Owned, SpentFor
<1> QED
  BY <1>5 DEF Pays

LEMMA AllPaid ==
  ASSUME NEW c, TokensOf(c), Backed(c), contributions[c].step = "PREPARE",
         Unpaid(contributions[c]) = {}
  PROVE  Pays(c)
<1>1. Cardinality(Due(contributions[c], {})) = 0
  BY NothingDue
<1>2. Cardinality(Owned(c)) = contributions[c].amount
      /\ Cardinality(Reserved(c)) <= 0
  BY <1>1 DEF Backed
<1> QED
  BY <1>2, AllRedeemed

LEMMA OnProcessTokensPaid ==
  ASSUME IInv, PaidInv, NEW r \in replies, r.on = "OnProcessTokens",
         OnProcessTokens(r)
  PROVE  PaidInv'
<1> DEFINE info   == contributions[r.c]
           unpaid == Unpaid(info)
           p      == FirstOf(unpaid)
           ids    == TakeFirst(r.ids, info.total[p])
<1>1. /\ r.c \in Contributions /\ info \in ContributionRows
      /\ TokensOf(r.c) /\ PaysWithTokens(r.c) /\ Backed(r.c)
      /\ info.step = "PREPARE" /\ r.ids = Reserved(r.c)
  BY Knows
  DEF InFlight, ItemHandlers, Carries, TokenKinds, PrepareKinds
<1>2. UNCHANGED <<contributions, tokens, redeemedFor>>
  BY DEF OnProcessTokens, database, servers
<1>3. CASE unpaid = {}
  <2>1. Result({r}, r.c, "LEDGER_OK") /\ requests' \subseteq requests
    BY <1>3 DEF OnProcessTokens
  <2>2. Pays(r.c)
    BY <1>1, <1>3, AllPaid DEF IInv
  <2> QED
    BY <1>2, <2>1, <2>2, ResultReads DEF IInv
<1>4. CASE unpaid # {} /\ ids = {}
  <2>1. Result({r}, r.c, "RETRY") /\ requests' \subseteq requests
    BY <1>4 DEF OnProcessTokens
  <2> QED
    BY <1>2, <2>1, ResultReads DEF IInv
<1>5. CASE unpaid # {} /\ ids # {}
  <2> DEFINE final == p = LastOf(info.publishers)
             s == [on |-> "OnRedeemTokens", c |-> r.c, publisher |-> p,
                   ids |-> ids, final |-> final, handled |-> FALSE]
             N == {s}
  <2>1. Await({r}, {}) /\ Asked({}, N)
    BY <1>5 DEF OnProcessTokens
  <2>2. p \in unpaid
    BY <1>1, <1>5, UnpaidAre, FirstOfPublishers
  <2>3. final => unpaid = {p}
    BY <1>1, <1>5, OnlyUnpaid
  <2>4. ids = TakeFirst(Reserved(r.c), info.total[p])
    BY <1>1
  <2> HIDE DEF final, p, ids
  <2>5. Carries(s)
    BY <1>1, <1>5, <2>2, <2>3, <2>4
    DEF Carries, TokenKinds, WalletKinds, PrepareKinds
  <2>6. \A n \in N : Carries(n)
    BY <2>5
  <2> HIDE DEF s, N
  <2>7. InFlight' \subseteq InFlight \cup N
    BY <2>1 DEF InFlight, Await, Asked
  <2> QED
    BY <1>2, <2>6, <2>7, ReadsOnly DEF IInv
<1> QED
  BY <1>3, <1>4, <1>5

\* The server keeps what it has redeemed and redeems what the request names
\* for the publisher it names.
LEMMA ServerRedeemsPaid ==
  ASSUME IInv, PaidInv, NEW r \in requests, r.on = "OnRedeemTokens",
         ServerRedeems(r)
  PROVE  PaidInv'
<1>0. PICK s : s = [r EXCEPT !.handled = TRUE]
  OBVIOUS
<1> DEFINE N == {s}
           pay == Payment(r)
<1>1. Carries(r)
  BY Knows DEF InFlight, ItemHandlers
<1>2. /\ \A t \in r.ids : redeemedFor[t] \subseteq {pay}
      /\ redeemedFor' = [t \in Tokens |-> IF t \in r.ids THEN {pay}
                                                         ELSE redeemedFor[t]]
      /\ UNCHANGED <<contributions, tokens>>
  BY DEF ServerRedeems, database
<1>3. r.ids \in SUBSET Tokens
  BY RequestParts DEF IInv, TypeOK
<1>4. pay.publisher = r.publisher
  BY DEF Payment
<1> HIDE DEF pay
<1>5. \A t \in Tokens : redeemedFor[t] \subseteq redeemedFor'[t]
  BY <1>2
<1>6. InFlight' \subseteq InFlight \cup N
  BY <1>0 DEF ServerRedeems, Asked, InFlight
<1>7. /\ s.on = r.on /\ s.c = r.c /\ s.publisher = r.publisher
      /\ s.ids = r.ids /\ s.final = r.final
  BY <1>0, HandledType DEF IInv, TypeOK
<1>8. \A t \in r.ids : \E payment \in redeemedFor'[t] :
        payment.publisher = r.publisher
  BY <1>2, <1>3, <1>4
<1>9. Carries(s)'
  <2>1. /\ Owned(r.c)' = Owned(r.c) /\ Reserved(r.c)' = Reserved(r.c)
        /\ SpentFor(r.c)' = SpentFor(r.c)
        /\ PaysWithTokens(r.c)' <=> PaysWithTokens(r.c)
    BY <1>2 DEF Owned, Reserved, ReservedFor, UnspentOf, SpentFor,
      PaysWithTokens, Exists
  <2>2. /\ PaysWithTokens(r.c) /\ contributions[r.c].step = "PREPARE"
        /\ r.publisher \in Unpaid(contributions[r.c]) /\ r.ids # {}
        /\ r.ids = TakeFirst(Reserved(r.c),
                             contributions[r.c].total[r.publisher])
        /\ r.final => Unpaid(contributions[r.c]) = {r.publisher}
    BY <1>1 DEF Carries, TokenKinds, PrepareKinds
  <2>3. contributions' = contributions /\ s.on = "OnRedeemTokens"
    BY <1>2, <1>7
  <2> QED
    BY <1>7, <1>8, <2>1, <2>2, <2>3
    DEF Carries, TokenKinds, WalletKinds, PrepareKinds
<1>10. \A n \in N : Carries(n)'
  BY <1>9
<1> HIDE DEF N
<1> QED
  BY <1>2, <1>5, <1>6, <1>10, Reads DEF IInv

\* Answers that end a payment attempt, or a payment from another wallet.
LEMMA ResultsPaid ==
  ASSUME IInv, PaidInv,
         NEW r \in InFlight, r.on \notin ItemHandlers,
         \/ r.on = "OnRedeemTokens" /\ OnRedeemTokensFailed(r)
         \/ r.on = "ContributionAmountSaved" /\ ContributionAmountSaved(r)
         \/ r.on = "Completed" /\ Completed(r)
         \/ r.on = "OnCommitTransaction" /\ OnCommitTransactionFailed(r)
  PROVE  PaidInv'
<1>1. /\ r.on = "Completed" => ~PaysWithTokens(r.c)
      /\ r.on = "ContributionAmountSaved" /\ r.final => Pays(r.c)
  BY Knows DEF Carries, WalletKinds, Pays
<1>2. /\ requests' \subseteq requests
      /\ UNCHANGED <<contributions, tokens, redeemedFor>>
  BY DEF OnRedeemTokensFailed, ContributionAmountSaved, Completed,
    OnCommitTransactionFailed, Asked, database, servers
<1>3. \E done, result :
        /\ Result(done, r.c, result)
        /\ result = "LEDGER_OK" /\ PaysWithTokens(r.c) => Pays(r.c)
  <2>1. CASE r.on = "OnRedeemTokens" /\ OnRedeemTokensFailed(r)
    <3>1. Result({}, r.c, "RETRY")
      BY <2>1 DEF OnRedeemTokensFailed
    <3> QED
      BY <3>1
  <2>2. CASE r.on = "ContributionAmountSaved" /\ ContributionAmountSaved(r)
    <3>1. Result({r}, r.c, IF r.final THEN "LEDGER_OK" ELSE "RETRY_LONG")
      BY <2>2 DEF ContributionAmountSaved
    <3> DEFINE result == IF r.final THEN "LEDGER_OK" ELSE "RETRY_LONG"
    <3>2. result = "LEDGER_OK" => r.final
      OBVIOUS
    <3> HIDE DEF result
    <3> QED
      BY <1>1, <2>2, <3>1, <3>2 DEF result
  <2>3. CASE r.on = "Completed" /\ Completed(r)
    <3>1. Result({r}, r.c, "LEDGER_OK")
      BY <2>3 DEF Completed
    <3> QED
      BY <1>1, <2>3, <3>1
  <2>4. CASE r.on = "OnCommitTransaction" /\ OnCommitTransactionFailed(r)
    <3>1. Result({}, r.c, "LEDGER_ERROR")
      BY <2>4 DEF OnCommitTransactionFailed
    <3> QED
      BY <3>1
  <2> QED
    BY <2>1, <2>2, <2>3, <2>4
<1> QED
  BY <1>2, <1>3, ResultReads DEF IInv

LEMMA ContributionInfoPaid ==
  ASSUME IInv, PaidInv, NEW r \in replies, r.on = "ContributionInfo",
         ContributionInfo(r)
  PROVE  PaidInv'
<1> DEFINE s == [on |-> "OnServerPublisherInfo", c |-> r.c]
<1>1. ~PaysWithTokens(r.c)
  BY Knows DEF InFlight, ItemHandlers, Carries, WalletKinds
<1>2. Carries(s)
  BY <1>1, InfoCarries
<1>3. /\ requests' \subseteq requests
      /\ UNCHANGED <<contributions, tokens, redeemedFor>>
  BY DEF ContributionInfo, database, servers
<1>4. \/ Result({r}, r.c, "LEDGER_ERROR") \/ Result({r}, r.c, "LEDGER_OK")
      \/ Await({r}, {s})
  BY DEF ContributionInfo
<1> HIDE DEF s
<1> QED
  BY <1>1, <1>2, <1>3, <1>4, ResultReads, NextReads DEF IInv

LEMMA OnServerPublisherInfoPaid ==
  ASSUME IInv, PaidInv, NEW r \in replies, r.on = "OnServerPublisherInfo",
         OnServerPublisherInfo(r)
  PROVE  PaidInv'
<1> DEFINE s == [on |-> "OnCommitTransaction", c |-> r.c,
                 publisher |-> FirstOf(Unpaid(contributions[r.c])),
                 handled |-> FALSE]
           N == {s}
<1>1. ~PaysWithTokens(r.c)
  BY Knows DEF InFlight, ItemHandlers, Carries, WalletKinds
<1>2. \A n \in N : Carries(n)
  BY <1>1 DEF Carries, TokenKinds, WalletKinds, PrepareKinds
<1>3. UNCHANGED <<contributions, tokens, redeemedFor>>
  BY DEF OnServerPublisherInfo, database, servers
<1>4. CASE Result({r}, r.c, "LEDGER_ERROR") /\ UNCHANGED requests
  BY <1>3, <1>4, ResultReads DEF IInv
<1>5. CASE Await({r}, {}) /\ Asked({}, N)
  <2> HIDE DEF N
  <2>1. InFlight' \subseteq InFlight \cup N
    BY <1>5 DEF InFlight, Await, Asked
  <2> QED
    BY <1>2, <1>3, <2>1, ReadsOnly DEF IInv
<1> QED
  BY <1>4, <1>5 DEF OnServerPublisherInfo

LEMMA ProviderTransfersPaid ==
  ASSUME IInv, PaidInv, NEW r \in requests, r.on = "OnCommitTransaction",
         ProviderTransfers(r)
  PROVE  PaidInv'
<1> DEFINE s == [r EXCEPT !.handled = TRUE]
           N == {s}
<1>1. ~PaysWithTokens(r.c)
  BY Knows DEF InFlight, ItemHandlers, Carries, WalletKinds
<1>2. s.on = r.on /\ s.c = r.c
  BY HandledType DEF IInv, TypeOK
<1>3. UNCHANGED <<contributions, tokens, redeemedFor>>
  BY DEF ProviderTransfers, database
<1>4. InFlight' \subseteq InFlight \cup N
  BY DEF ProviderTransfers, Asked, InFlight
<1> HIDE DEF s
<1>5. \A n \in N : Carries(n)
  BY <1>1, <1>2 DEF Carries, TokenKinds, WalletKinds, PrepareKinds
<1> HIDE DEF N
<1> QED
  BY <1>3, <1>4, <1>5, ReadsOnly DEF IInv

\* The queue, the timers, the preferences and a restart.
LEMMA AsidePaid ==
  ASSUME IInv, PaidInv,
         \/ \E i \in Items : \/ OneTimeTip(i) \/ StartMonthlyContribution(i)
                             \/ StartAutoContribute(i)
         \/ QueueTimerElapsed \/ SetAutoContributeEnabled
         \/ DiskFills \/ DiskIsFreed \/ Restart
         \/ \E c \in Contributions : OnRetryTimerElapsed(c)
         \/ \E r \in replies : \/ QueueSaved(r) \/ OnProcessContributionQueue(r)
                               \/ OnMarkContributionQueueAsComplete(r)
         \/ \E r \in requests : OnBalanceFailed(r)
  PROVE  PaidInv'
<1>1. UNCHANGED <<contributions, tokens, redeemedFor>>
  BY Zenon DEF OneTimeTip, StartMonthlyContribution, StartAutoContribute,
    QueueTimerElapsed, SetAutoContributeEnabled, DiskFills, DiskIsFreed,
    Restart, OnRetryTimerElapsed, QueueSaved, OnProcessContributionQueue, 
    OnMarkContributionQueueAsComplete, OnBalanceFailed, database, servers
<1>2. \A done, caller : ProcessContributionQueue(done, caller) =>
        \A n \in replies' : n \in replies \/ n.on \in ItemHandlers
  BY DEF ProcessContributionQueue, Await, ItemHandlers
<1>3. \A n \in InFlight' : n \in InFlight \/ n.on \in ItemHandlers
                             \/ n.on = "SetRetryCounter"
  <2>1. CASE \E i \in Items : \/ OneTimeTip(i) \/ StartMonthlyContribution(i)
                              \/ StartAutoContribute(i)
    BY <2>1 DEF OneTimeTip, StartMonthlyContribution, StartAutoContribute,
      Await, IfWritten, InFlight, ItemHandlers
  <2>2. CASE QueueTimerElapsed \/ \E r \in replies : QueueSaved(r)
    <3>1. /\ requests' = requests
          /\ \/ \E done, caller : ProcessContributionQueue(done, caller)
             \/ \E r \in replies : Await({r}, {})
      BY <2>2 DEF QueueTimerElapsed, QueueSaved
    <3> QED
      BY <1>2, <3>1 DEF InFlight, Await
  <2>3. CASE SetAutoContributeEnabled \/ DiskFills \/ DiskIsFreed
    BY <2>3 DEF SetAutoContributeEnabled, DiskFills, DiskIsFreed, InFlight
  <2>4. CASE Restart
    BY <2>4 DEF Restart, NotCompletedAnswer, InFlight
  <2>5. CASE \E c \in Contributions : OnRetryTimerElapsed(c)
    BY <2>5 DEF OnRetryTimerElapsed, NotCompletedAnswer, Await, InFlight
  <2>6. CASE \E r \in replies : OnProcessContributionQueue(r)
    BY <2>6 DEF OnProcessContributionQueue, Await, Asked, InFlight,
      ItemHandlers
  <2>7. CASE \E r \in replies : OnMarkContributionQueueAsComplete(r)
    BY <2>7 DEF OnMarkContributionQueueAsComplete, Await, InFlight
  <2>8. CASE \E r \in requests : OnBalanceFailed(r)
    BY <2>8 DEF OnBalanceFailed, Asked, InFlight
  <2> QED
    BY <2>1, <2>2, <2>3, <2>4, <2>5, <2>6, <2>7, <2>8
<1> QED
  BY <1>1, <1>3, ItemReads DEF IInv

-----------------------------------------------------------------------------
(* The handlers that write the row of their contribution.                  *)

LEMMA RowWritten ==
  ASSUME TypeOK, NEW c \in Contributions, Exists(c),
         NEW row \in ContributionRows,
         row.processor = contributions[c].processor,
         contributions' = [contributions EXCEPT ![c] = row],
         UNCHANGED <<tokens, redeemedFor>>
  PROVE  /\ contributions'[c] = row
         /\ PaysWithTokens(c)' <=> PaysWithTokens(c)
         /\ Owned(c)' = Owned(c) /\ Reserved(c)' = Reserved(c)
         /\ SpentFor(c)' = SpentFor(c)
         /\ \A other \in Contributions : other # c => Keeps(other)
         /\ NothingUndone
<1>1. /\ contributions'[c] = row
      /\ \A other \in Contributions :
           other # c => contributions'[other] = contributions[other]
  BY DEF TypeOK
<1>2. /\ Owned(c)' = Owned(c) /\ Reserved(c)' = Reserved(c)
      /\ SpentFor(c)' = SpentFor(c)
  BY DEF Owned, Reserved, ReservedFor, UnspentOf, SpentFor
<1>3. row # NoContribution
  BY NoContributionAssumption
<1> QED
  BY <1>1, <1>2, <1>3 DEF PaysWithTokens, Exists, Keeps, NothingUndone

\* The handler of r has written row and waits for s.
LEMMA WritesRow ==
  ASSUME IInv, PaidInv, NEW r \in InFlight, r.on \notin ItemHandlers,
         NEW row \in ContributionRows,
         row.processor = contributions[r.c].processor,
         row.publishers = contributions[r.c].publishers,
         contributions' = [contributions EXCEPT ![r.c] = row],
         UNCHANGED <<tokens, redeemedFor>>,
         NEW s, s.c = r.c, InFlight' = (InFlight \ {r}) \cup {s},
         Carries(s)', PaysWithTokens(r.c) => Backed(r.c)'
  PROVE  PaidInv'
<1>1. r.c \in Contributions /\ Exists(r.c) /\ TokensOf(r.c)
  BY Knows
<1>2. /\ contributions'[r.c] = row
      /\ PaysWithTokens(r.c)' <=> PaysWithTokens(r.c)
      /\ Owned(r.c)' = Owned(r.c) /\ Reserved(r.c)' = Reserved(r.c)
      /\ SpentFor(r.c)' = SpentFor(r.c)
      /\ \A other \in Contributions : other # r.c => Keeps(other)
      /\ NothingUndone
  BY <1>1, RowWritten DEF IInv
<1>3. TokensOf(r.c)'
  BY <1>1, <1>2 DEF TokensOf
<1> DEFINE N == {s}
<1>4. /\ InFlight' = (InFlight \ {r}) \cup N
      /\ \A n \in N : n.c = r.c /\ Carries(n)'
  OBVIOUS
<1> HIDE DEF N
<1> QED
  BY <1>2, <1>3, <1>4, WritesTable

LEMMA StepRow ==
  ASSUME TypeOK, NEW c \in Contributions, Exists(c),
         NEW step \in Steps, NEW retry \in -1..RetryLimit,
         SetStep(c, step, retry), Writes
  PROVE  \E row \in ContributionRows :
           /\ contributions' = [contributions EXCEPT ![c] = row]
           /\ row.step = step /\ SameShares(contributions[c], row)
           /\ row.amount = contributions[c].amount
           /\ row.processor = contributions[c].processor
<1> DEFINE info == contributions[c]
           row  == [info EXCEPT !.step = step, !.retry = retry]
<1>1. info \in ContributionRows
  BY RowType
<1>2. contributions' = [contributions EXCEPT ![c] = row]
  BY DEF SetStep, Written, TypeOK
<1> HIDE DEF info
<1>3. /\ row \in ContributionRows /\ row.step = step
      /\ row.publishers = info.publishers /\ row.total = info.total
      /\ row.contributed = info.contributed
      /\ row.amount = info.amount /\ row.processor = info.processor
  BY <1>1 DEF ContributionRows
<1> HIDE DEF row
<1> QED
  BY <1>2, <1>3 DEF SameShares, info

LEMMA FinalStepIs ==
  ASSUME NEW result
  PROVE  /\ FinalStep(result) \in FinalSteps
         /\ FinalStep(result) = "COMPLETED" => result = "LEDGER_OK"
BY DEF FinalStep, FinalSteps

\* A contribution ends as completed only when it has been paid.
LEMMA CompletedPaid ==
  ASSUME IInv, PaidInv, NEW r \in replies, r.on \notin ItemHandlers,
         NEW result, ContributionCompleted({r}, r.c, result),
         result = "LEDGER_OK" /\ PaysWithTokens(r.c) => Pays(r.c),
         UNCHANGED <<tokens, requests, redeemedFor>>
  PROVE  PaidInv'
<1> DEFINE s == [on |-> "ContributionCompletedSaved", c |-> r.c]
<1>1. r \in InFlight /\ r.c \in Contributions /\ Exists(r.c)
  BY Knows DEF InFlight
<1>2. /\ SetStep(r.c, FinalStep(result), -1) /\ Await({r}, {s})
      /\ FinalStep(result) \in Steps /\ -1 \in -1..RetryLimit
  BY FinalStepIs, BoundsAssumption DEF ContributionCompleted, Steps
<1>0. Carries(s)
  BY DEF Carries, TokenKinds, WalletKinds, PrepareKinds
<1> SUFFICES ASSUME Writes PROVE PaidInv'
  <2>1. ~Writes => contributions' = contributions
    BY <1>2 DEF SetStep, Written
  <2> HIDE DEF s
  <2> QED
    BY <1>0, <1>2, <2>1, NextReads DEF IInv
<1>3. PICK row \in ContributionRows :
        /\ contributions' = [contributions EXCEPT ![r.c] = row]
        /\ row.step = FinalStep(result) /\ SameShares(contributions[r.c], row)
        /\ row.amount = contributions[r.c].amount
        /\ row.processor = contributions[r.c].processor
  BY <1>1, <1>2, StepRow DEF IInv
<1>4. /\ contributions'[r.c] = row /\ SpentFor(r.c)' = SpentFor(r.c)
      /\ PaysWithTokens(r.c)' <=> PaysWithTokens(r.c)
  BY <1>1, <1>3, RowWritten DEF IInv
<1>5. s.c = r.c /\ Carries(s)'
  BY DEF Carries, TokenKinds, WalletKinds, PrepareKinds
<1>6. PaysWithTokens(r.c) => Backed(r.c)'
  <2>1. row.step \notin {"START", "RESERVE", "PREPARE"}
    BY <1>3, FinalStepIs DEF FinalSteps
  <2>2. PaysWithTokens(r.c) /\ row.step = "COMPLETED" =>
          Cardinality(SpentFor(r.c)') = row.amount
    BY <1>3, <1>4, FinalStepIs DEF Pays
  <2> QED
    BY <1>4, <2>1, <2>2 DEF Backed
<1> HIDE DEF s
<1>7. InFlight' = (InFlight \ {r}) \cup {s}
  BY <1>2, AfterReply DEF IInv
<1> QED
  BY <1>1, <1>3, <1>5, <1>6, <1>7, WritesRow DEF SameShares

LEMMA OnResultPaid ==
  ASSUME IInv, PaidInv, NEW r \in replies, r.on = "OnResult", OnResult(r)
  PROVE  PaidInv'
<1>1. r.on \notin ItemHandlers
  BY DEF ItemHandlers
<1>2. r.result = "LEDGER_OK" /\ PaysWithTokens(r.c) => Pays(r.c)
  BY <1>1, Knows DEF InFlight, Carries, Pays
<1>3. UNCHANGED <<tokens, requests, redeemedFor>>
  BY DEF OnResult, servers
<1>4. CASE r.result # "RETRY_LONG"
  <2>1. ContributionCompleted({r}, r.c, r.result)
    BY <1>4 DEF OnResult
  <2> QED
    BY <1>1, <1>2, <1>3, <2>1, CompletedPaid
<1>5. CASE r.result = "RETRY_LONG"
  <2>1. Await({r}, {}) /\ contributions' = contributions
    BY <1>5 DEF OnResult
  <2>2. \A n \in InFlight' : n \in InFlight
    BY <1>3, <2>1 DEF InFlight, Await
  <2> QED
    BY <1>3, <2>1, <2>2, ItemReads DEF IInv
<1> QED
  BY <1>4, <1>5

LEMMA SetRetryCounterPaid ==
  ASSUME IInv, PaidInv, NEW r \in replies, r.on = "SetRetryCounter",
         SetRetryCounter(r)
  PROVE  PaidInv'
<1> DEFINE info == contributions[r.c]
<1>0. PICK s : s = [on |-> "Retry", c |-> r.c, retry |-> info.retry]
  OBVIOUS
<1>1. r.on \notin ItemHandlers /\ r \in InFlight
  BY DEF ItemHandlers, InFlight
<1>2. /\ r.c \in Contributions /\ Exists(r.c) /\ info \in ContributionRows
      /\ PaysWithTokens(r.c) => Backed(r.c)
      /\ info.step \notin FinalSteps /\ info.retry # -1
  BY <1>1, Knows, Alone
<1>3. UNCHANGED <<tokens, requests, redeemedFor>>
  BY DEF SetRetryCounter, servers
<1>4. CASE info.retry = RetryLimit /\ info.step # "PREPARE"
  <2>1. ContributionCompleted({r}, r.c, "TOO_MANY_RESULTS")
    BY <1>4 DEF SetRetryCounter
  <2> QED
    BY <1>1, <1>3, <2>1, CompletedPaid
<1>5. CASE ~(info.retry = RetryLimit /\ info.step # "PREPARE")
  <2> SUFFICES ASSUME Writes PROVE PaidInv'
    <3>1. CASE ~Writes
      <4>1. contributions' = contributions /\ Await({r}, {})
        BY <1>5, <3>1 DEF SetRetryCounter, SetStep, Written, IfWritten
      <4>2. \A n \in InFlight' : n \in InFlight
        BY <1>3, <4>1 DEF InFlight, Await
      <4> QED
        BY <1>3, <4>1, <4>2, ItemReads DEF IInv
    <3> QED
      BY <3>1
  <2>1. /\ SetStep(r.c, info.step, CountUp(info)) /\ Await({r}, {s})
        /\ CountUp(info) \in -1..RetryLimit /\ info.step \in Steps
    <3>1. info.retry \in -1..RetryLimit /\ info.step \in Steps
      BY <1>2 DEF ContributionRows
    <3>2. CountUp(info) \in -1..RetryLimit
      BY <1>5, <3>1, BoundsAssumption DEF CountUp
    <3> QED
      BY <1>0, <1>5, <3>1, <3>2 DEF SetRetryCounter, IfWritten
  <2>2. PICK row \in ContributionRows :
          /\ contributions' = [contributions EXCEPT ![r.c] = row]
          /\ row.step = info.step /\ SameShares(info, row)
          /\ row.amount = info.amount /\ row.processor = info.processor
    BY <1>2, <2>1, StepRow DEF IInv
  <2>3. /\ contributions'[r.c] = row
        /\ Owned(r.c)' = Owned(r.c) /\ Reserved(r.c)' = Reserved(r.c)
        /\ SpentFor(r.c)' = SpentFor(r.c)
    BY <1>2, <1>3, <2>2, RowWritten DEF IInv
  <2>4. Unpaid(row) = Unpaid(info) /\ Due(row, {}) = Due(info, {})
    BY <2>2, DueOfSameShares
  <2>5. PaysWithTokens(r.c) => Backed(r.c)'
    BY <1>2, <2>2, <2>3, <2>4 DEF Backed
  <2>6. s.c = r.c /\ Carries(s)'
    BY <1>0 DEF Carries, TokenKinds, WalletKinds, PrepareKinds
  <2>7. InFlight' = (InFlight \ {r}) \cup {s}
    BY <1>3, <2>1, AfterReply DEF IInv
  <2> QED
    BY <1>1, <1>3, <2>2, <2>5, <2>6, <2>7, WritesRow DEF SameShares
<1> QED
  BY <1>4, <1>5

\* Where a contribution goes on, what it asks for carries what is true.
LEMMA ResumedCarries ==
  ASSUME NEW c, Exists(c), contributions[c] \in ContributionRows,
         contributions[c].step \notin FinalSteps, TokensOf(c),
         PaysWithTokens(c) => Backed(c), NEW retry
  PROVE  Carries(Resumed(c, retry))
<1> DEFINE info == contributions[c]
           ids == ReservedFor(tokens, c)
<1>1. info.processor \in {"BRAVE_TOKENS", "UPHOLD"} /\ info.step \in Steps
  BY DEF ContributionRows
<1>2. PaysWithTokens(c) <=> info.processor = "BRAVE_TOKENS"
  BY DEF PaysWithTokens
<1>3. CASE info.processor = "UPHOLD"
  <2>1. Resumed(c, retry) = [on |-> "ContributionInfo", c |-> c]
    BY <1>3 DEF Resumed
  <2> QED
    BY <1>2, <1>3, <2>1, InfoCarries
<1>4. CASE info.processor = "BRAVE_TOKENS" /\ info.step = "PREPARE"
  <2>1. Resumed(c, retry) = ReservedAnswer(c)
    BY <1>4 DEF Resumed
  <2> QED
    BY <1>2, <1>4, <2>1, ReservedCarries
<1>5. CASE info.processor = "BRAVE_TOKENS" /\ info.step = "RESERVE"
  <2>1. ids = Reserved(c)
    BY DEF Reserved
  <2> HIDE DEF ids
  <2>2. Resumed(c, retry) = [on |-> "OnReservedUnblindedTokensForRetryAttempt",
                             c |-> c, ids |-> ids, retry |-> retry]
    BY <1>5 DEF Resumed, ids
  <2> QED
    BY <1>2, <1>5, <2>1, <2>2
    DEF Carries, TokenKinds, WalletKinds, PrepareKinds
<1>6. CASE info.processor = "BRAVE_TOKENS" /\ info.step = "START"
  <2>1. Resumed(c, retry) = SpendableAnswer(c)
    BY <1>6 DEF Resumed
  <2> QED
    BY <1>2, <1>6, <2>1, SpendableCarries
<1> QED
  BY <1>1, <1>3, <1>4, <1>5, <1>6 DEF Steps

LEMMA RetryPaid ==
  ASSUME IInv, PaidInv, NEW r \in replies, r.on = "Retry", Retry(r)
  PROVE  PaidInv'
<1>1. r.on \notin ItemHandlers
  BY DEF ItemHandlers
<1>2. /\ Exists(r.c) /\ contributions[r.c] \in ContributionRows
      /\ contributions[r.c].step \notin FinalSteps /\ TokensOf(r.c)
      /\ PaysWithTokens(r.c) => Backed(r.c)
  BY <1>1, Knows DEF InFlight
<1>3. UNCHANGED <<tokens, requests, redeemedFor>>
  BY DEF Retry, servers
<1>4. CASE ContributionCompleted({r}, r.c, "AC_OFF")
  BY <1>1, <1>3, <1>4, CompletedPaid
<1>5. CASE Await({r}, {Resumed(r.c, r.retry)}) /\ UNCHANGED contributions
  <2> DEFINE s == Resumed(r.c, r.retry)
  <2>1. Carries(s)
    BY <1>2, ResumedCarries
  <2>2. Await({r}, {s})
    BY <1>5
  <2> HIDE DEF s
  <2> QED
    BY <1>3, <1>5, <2>1, <2>2, NextReads DEF IInv
<1> QED
  BY <1>2, <1>4, <1>5 DEF Retry

\* What the steps before PREPARE guarantee is what PREPARE needs.
LEMMA EnoughDue ==
  ASSUME NEW c, contributions[c] \in ContributionRows, Backed(c),
         contributions[c].step \in {"START", "RESERVE"}
  PROVE  /\ \/ Cardinality(Owned(c)) = contributions[c].amount
            \/ Reserved(c) = {} /\ Unpaid(contributions[c]) # {}
         /\ Cardinality(Reserved(c)) <= Cardinality(Due(contributions[c], {}))
<1> DEFINE info == contributions[c]
           due == Due(info, {})
<1>1. /\ Owned(c) = {} \/ Cardinality(Owned(c)) = info.amount
      /\ Cardinality(due) >= info.amount
  BY DEF Backed
<1>2. info.amount \in Nat /\ Cardinality(due) \in Nat
  BY DueFinite DEF ContributionRows
<1>3. Cardinality({}) = 0
  BY FS_EmptySet
<1>4. Unpaid(info) = {} => Cardinality(due) = 0
  BY NothingDue
<1>5. Cardinality(Reserved(c)) <= Cardinality(Owned(c))
      /\ Cardinality(Reserved(c)) \in Nat /\ Cardinality(Owned(c)) \in Nat
  <2>1. Owned(c) \in SUBSET Tokens /\ Reserved(c) \in SUBSET Owned(c)
    BY DEF Owned, Reserved, ReservedFor, UnspentOf
  <2>2. Reserved(c) \in SUBSET Tokens
    BY <2>1
  <2> QED
    BY <2>1, <2>2, FiniteTokens, FS_Subset
<1>9. Owned(c) = {} => Reserved(c) = {}
  BY DEF Owned, Reserved, ReservedFor, UnspentOf
<1> HIDE DEF info, due
<1>6. Owned(c) = {} /\ Unpaid(info) = {} => Cardinality(Owned(c)) = info.amount
  BY <1>1, <1>2, <1>3, <1>4
<1>7. Cardinality(Owned(c)) <= Cardinality(due)
  BY <1>1, <1>2, <1>3
<1>8. Cardinality(Reserved(c)) <= Cardinality(due)
  BY <1>2, <1>5, <1>7
<1> QED
  BY <1>1, <1>6, <1>8, <1>9 DEF info, due

\* The step PREPARE begins.
LEMMA PreparePaid ==
  ASSUME IInv, PaidInv, NEW r \in replies, r.on \in TokenKinds,
         contributions[r.c].step \in {"START", "RESERVE"},
         SetStep(r.c, "PREPARE", 0),
         Await({r}, WrittenOr("RETRY", [on |-> "PrepareStepSaved",
                                        c |-> r.c])),
         UNCHANGED <<tokens, requests, redeemedFor>>
  PROVE  PaidInv'
<1> DEFINE info == contributions[r.c]
           s == [on |-> "PrepareStepSaved", c |-> r.c]
<1> SUFFICES ASSUME Writes PROVE PaidInv'
  <2>1. CASE ~Writes
    <3>1. /\ contributions' = contributions
          /\ Await({r}, {[on |-> "NotSaved", c |-> r.c, result |-> "RETRY"]})
      BY <2>1 DEF SetStep, Written, WrittenOr
    <3> QED
      BY <3>1, NotSavedReads DEF IInv
  <2> QED
    BY <2>1
<1>1. r.on \notin ItemHandlers /\ r \in InFlight
  BY DEF ItemHandlers, TokenKinds, InFlight
<1>2. /\ r.c \in Contributions /\ Exists(r.c) /\ info \in ContributionRows
      /\ PaysWithTokens(r.c) /\ Backed(r.c)
  BY <1>1, Knows DEF Carries
<1>3. "PREPARE" \in Steps /\ 0 \in -1..RetryLimit
  BY BoundsAssumption DEF Steps
<1>4. PICK row \in ContributionRows :
        /\ contributions' = [contributions EXCEPT ![r.c] = row]
        /\ row.step = "PREPARE" /\ SameShares(info, row)
        /\ row.amount = info.amount /\ row.processor = info.processor
  BY <1>2, <1>3, StepRow DEF IInv
<1>5. /\ contributions'[r.c] = row /\ PaysWithTokens(r.c)'
      /\ Owned(r.c)' = Owned(r.c) /\ Reserved(r.c)' = Reserved(r.c)
  BY <1>2, <1>4, RowWritten DEF IInv
<1>6. Unpaid(row) = Unpaid(info) /\ Due(row, {}) = Due(info, {})
  BY <1>4, DueOfSameShares
<1>7. Backed(r.c)'
  BY <1>2, <1>4, <1>5, <1>6, EnoughDue DEF Backed
<1>8. s.c = r.c /\ Carries(s)'
  BY <1>4, <1>5 DEF Carries, TokenKinds, WalletKinds, PrepareKinds
<1>9. InFlight' = (InFlight \ {r}) \cup {s}
  BY AfterReply DEF IInv, WrittenOr
<1> HIDE DEF s
<1> QED
  BY <1>1, <1>4, <1>7, <1>8, <1>9, WritesRow DEF SameShares

LEMMA OnPrepareAutoContributionPaid ==
  ASSUME IInv, PaidInv, NEW r \in replies, r.on = "OnPrepareAutoContribution",
         OnPrepareAutoContribution(r)
  PROVE  PaidInv'
<1>1. contributions[r.c].step \in {"START", "RESERVE"} /\ r.on \in TokenKinds
  BY Knows DEF InFlight, ItemHandlers, Carries, TokenKinds
<1> QED
  BY <1>1, PreparePaid DEF OnPrepareAutoContribution, servers

\* The shares are drawn for the tokens there are, once more when a restart
\* comes between two steps.
LEMMA PreparePublishersPaid ==
  ASSUME IInv, PaidInv, NEW r \in replies,
         r.on \in {"OnMarkUnblindedTokensAsReserved",
                   "OnReservedUnblindedTokensForRetryAttempt"},
         r.on = "OnMarkUnblindedTokensAsReserved" => r.ok,
         r.on = "OnReservedUnblindedTokensForRetryAttempt" => r.ids # {},
         NEW step \in {"START", "RESERVE"}, PreparePublishers(r, step),
         UNCHANGED <<tokens, requests, redeemedFor>>
  PROVE  PaidInv'
<1> DEFINE info == contributions[r.c]
<1>1. r.on \notin ItemHandlers /\ r \in InFlight /\ r.on \in TokenKinds
  BY DEF ItemHandlers, InFlight, TokenKinds
<1>2. /\ r.c \in Contributions /\ Exists(r.c) /\ info \in ContributionRows
      /\ PaysWithTokens(r.c) => Backed(r.c)
      /\ Carries(r) /\ TokensOf(r.c)
  BY <1>1, Knows
<1>3. /\ PaysWithTokens(r.c) /\ info.step = "RESERVE"
  BY <1>1, <1>2 DEF Carries
<1>4. Cardinality(r.ids) = info.amount /\ info.amount \in Nat
  <2>1. CASE r.on = "OnMarkUnblindedTokensAsReserved"
    BY <1>2, <2>1 DEF Carries, ContributionRows
  <2>2. CASE r.on = "OnReservedUnblindedTokensForRetryAttempt"
    <3>1. r.ids = Reserved(r.c) /\ r.ids # {}
      BY <1>2, <2>2 DEF Carries
    <3>2. Owned(r.c) = Reserved(r.c)
      BY <1>2, <1>3 DEF Backed, TokensOf, Owned, Reserved, ReservedFor,
        UnspentOf, SpentFor
    <3> QED
      BY <1>2, <1>3, <3>1, <3>2 DEF Backed, ContributionRows
  <2> QED
    BY <2>1, <2>2
<1>5. CASE ItemType[info.item] # "AUTO_CONTRIBUTE"
  <2>1. /\ SetStep(r.c, "PREPARE", 0)
        /\ Await({r}, WrittenOr("RETRY", [on |-> "PrepareStepSaved",
                                           c |-> r.c]))
    BY <1>5 DEF PreparePublishers
  <2> QED
    BY <1>1, <1>3, <2>1, PreparePaid
<1>6. CASE ItemType[info.item] = "AUTO_CONTRIBUTE"
  <2> DEFINE s == [on |-> "OnPrepareAutoContribution", c |-> r.c]
  <2> SUFFICES ASSUME Writes PROVE PaidInv'
    <3>1. CASE ~Writes
      <4>1. /\ contributions' = contributions
            /\ Await({r}, {[on |-> "NotSaved", c |-> r.c,
                            result |-> "RETRY"]})
        BY <1>6, <3>1 DEF PreparePublishers, Written, WrittenOr
      <4> QED
        BY <4>1, NotSavedReads DEF IInv
    <3> QED
      BY <3>1
  <2>1. PICK votes \in Votes(info.publishers, Cardinality(r.ids)) :
          contributions' = [contributions EXCEPT ![r.c].total = votes,
                              ![r.c].contributed = Nothing,
                              ![r.c].step = step, ![r.c].retry = r.retry]
    BY <1>6 DEF PreparePublishers, Written
  <2>2. Await({r}, {s})
    BY <1>6 DEF PreparePublishers, WrittenOr
  <2>3. PICK row : row = [info EXCEPT !.total = votes, !.contributed = Nothing,
                                      !.step = step, !.retry = r.retry]
    OBVIOUS
  <2>4. /\ row \in ContributionRows /\ row.step = step
        /\ row.total = votes /\ row.contributed = Nothing
        /\ row.publishers = info.publishers
        /\ row.amount = info.amount /\ row.processor = info.processor
    <3>1. votes \in [Publishers -> Nat] /\ Nothing \in [Publishers -> Nat]
      BY <1>4, VotesType DEF Nothing
    <3>2. step \in Steps /\ r.retry \in -1..RetryLimit
      BY ReplyParts, BoundsAssumption DEF Steps, IInv, TypeOK
    <3> HIDE DEF info
    <3> QED
      BY <1>2, <2>3, <3>1, <3>2 DEF ContributionRows
  <2>5. contributions' = [contributions EXCEPT ![r.c] = row]
    BY <2>1, <2>3 DEF IInv, TypeOK
  <2>6. /\ contributions'[r.c] = row /\ PaysWithTokens(r.c)'
        /\ Owned(r.c)' = Owned(r.c) /\ SpentFor(r.c)' = SpentFor(r.c)
    BY <1>2, <1>3, <2>4, <2>5, RowWritten DEF IInv
  <2>7. Cardinality(Due(row, {})) >= row.amount
    <3>1. row.total \in Votes(row.publishers, row.amount)
      BY <1>4, <2>1, <2>4
    <3> QED
      BY <1>4, <2>4, <3>1, VotesAreDue
  <2>8. Backed(r.c)'
    BY <1>2, <1>3, <2>4, <2>6, <2>7 DEF Backed
  <2>9. s.c = r.c /\ Carries(s)'
    BY <2>4, <2>6 DEF Carries, TokenKinds, WalletKinds, PrepareKinds
  <2> HIDE DEF s
  <2>10. InFlight' = (InFlight \ {r}) \cup {s}
    BY <2>2, AfterReply DEF IInv
  <2> QED
    BY <1>1, <2>4, <2>5, <2>8, <2>9, <2>10, WritesRow
<1> QED
  BY <1>5, <1>6

LEMMA OnMarkUnblindedTokensAsReservedPaid ==
  ASSUME IInv, PaidInv, NEW r \in replies,
         r.on = "OnMarkUnblindedTokensAsReserved",
         OnMarkUnblindedTokensAsReserved(r)
  PROVE  PaidInv'
<1>1. UNCHANGED <<tokens, requests, redeemedFor>>
  BY DEF OnMarkUnblindedTokensAsReserved, servers
<1>2. CASE r.ok
  BY <1>1, <1>2, PreparePublishersPaid DEF OnMarkUnblindedTokensAsReserved
<1>3. CASE ~r.ok
  BY <1>1, <1>3, ResultReads DEF OnMarkUnblindedTokensAsReserved, IInv
<1> QED
  BY <1>2, <1>3

LEMMA OnReservedUnblindedTokensForRetryAttemptPaid ==
  ASSUME IInv, PaidInv, NEW r \in replies,
         r.on = "OnReservedUnblindedTokensForRetryAttempt",
         OnReservedUnblindedTokensForRetryAttempt(r)
  PROVE  PaidInv'
<1>1. UNCHANGED <<tokens, requests, redeemedFor>>
  BY DEF OnReservedUnblindedTokensForRetryAttempt, servers
<1>2. CASE r.ids # {}
  BY <1>1, <1>2, PreparePublishersPaid
  DEF OnReservedUnblindedTokensForRetryAttempt
<1>3. CASE r.ids = {}
  BY <1>1, <1>3, ResultReads
  DEF OnReservedUnblindedTokensForRetryAttempt, IInv
<1> QED
  BY <1>2, <1>3

\* A publisher has been paid: its share is not due any more.
LEMMA ContributedRow ==
  ASSUME TypeOK, NEW c \in Contributions, Exists(c), NEW p \in Publishers,
         Contributed(c, p), Writes
  PROVE  \E row \in ContributionRows :
           /\ contributions' = [contributions EXCEPT ![c] = row]
           /\ row.step = contributions[c].step
           /\ row.amount = contributions[c].amount
           /\ row.processor = contributions[c].processor
           /\ row.publishers = contributions[c].publishers
           /\ Unpaid(row) = Unpaid(contributions[c]) \ {p}
           /\ Due(row, {}) = Due(contributions[c], {p})
<1> DEFINE info == contributions[c]
           row  == [info EXCEPT !.contributed[p] = info.total[p]]
<1>1. info \in ContributionRows
  BY RowType
<1>2. contributions' = [contributions EXCEPT ![c] = row]
  BY DEF Contributed, Written, TypeOK
<1> HIDE DEF info
<1>3. /\ row \in ContributionRows /\ row.step = info.step
      /\ row.publishers = info.publishers /\ row.total = info.total
      /\ row.amount = info.amount /\ row.processor = info.processor
      /\ row.contributed = [info.contributed EXCEPT ![p] = info.total[p]]
  BY <1>1 DEF ContributionRows
<1>4. /\ info.contributed \in [Publishers -> Nat]
      /\ info.publishers \subseteq Publishers
  BY <1>1 DEF ContributionRows
<1> HIDE DEF row
<1>5. Unpaid(row) = Unpaid(info) \ {p}
  BY <1>3, <1>4 DEF Unpaid
<1>6. Due(row, {}) = Due(info, {p})
  <2>1. \A q : UnitsOf(row, q) = UnitsOf(info, q)
    BY <1>3 DEF UnitsOf
  <2>2. Unpaid(row) \ {} = Unpaid(info) \ {p}
    BY <1>5
  <2> QED
    BY <2>1, <2>2 DEF Due
<1> QED
  BY <1>2, <1>3, <1>5, <1>6 DEF info

LEMMA TokenProcessedPaid ==
  ASSUME IInv, PaidInv, NEW r \in replies, r.on = "TokenProcessed",
         TokenProcessed(r)
  PROVE  PaidInv'
<1> DEFINE info == contributions[r.c]
           s == [on |-> "ContributionAmountSaved", c |-> r.c, final |-> r.final]
<1>1. r.on \notin ItemHandlers /\ r \in InFlight
  BY DEF ItemHandlers, InFlight
<1>2. r.c \in Contributions /\ Exists(r.c) /\ Carries(r) /\ TokensOf(r.c)
  BY <1>1, Knows
<1>3. /\ PaysWithTokens(r.c) /\ info.step = "PREPARE"
      /\ Cardinality(Owned(r.c)) = info.amount
      /\ Cardinality(Reserved(r.c)) <= Cardinality(Due(info, {r.publisher}))
      /\ r.final => Unpaid(info) = {r.publisher}
  BY <1>2 DEF Carries, TokenKinds, PrepareKinds
<1>4. r.publisher \in Publishers
  BY ReplyParts DEF IInv, TypeOK
<1> SUFFICES ASSUME Writes PROVE PaidInv'
  <2>1. CASE ~Writes /\ r.final
    <3>1. /\ UNCHANGED <<contributions, tokens, requests, redeemedFor>>
          /\ Await({r}, {[on |-> "NotSaved", c |-> r.c,
                          result |-> "LEDGER_ERROR"]})
      BY <2>1 DEF TokenProcessed, Contributed, Written, WrittenOr, servers
    <3> QED
      BY <3>1, NotSavedReads DEF IInv
  <2>2. CASE ~Writes /\ ~r.final
    <3>1. /\ UNCHANGED <<contributions, tokens, requests, redeemedFor>>
          /\ Await({r}, {s})
      BY <2>2 DEF TokenProcessed, Contributed, Written, servers
    <3>2. Carries(s)
      BY <1>3, <2>2 DEF Carries, TokenKinds, WalletKinds, PrepareKinds
    <3> HIDE DEF s
    <3> QED
      BY <3>1, <3>2, NextReads DEF IInv
  <2> QED
    BY <2>1, <2>2
<1>5. Contributed(r.c, r.publisher) /\ Await({r}, {s})
      /\ UNCHANGED <<tokens, requests, redeemedFor>>
  BY DEF TokenProcessed, WrittenOr, servers
<1>6. PICK row \in ContributionRows :
        /\ contributions' = [contributions EXCEPT ![r.c] = row]
        /\ row.step = info.step /\ row.amount = info.amount
        /\ row.processor = info.processor /\ row.publishers = info.publishers
        /\ Unpaid(row) = Unpaid(info) \ {r.publisher}
        /\ Due(row, {}) = Due(info, {r.publisher})
  BY <1>2, <1>4, <1>5, ContributedRow DEF IInv
<1>7. /\ contributions'[r.c] = row /\ PaysWithTokens(r.c)'
      /\ Owned(r.c)' = Owned(r.c) /\ Reserved(r.c)' = Reserved(r.c)
      /\ SpentFor(r.c)' = SpentFor(r.c)
  BY <1>2, <1>3, <1>5, <1>6, RowWritten DEF IInv
<1>8. Backed(r.c)'
  BY <1>3, <1>6, <1>7 DEF Backed
<1>9. r.final => Pays(r.c)
  <2>1. r.final => Cardinality(Due(info, {r.publisher})) = 0
    BY <1>3, NothingDue
  <2> QED
    BY <1>2, <1>3, <2>1, AllRedeemed
<1>10. s.c = r.c /\ Carries(s)'
  BY <1>3, <1>6, <1>7, <1>9
  DEF Carries, TokenKinds, WalletKinds, PrepareKinds, Pays
<1>11. InFlight' = (InFlight \ {r}) \cup {s}
  BY <1>5, AfterReply DEF IInv
<1> HIDE DEF s
<1> QED
  BY <1>1, <1>5, <1>6, <1>8, <1>10, <1>11, WritesRow

LEMMA OnCommitTransactionPaid ==
  ASSUME IInv, PaidInv, NEW r \in requests, r.on = "OnCommitTransaction",
         OnCommitTransaction(r)
  PROVE  PaidInv'
<1> DEFINE info == contributions[r.c]
           s == [on |-> "Completed", c |-> r.c]
<1>1. r.on \notin ItemHandlers /\ r \in InFlight
  BY DEF ItemHandlers, InFlight
<1>2. r.c \in Contributions /\ Exists(r.c) /\ ~PaysWithTokens(r.c)
  BY <1>1, Knows DEF Carries, WalletKinds
<1>3. r.publisher \in Publishers
  BY RequestParts DEF IInv, TypeOK
<1> SUFFICES ASSUME Writes PROVE PaidInv'
  <2>1. CASE ~Writes
    <3>1. /\ UNCHANGED <<contributions, tokens, redeemedFor>>
          /\ requests' \subseteq requests
          /\ Await({}, {[on |-> "NotSaved", c |-> r.c,
                         result |-> "LEDGER_ERROR"]})
      BY <2>1 DEF OnCommitTransaction, Contributed, Written, WrittenOr, Asked,
        servers
    <3> QED
      BY <3>1, NotSavedReads DEF IInv
  <2> QED
    BY <2>1
<1>4. /\ Contributed(r.c, r.publisher) /\ Await({}, {s}) /\ Asked({r}, {})
      /\ UNCHANGED <<tokens, redeemedFor>>
  BY DEF OnCommitTransaction, WrittenOr, servers
<1>5. PICK row \in ContributionRows :
        /\ contributions' = [contributions EXCEPT ![r.c] = row]
        /\ row.processor = info.processor /\ row.publishers = info.publishers
  BY <1>2, <1>3, <1>4, ContributedRow DEF IInv
<1>6. ~PaysWithTokens(r.c)'
  BY <1>2, <1>4, <1>5, RowWritten DEF IInv
<1>7. s.c = r.c /\ Carries(s)'
  BY <1>6 DEF Carries, TokenKinds, WalletKinds, PrepareKinds
<1>8. InFlight' = (InFlight \ {r}) \cup {s}
  BY <1>4, AfterRequest DEF IInv
<1> HIDE DEF s
<1> QED
  BY <1>1, <1>2, <1>4, <1>5, <1>7, <1>8, WritesRow

-----------------------------------------------------------------------------
(* The handlers that write the tokens.                                     *)

\* What marking as redeemed does to the tokens a contribution has reserved.
LEMMA Redeemed ==
  ASSUME TypeOK, NEW c \in Contributions, NEW ids \in SUBSET Reserved(c),
         tokens' = MarkRecordListAsSpent(tokens, ids, c)
  PROVE  /\ Owned(c)' = Owned(c)
         /\ Reserved(c)' = Reserved(c) \ ids
         /\ SpentFor(c)' = SpentFor(c) \cup ids
         /\ \A t \in Tokens :
              /\ tokens[t].spent => tokens'[t].spent
              /\ \/ tokens'[t] = tokens[t]
                 \/ tokens[t].owner = c /\ tokens'[t].owner = c
         /\ \A t \in Tokens : ~tokens'[t].spent => tokens'[t] = tokens[t]
<1>1. \A t \in Tokens : tokens[t] \in [owner : Contributions \cup {NoOwner},
                                       reserved : BOOLEAN, spent : BOOLEAN]
  BY DEF TypeOK
<1>2. \A t \in Reserved(c) : t \in Tokens /\ tokens[t].owner = c
                               /\ ~tokens[t].spent /\ tokens[t].reserved
  BY DEF Reserved, ReservedFor, UnspentOf
<1>3. \A t \in Tokens :
        /\ t \in ids => /\ tokens'[t].owner = c /\ tokens'[t].spent
                        /\ tokens'[t].reserved = tokens[t].reserved
        /\ t \notin ids => tokens'[t] = tokens[t]
  BY <1>1 DEF MarkRecordListAsSpent
<1>4. /\ Owned(c)' = Owned(c) /\ SpentFor(c)' = SpentFor(c) \cup ids
  BY <1>2, <1>3 DEF Owned, SpentFor
<1>5. Reserved(c)' = Reserved(c) \ ids
  BY <1>3 DEF Reserved, ReservedFor, UnspentOf
<1> QED
  BY <1>2, <1>3, <1>4, <1>5

LEMMA OnRedeemTokensPaid ==
  ASSUME IInv, PaidInv, NEW r \in requests, r.on = "OnRedeemTokens",
         OnRedeemTokens(r)
  PROVE  PaidInv'
<1> DEFINE info == contributions[r.c]
           p == r.publisher
           s == [on |-> "TokenProcessed", c |-> r.c, publisher |-> p,
                 final |-> r.final]
           N == {s}
<1>1. r.on \notin ItemHandlers /\ r \in InFlight
  BY DEF ItemHandlers, InFlight
<1>2. /\ r.c \in Contributions /\ Exists(r.c) /\ info \in ContributionRows
      /\ Carries(r) /\ TokensOf(r.c)
      /\ PaysWithTokens(r.c) => Backed(r.c)
  BY <1>1, Knows
<1> SUFFICES ASSUME Writes PROVE PaidInv'
  <2>1. CASE ~Writes
    <3>1. /\ UNCHANGED <<contributions, tokens, redeemedFor>>
          /\ requests' \subseteq requests
          /\ Await({}, {[on |-> "NotSaved", c |-> r.c, result |-> "RETRY"]})
      BY <2>1 DEF OnRedeemTokens, Written, WrittenOr, Asked, servers
    <3> QED
      BY <3>1, NotSavedReads DEF IInv
  <2> QED
    BY <2>1
<1>3. /\ r.handled /\ Asked({r}, {}) /\ Await({}, N)
      /\ tokens' = MarkRecordListAsSpent(tokens, r.ids, r.c)
      /\ UNCHANGED <<contributions, redeemedFor>>
  BY DEF OnRedeemTokens, Written, WrittenOr, servers
<1>4. /\ PaysWithTokens(r.c) /\ info.step = "PREPARE"
      /\ p \in Unpaid(info) /\ r.ids # {}
      /\ r.ids = TakeFirst(Reserved(r.c), info.total[p])
      /\ r.final => Unpaid(info) = {p}
      /\ \A t \in r.ids : \E payment \in redeemedFor[t] :
           payment.publisher = p
  BY <1>2, <1>3 DEF Carries, TokenKinds, PrepareKinds
<1>5. /\ Cardinality(Due(info, {}))
           <= Cardinality(Due(info, {p})) + info.total[p]
      /\ info.total[p] \in Nat
      /\ Cardinality(Due(info, {})) \in Nat
      /\ Cardinality(Due(info, {p})) \in Nat
  BY <1>2, <1>4, DueWithout, DueFinite
<1>6. /\ Reserved(r.c) \in SUBSET Tokens /\ r.ids \in SUBSET Reserved(r.c)
      /\ Reserved(r.c) \subseteq Owned(r.c)
  <2>1. Reserved(r.c) \in SUBSET Tokens /\ Reserved(r.c) \subseteq Owned(r.c)
    BY DEF Reserved, ReservedFor, UnspentOf, Owned
  <2> QED
    BY <1>4, <2>1, Taken
<1>7. /\ Owned(r.c)' = Owned(r.c)
      /\ Reserved(r.c)' = Reserved(r.c) \ r.ids
      /\ SpentFor(r.c)' = SpentFor(r.c) \cup r.ids
      /\ \A t \in Tokens :
           /\ tokens[t].spent => tokens'[t].spent
           /\ \/ tokens'[t] = tokens[t]
              \/ tokens[t].owner = r.c /\ tokens'[t].owner = r.c
      /\ \A t \in Tokens : ~tokens'[t].spent => tokens'[t] = tokens[t]
  BY <1>2, <1>3, <1>6, Redeemed DEF IInv
<1>8. /\ NothingUndone
      /\ \A other \in Contributions : other # r.c => Keeps(other)
  BY <1>3, <1>7 DEF NothingUndone, Keeps
<1>9. PaysWithTokens(r.c)' /\ contributions'[r.c] = info
  BY <1>3, <1>4 DEF PaysWithTokens, Exists
<1>10. TokensOf(r.c)'
  <2>1. ASSUME NEW t \in Owned(r.c)', ~tokens'[t].spent
        PROVE  /\ tokens'[t].reserved
               /\ \A u \in Tokens :
                    u < t => tokens'[u].spent \/ tokens'[u].owner = r.c
    <3>1. t \in Owned(r.c) /\ t \in Tokens /\ tokens'[t] = tokens[t]
      BY <1>7, <2>1 DEF Owned
    <3>2. \A u \in Tokens : u < t => tokens[u].spent \/ tokens[u].owner = r.c
      BY <1>2, <2>1, <3>1 DEF TokensOf
    <3> QED
      BY <1>2, <1>7, <2>1, <3>1, <3>2 DEF TokensOf
  <2>2. ASSUME NEW t \in SpentFor(r.c)'
        PROVE  \E payment \in redeemedFor'[t] :
                 payment.publisher \in contributions'[r.c].publishers
    <3>1. CASE t \in r.ids
      BY <1>2, <1>3, <1>4, <3>1, UnpaidAre
    <3>2. CASE t \in SpentFor(r.c)
      BY <1>2, <1>3, <3>2 DEF TokensOf
    <3> QED
      BY <1>7, <2>2, <3>1, <3>2
  <2> QED
    BY <1>9, <2>1, <2>2 DEF TokensOf
<1>11. Cardinality(Owned(r.c)) = info.amount
  BY <1>2, <1>4, <1>6 DEF Backed
<1>12. /\ Cardinality(Reserved(r.c) \ r.ids) <= Cardinality(Due(info, {p}))
       /\ Cardinality(Reserved(r.c) \ r.ids) <= Cardinality(Due(info, {}))
  <2>1. /\ IsFiniteSet(Reserved(r.c)) /\ Cardinality(Reserved(r.c)) \in Nat
        /\ Cardinality(Reserved(r.c)) <= Cardinality(Due(info, {}))
    BY <1>2, <1>4, <1>6, FiniteTokens DEF Backed
  <2>2. /\ Cardinality(r.ids) \in Nat
        /\ Cardinality(Reserved(r.c) \ r.ids) \in Nat
        /\ Cardinality(Reserved(r.c) \ r.ids)
             = Cardinality(Reserved(r.c)) - Cardinality(r.ids)
    BY <1>6, <2>1, Rest
  <2>3. Cardinality(Reserved(r.c) \ r.ids) <= Cardinality(Due(info, {}))
    BY <1>5, <2>1, <2>2
  <2>4. CASE r.ids = Reserved(r.c)
    <3>1. Reserved(r.c) \ r.ids = {}
      BY <2>4
    <3>2. Cardinality(Reserved(r.c) \ r.ids) = 0
      BY <3>1, FS_EmptySet
    <3> QED
      BY <1>5, <2>3, <3>2
  <2>5. CASE Cardinality(r.ids) = info.total[p]
    BY <1>5, <2>1, <2>2, <2>3, <2>5
  <2> QED
    BY <1>4, <1>5, <1>6, <2>4, <2>5, TakesEnough
<1>13. Backed(r.c)'
  BY <1>4, <1>7, <1>9, <1>11, <1>12 DEF Backed
<1>14. s.c = r.c /\ Carries(s)'
  BY <1>4, <1>7, <1>9, <1>11, <1>12
  DEF Carries, TokenKinds, WalletKinds, PrepareKinds
<1>15. \A n \in N : n.c = r.c /\ Carries(n)'
  BY <1>14
<1>16. InFlight' = (InFlight \ {r}) \cup N
  BY <1>3, AfterRequest DEF IInv
<1> HIDE DEF s, N
<1> QED
  BY <1>1, <1>8, <1>10, <1>13, <1>15, <1>16, WritesTable

\* The tokens of a contribution that is over are spendable again, those it
\* has redeemed excepted.
LEMMA ContributionCompletedSavedPaid ==
  ASSUME IInv, PaidInv, NEW r \in replies,
         r.on = "ContributionCompletedSaved", ContributionCompletedSaved(r)
  PROVE  PaidInv'
<1> DEFINE c == r.c
           N == {}
<1>1. r.on \notin ItemHandlers /\ r \in InFlight
  BY DEF ItemHandlers, InFlight
<1>2. /\ c \in Contributions /\ Exists(c) /\ TokensOf(c)
      /\ PaysWithTokens(c) => Backed(c)
  BY <1>1, Knows
<1> SUFFICES ASSUME Writes PROVE PaidInv'
  <2>1. CASE ~Writes
    <3>1. /\ UNCHANGED <<contributions, tokens, requests, redeemedFor>>
          /\ Await({r}, {})
      BY <2>1 DEF ContributionCompletedSaved, Written, servers
    <3>2. \A n \in InFlight' : n \in InFlight
      BY <3>1 DEF InFlight, Await
    <3> QED
      BY <3>1, <3>2, ItemReads DEF IInv
  <2> QED
    BY <2>1
<1>4. /\ tokens' = MarkRecordListAsSpendable(tokens, c) /\ Await({r}, N)
      /\ UNCHANGED <<contributions, requests, redeemedFor>>
  BY DEF ContributionCompletedSaved, Written, servers
<1>5. NoOwner \notin Contributions
  BY ContributionsAssumption
<1>6. \A t \in Tokens :
        /\ tokens[t].owner = c /\ ~tokens[t].spent => tokens'[t].owner = NoOwner
        /\ ~(tokens[t].owner = c /\ ~tokens[t].spent) => tokens'[t] = tokens[t]
  BY <1>4 DEF MarkRecordListAsSpendable, UnspentOf, FreshToken
<1>7. /\ NothingUndone
      /\ \A other \in Contributions : other # c => Keeps(other)
  BY <1>4, <1>5, <1>6 DEF NothingUndone, Keeps
<1>8. Owned(c)' = SpentFor(c) /\ SpentFor(c)' = SpentFor(c)
  BY <1>2, <1>5, <1>6 DEF Owned, SpentFor
<1>9. contributions'[c] = contributions[c]
      /\ (PaysWithTokens(c)' <=> PaysWithTokens(c))
  BY <1>4 DEF PaysWithTokens, Exists
<1>10. TokensOf(c)'
  <2>1. \A t \in Owned(c)' : tokens'[t].spent
    BY <1>6, <1>8 DEF SpentFor
  <2>2. ~PaysWithTokens(c)' => Owned(c)' = {}
    BY <1>2, <1>8, <1>9 DEF TokensOf, Owned, SpentFor
  <2>3. \A t \in SpentFor(c)' : \E payment \in redeemedFor'[t] :
          payment.publisher \in contributions'[c].publishers
    BY <1>2, <1>4, <1>8 DEF TokensOf
  <2> QED
    BY <2>1, <2>2, <2>3 DEF TokensOf
<1>3. Reserved(c)' = {}
  BY <1>5, <1>8 DEF Reserved, ReservedFor, UnspentOf, Owned, SpentFor
<1>11. PaysWithTokens(c)' => Backed(c)'
  <2> SUFFICES ASSUME PaysWithTokens(c) PROVE Backed(c)'
    BY <1>9
  <2> DEFINE info == contributions[c]
  <2>1. Backed(c) /\ info \in ContributionRows
    BY <1>1, <1>2, Knows
  <2>2. CASE info.step \in {"START", "RESERVE"}
    BY <1>8, <1>9, <2>1, <2>2 DEF Backed
  <2>3. CASE info.step = "PREPARE"
    <3>1. Unpaid(info) = {} => Cardinality(SpentFor(c)) = info.amount
      BY <1>2, <2>1, <2>3, AllPaid DEF Pays
    <3>2. Cardinality({}) = 0 /\ Cardinality(Due(info, {})) \in Nat
      BY <2>1, DueFinite, FS_EmptySet
    <3>3. Cardinality(Reserved(c)') <= Cardinality(Due(info, {}))
      BY <1>3, <3>2
    <3> QED
      BY <1>3, <1>8, <1>9, <2>3, <3>1, <3>3 DEF Backed
  <2>4. CASE info.step \notin {"START", "RESERVE", "PREPARE"}
    BY <1>8, <1>9, <2>1, <2>4 DEF Backed
  <2> QED
    BY <2>2, <2>3, <2>4
<1>12. InFlight' = (InFlight \ {r}) \cup N
  BY <1>4, AfterReply DEF IInv
<1>13. \A n \in N : n.c = c /\ Carries(n)'
  OBVIOUS
<1> HIDE DEF N
<1> QED
  BY <1>1, <1>7, <1>10, <1>11, <1>12, <1>13, WritesTable

\* A contribution that already owns tokens does not get others: the first
\* token it is offered is one of its own, and that one is reserved.
LEMMA NotMarkedTwice ==
  ASSUME TypeOK, NEW c \in Contributions, NEW all \in SUBSET Tokens,
         NEW amount \in Nat, PaysWithTokens(c), TokensOf(c), Backed(c),
         contributions[c].step = "START", Owned(c) \subseteq all,
         \A t \in TakeFirst(all, amount) :
           ~tokens[t].reserved /\ ~tokens[t].spent,
         TakeFirst(all, amount) # {}
  PROVE  Owned(c) = {}
<1> DEFINE ids == TakeFirst(all, amount)
<1> SUFFICES ASSUME NEW w \in Owned(c) PROVE FALSE
  OBVIOUS
<1>1. PICK i \in ids : TRUE
  OBVIOUS
<1>2. w \in Tokens /\ w \in Nat /\ i \in Tokens /\ i \in Nat /\ i \in all
  BY Taken, TokensAssumption DEF Owned
<1>3. ~tokens[w].spent
  BY DEF Backed, Owned, SpentFor
<1>4. /\ tokens[w].reserved
      /\ \A u \in Tokens : u < w => tokens[u].spent \/ tokens[u].owner = c
  BY <1>3 DEF TokensOf
<1>5. ~tokens[i].reserved /\ ~tokens[i].spent
  BY <1>1
<1>6. i \notin Owned(c)
  BY <1>5 DEF TokensOf
<1>7. CASE i < w
  BY <1>2, <1>4, <1>5, <1>6, <1>7 DEF Owned
<1>8. CASE w < i
  <2>1. w \in ids
    BY <1>1, <1>2, <1>8, TakesInOrder
  <2> QED
    BY <1>4, <2>1
<1> QED
  BY <1>2, <1>4, <1>5, <1>7, <1>8

LEMMA PrepareTokensPaid ==
  ASSUME IInv, PaidInv, NEW r \in replies, r.on = "PrepareTokens",
         PrepareTokens(r)
  PROVE  PaidInv'
<1> DEFINE info == contributions[r.c]
<1>0. PICK amount, ids : amount = info.amount /\ ids = TakeFirst(r.ids, amount)
  OBVIOUS
<1> DEFINE reserved == MarkRecordListAsReserved(tokens, ids, r.c)
<1>1. r.on \notin ItemHandlers /\ r \in InFlight
  BY DEF ItemHandlers, InFlight
<1>2. /\ r.c \in Contributions /\ Exists(r.c) /\ info \in ContributionRows
      /\ Carries(r) /\ TokensOf(r.c)
      /\ PaysWithTokens(r.c) => Backed(r.c)
  BY <1>1, Knows
<1>3. /\ PaysWithTokens(r.c) /\ Backed(r.c) /\ info.step = "START"
      /\ Owned(r.c) \subseteq r.ids
      /\ \A t \in Tokens \ r.ids : tokens[t].spent
  BY <1>2 DEF Carries, TokenKinds
<1>4. r.ids \in SUBSET Tokens /\ amount \in Nat
  BY <1>0, <1>2, ReplyParts DEF IInv, TypeOK, ContributionRows
<1>5. CASE Cardinality(ids) < amount
  <2>1. /\ Result({r}, r.c, "NOT_ENOUGH_FUNDS")
        /\ UNCHANGED <<tokens, contributions, requests, redeemedFor>>
    BY <1>0, <1>5 DEF PrepareTokens, servers
  <2> QED
    BY <2>1, ResultReads DEF IInv
<1>6. CASE ~(Cardinality(ids) < amount)
  <2>1. PICK s : s = [on |-> "OnMarkUnblindedTokensAsReserved", c |-> r.c,
                      ids |-> ids,
                      ok |-> Writes /\ AllReserved(reserved, ids),
                      retry |-> info.retry]
    OBVIOUS
  <2>0. /\ tokens' = Written(tokens, reserved) /\ SetStep(r.c, "RESERVE", 0)
        /\ Await({r}, {s}) /\ UNCHANGED <<requests, redeemedFor>>
    BY <1>0, <1>6, <2>1 DEF PrepareTokens, servers
  <2> SUFFICES ASSUME Writes PROVE PaidInv'
    <3>1. CASE ~Writes
      <4>1. tokens' = tokens /\ contributions' = contributions
        BY <2>0, <3>1 DEF SetStep, Written
      <4>2. Carries(s)
        BY <1>3, <2>1, <3>1 DEF Carries, TokenKinds, WalletKinds, PrepareKinds
      <4> QED
        BY <2>0, <4>1, <4>2, NextReads DEF IInv
    <3> QED
      BY <3>1
  <2>2. /\ tokens' = reserved /\ SetStep(r.c, "RESERVE", 0)
        /\ Await({r}, {s}) /\ UNCHANGED <<requests, redeemedFor>>
    BY <2>0 DEF Written
  <2>3. s.on = "OnMarkUnblindedTokensAsReserved" /\ s.c = r.c /\ s.ids = ids
    BY <2>1
  <2>4. /\ ids \subseteq r.ids /\ ids \in SUBSET Tokens
        /\ Cardinality(ids) = amount
    <3>1. ids \subseteq r.ids /\ Cardinality(ids) <= amount
      BY <1>0, <1>4, Taken, TakesAtMost
    <3>2. ids \in SUBSET Tokens
      BY <1>4, <3>1
    <3>3. Cardinality(ids) \in Nat
      BY <3>2, FiniteTokens
    <3> QED
      BY <1>4, <1>6, <3>1, <3>2, <3>3
  <2>5. PICK row \in ContributionRows :
          /\ contributions' = [contributions EXCEPT ![r.c] = row]
          /\ row.step = "RESERVE" /\ SameShares(info, row)
          /\ row.amount = info.amount /\ row.processor = info.processor
    <3>1. "RESERVE" \in Steps /\ 0 \in -1..RetryLimit
      BY BoundsAssumption DEF Steps
    <3> QED
      BY <1>2, <2>2, <3>1, StepRow DEF IInv
  <2>6. Due(row, {}) = Due(info, {})
    BY <2>5, DueOfSameShares
  <2>7. /\ contributions'[r.c] = row
        /\ \A other \in Contributions :
             other # r.c => contributions'[other] = contributions[other]
    BY <1>2, <2>5 DEF IInv, TypeOK
  <2>8. PaysWithTokens(r.c)'
    BY <1>3, <2>5, <2>7, NoContributionAssumption DEF PaysWithTokens, Exists
  <2>9. Carries(s)'
    BY <1>0, <2>3, <2>4, <2>5, <2>7, <2>8
    DEF Carries, TokenKinds, WalletKinds, PrepareKinds
  <2>10. InFlight' = (InFlight \ {r}) \cup {s}
    BY <2>2, AfterReply DEF IInv
  <2>11. CASE tokens' = tokens
    <3>1. Owned(r.c)' = Owned(r.c) /\ SpentFor(r.c)' = SpentFor(r.c)
      BY <2>11 DEF Owned, SpentFor
    <3>2. Backed(r.c)'
      BY <1>3, <2>5, <2>6, <2>7, <3>1 DEF Backed
    <3> QED
      BY <1>1, <2>2, <2>3, <2>5, <2>9, <2>10, <2>11, <3>2, WritesRow
      DEF SameShares
  <2>12. CASE tokens' # tokens
    <3>1. /\ \A t \in ids : ~tokens[t].reserved /\ ~tokens[t].spent
          /\ tokens' = [t \in Tokens |->
                          IF t \in ids
                          THEN [tokens[t] EXCEPT !.owner = r.c,
                                                 !.reserved = TRUE]
                          ELSE tokens[t]]
      BY <2>2, <2>12 DEF MarkRecordListAsReserved
    <3>2. \A t \in Tokens :
            /\ t \in ids => /\ tokens'[t].owner = r.c /\ tokens'[t].reserved
                            /\ tokens'[t].spent = tokens[t].spent
            /\ t \notin ids => tokens'[t] = tokens[t]
      BY <3>1 DEF IInv, TypeOK
    <3>3. ids # {}
      <4>1. ids = {} => tokens' = [t \in Tokens |-> tokens[t]]
        BY <3>1
      <4> QED
        BY <2>12, <4>1 DEF IInv, TypeOK
    <3>4. Owned(r.c) = {}
      BY <1>0, <1>2, <1>3, <1>4, <3>1, <3>3, NotMarkedTwice DEF IInv
    <3>5. Owned(r.c)' = ids /\ SpentFor(r.c)' = {}
      BY <2>4, <3>1, <3>2, <3>4 DEF Owned, SpentFor
    <3>6. TokensOf(r.c)'
      <4>1. ASSUME NEW t \in ids, NEW u \in Tokens, u < t
            PROVE  tokens'[u].spent \/ tokens'[u].owner = r.c
        <5>1. CASE u \in r.ids
          <6>1. u \in ids
            BY <1>0, <1>4, <4>1, <5>1, TakesInOrder
          <6> QED
            BY <3>2, <6>1
        <5>2. CASE u \notin r.ids
          BY <1>3, <2>4, <3>2, <5>2
        <5> QED
          BY <5>1, <5>2
      <4> QED
        BY <2>4, <2>8, <3>2, <3>5, <4>1 DEF TokensOf
    <3>7. Backed(r.c)'
      BY <1>0, <1>3, <2>4, <2>5, <2>6, <2>7, <3>5 DEF Backed
    <3>8. NothingUndone
      BY <2>2, <3>2 DEF NothingUndone
    <3>9. ASSUME NEW other \in Contributions, other # r.c
          PROVE  Keeps(other)
      <4>1. TokensOf(other)
        BY DEF PaidInv, Secured
      <4>2. \A t \in ids : tokens[t].owner # other
        BY <2>4, <3>1, <4>1 DEF TokensOf, Owned
      <4> QED
        BY <2>7, <3>2, <3>9, <4>2 DEF Keeps
    <3> DEFINE N == {s}
    <3>10. /\ InFlight' = (InFlight \ {r}) \cup N
           /\ \A n \in N : n.c = r.c /\ Carries(n)'
      BY <2>3, <2>9, <2>10
    <3> HIDE DEF N
    <3> QED
      BY <1>1, <2>8, <3>6, <3>7, <3>8, <3>9, <3>10, WritesTable
  <2> QED
    BY <2>11, <2>12
<1> QED
  BY <1>5, <1>6

-----------------------------------------------------------------------------
(* A new contribution.                                                     *)

\* The first publisher is due all of it.
LEMMA NewRowDue ==
  ASSUME NEW i \in Items, NEW processor \in {"BRAVE_TOKENS", "UPHOLD"},
         NEW amount \in Nat
  PROVE  Cardinality(Due(NewContribution(i, processor, amount), {})) >= amount
<1>1. PICK row \in ContributionRows :
        row = NewContribution(i, processor, amount)
  BY NewContributionType
<1> DEFINE p == FirstOf(ItemPublishers[i])
<1>2. p \in ItemPublishers[i] /\ p \in Publishers
  BY ItemsAssumption, FirstOfPublishers
<1>3. /\ row.publishers = ItemPublishers[i]
      /\ row.total = [Nothing EXCEPT ![p] = amount]
      /\ row.contributed = Nothing
  BY <1>1 DEF NewContribution
<1> HIDE DEF p
<1>4. row.total[p] = amount /\ row.contributed[p] = 0
  BY <1>2, <1>3 DEF Nothing
<1>5. CASE amount = 0
  <2>1. Cardinality(Due(row, {})) \in Nat
    BY DueFinite
  <2> QED
    BY <1>1, <1>5, <2>1
<1>6. CASE amount # 0
  <2>1. p \in Unpaid(row)
    BY <1>2, <1>3, <1>4, <1>6 DEF Unpaid
  <2>2. row.total[p] <= Cardinality(Due(row, {}))
    BY <2>1, DueWithout
  <2>3. Cardinality(Due(row, {})) \in Nat
    BY DueFinite
  <2> QED
    BY <1>1, <1>4, <2>2, <2>3
<1> QED
  BY <1>5, <1>6

LEMMA EntryPaid ==
  ASSUME IInv, PaidInv, NEW r \in InFlight, r.on \in ItemHandlers,
         NEW c \in Contributions, ~Exists(c),
         NEW row \in ContributionRows, row.step = "START",
         Cardinality(Due(row, {})) >= row.amount,
         contributions' = [contributions EXCEPT ![c] = row],
         NEW s, s.on = "OnEntrySaved", s.c = c, s.wallet = row.processor,
         InFlight' = (InFlight \ {r}) \cup {s},
         UNCHANGED <<tokens, redeemedFor>>
  PROVE  PaidInv'
<1>1. /\ contributions'[c] = row
      /\ \A other \in Contributions :
           other # c => contributions'[other] = contributions[other]
  BY DEF IInv, TypeOK
<1>2. NothingUndone /\ \A other \in Contributions : other # c => Keeps(other)
  BY <1>1 DEF NothingUndone, Keeps
<1>3. s.on \notin ItemHandlers
  BY DEF ItemHandlers
<1>4. \A n \in Continuations(c)' : n = s
  <2>1. Continuations(c) = {}
    BY DEF IInv, ContributionOK, WaitsForOne
  <2>2. \A x \in InFlight : x.on \in ItemHandlers \/ x.c # c
    BY <2>1 DEF Continuations, InFlight
  <2>3. Continuations(c)' = {x \in InFlight' : x.on \notin ItemHandlers
                                               /\ x.c = c}
    BY DEF Continuations, InFlight
  <2> QED
    BY <1>3, <2>2, <2>3
<1>5. \A other \in Contributions :
        other # c => Continuations(other)' = Continuations(other)
  <2> DEFINE N == {s}
  <2>1. /\ InFlight' = (InFlight \ {r}) \cup N
        /\ \A n \in N : n.c = c
    OBVIOUS
  <2> HIDE DEF N
  <2> QED
    BY <2>1, ContinuationsAfter
<1>6. Owned(c)' = {} /\ SpentFor(c)' = {}
  <2>1. Owned(c) = {}
    BY DEF PaidInv, Secured, TokensOf, PaysWithTokens
  <2> QED
    BY <2>1 DEF Owned, SpentFor
<1>7. TokensOf(c)'
  BY <1>6 DEF TokensOf
<1>8. Backed(c)'
  BY <1>1, <1>6 DEF Backed
<1>9. \A n \in Continuations(c)' : Carries(n)'
  <2>1. Carries(s)'
    BY <1>1 DEF Carries, TokenKinds, WalletKinds, PrepareKinds
  <2> QED
    BY <1>4, <2>1
<1> QED
  BY <1>2, <1>5, <1>7, <1>8, <1>9, WritesFor DEF IInv

LEMMA CreateNewEntryPaid ==
  ASSUME IInv, PaidInv, NEW r \in InFlight, r.on \in ItemHandlers,
         r.item \in Items, NEW done, NEW previous,
         NEW balance \in Balances, NEW amount \in Nat,
         CreateNewEntry(done, r, previous, balance, amount),
         \A N : Await(done, N) => InFlight' = (InFlight \ {r}) \cup N,
         UNCHANGED <<tokens, redeemedFor>>
  PROVE  PaidInv'
<1> DEFINE wallet == NextFunded(previous, balance)
           funds  == IF wallet = "UPHOLD" THEN balance.external
                                          ELSE balance.tokens
           pays   == IF funds < amount THEN funds ELSE amount
<1>1. CASE wallet = "NONE"
  <2> DEFINE m == [on |-> "OnMarkContributionQueueAsComplete",
                   caller |-> r.caller, item |-> r.item]
  <2>1. /\ UNCHANGED contributions
        /\ Await(done, {} \cup {m})
    BY <1>1 DEF CreateNewEntry, MarkContributionQueueAsComplete
  <2>2. m.on \in ItemHandlers
    BY DEF ItemHandlers
  <2> HIDE DEF m
  <2>3. \A n \in InFlight' : n \in InFlight \/ n.on \in ItemHandlers
    BY <2>1, <2>2
  <2> QED
    BY <2>1, <2>3, ItemReads DEF IInv
<1>2. CASE wallet # "NONE"
  <2>1. wallet \in {"BRAVE_TOKENS", "UPHOLD"}
    BY <1>2 DEF NextFunded
  <2>2. funds \in Nat
    BY DEF Balances
  <2>3. pays \in Nat
    BY <2>2
  <2> DEFINE s(c) == [on |-> "OnEntrySaved", caller |-> r.caller, c |-> c,
                      item |-> r.item, wallet |-> wallet,
                      balance |-> balance, rest |-> amount - pays]
             new  == NewContribution(r.item, wallet, pays)
  <2> SUFFICES ASSUME Writes PROVE PaidInv'
    <3>1. CASE ~Writes
      <4>1. contributions' = contributions /\ Await(done, {})
        BY <1>2, <3>1 DEF CreateNewEntry, Written, IfWritten
      <4>2. \A n \in InFlight' : n \in InFlight
        BY <4>1
      <4> QED
        BY <4>1, <4>2, ItemReads DEF IInv
    <3> QED
      BY <3>1
  <2>4. PICK c \in FreshIds :
          /\ contributions' = [contributions EXCEPT ![c] = new]
          /\ Await(done, {s(c)})
    BY <1>2 DEF CreateNewEntry, Written, IfWritten
  <2>5. c \in Contributions /\ ~Exists(c)
    BY DEF FreshIds, Exists
  <2>6. PICK row \in ContributionRows : row = new
    BY <2>1, <2>3, NewContributionType
  <2>7. row.step = "START" /\ row.processor = wallet /\ row.amount = pays
    BY <2>6 DEF NewContribution
  <2>8. Cardinality(Due(row, {})) >= row.amount
    BY <2>1, <2>3, <2>6, <2>7, NewRowDue
  <2> HIDE DEF wallet, funds, pays, new
  <2>9. PICK entry : entry = s(c)
    OBVIOUS
  <2>10. /\ entry.on = "OnEntrySaved" /\ entry.c = c
         /\ entry.wallet = row.processor
    BY <2>7, <2>9
  <2> HIDE DEF s
  <2>11. InFlight' = (InFlight \ {r}) \cup {entry}
    BY <2>4, <2>9
  <2>12. contributions' = [contributions EXCEPT ![c] = row]
    BY <2>4, <2>6
  <2> QED
    BY <2>5, <2>7, <2>8, <2>10, <2>11, <2>12, EntryPaid
<1> QED
  BY <1>1, <1>2

LEMMA OnBalancePaid ==
  ASSUME IInv, PaidInv, NEW r \in requests, r.on = "OnBalance", OnBalance(r)
  PROVE  PaidInv'
<1>1. /\ r.item \in Items /\ r.amount \in Nat /\ r.funds \in Nat
      /\ external \in Nat /\ r \in InFlight /\ r.on \in ItemHandlers
  BY RequestParts DEF IInv, TypeOK, InFlight, ItemHandlers
<1>2. Asked({r}, {}) /\ UNCHANGED <<tokens, redeemedFor>>
  BY DEF OnBalance, servers
<1>3. \A N : Await({}, N) => InFlight' = (InFlight \ {r}) \cup N
  BY <1>2, AfterRequest DEF IInv
<1>4. PICK seen \in {0, external} :
        Process(r, [tokens |-> r.funds, external |-> seen])
  BY DEF OnBalance
<1> DEFINE balance == [tokens |-> r.funds, external |-> seen]
           total   == balance.tokens + balance.external
           amount  == IF r.amount > total THEN total ELSE r.amount
           m == [on |-> "OnMarkContributionQueueAsComplete",
                 caller |-> r.caller, item |-> r.item]
<1>5. balance \in Balances
  BY <1>1 DEF Balances
<1>6. amount \in Nat
  BY <1>1
<1>7. \/ Await({}, {} \cup {m}) /\ UNCHANGED contributions
      \/ CreateNewEntry({}, r, "", balance, amount)
  BY <1>4 DEF Process, MarkContributionQueueAsComplete
<1>8. m.on \in ItemHandlers
  BY DEF ItemHandlers
<1> HIDE DEF balance, amount, m
<1>9. CASE Await({}, {} \cup {m}) /\ UNCHANGED contributions
  <2>1. \A n \in InFlight' : n \in InFlight \/ n.on \in ItemHandlers
    BY <1>3, <1>8, <1>9
  <2> QED
    BY <1>2, <1>9, <2>1, ItemReads DEF IInv
<1>10. CASE CreateNewEntry({}, r, "", balance, amount)
  BY <1>1, <1>2, <1>3, <1>5, <1>6, <1>10, CreateNewEntryPaid
<1> QED
  BY <1>7, <1>9, <1>10

LEMMA OnQueueSavedPaid ==
  ASSUME IInv, PaidInv, NEW r \in replies, r.on = "OnQueueSaved",
         OnQueueSaved(r)
  PROVE  PaidInv'
<1>1. /\ r.item \in Items /\ r.balance \in Balances /\ r.rest \in Nat
      /\ r \in InFlight /\ r.on \in ItemHandlers
  BY ReplyParts DEF IInv, TypeOK, InFlight, ItemHandlers
<1>2. \A N : Await({r}, N) => InFlight' = (InFlight \ {r}) \cup N
  BY AfterReply DEF IInv, OnQueueSaved
<1>3. CreateNewEntry({r}, r, r.wallet, r.balance, r.rest)
      /\ UNCHANGED <<tokens, redeemedFor>>
  BY DEF OnQueueSaved, servers
<1> QED
  BY <1>1, <1>2, <1>3, CreateNewEntryPaid

-----------------------------------------------------------------------------
(* The specification.                                                      *)

LEMMA InitPaid == Init => PaidInv
<1> SUFFICES ASSUME Init, NEW c \in Contributions PROVE Secured(c)
  BY DEF PaidInv
<1>1. ~PaysWithTokens(c) /\ Continuations(c) = {}
  BY DEF Init, PaysWithTokens, Exists, Continuations
<1>2. Owned(c) = {} /\ SpentFor(c) = {}
  BY ContributionsAssumption DEF Init, FreshToken, Owned, SpentFor
<1> QED
  BY <1>1, <1>2 DEF Secured, TokensOf

LEMMA HandlersPaid ==
  ASSUME IInv, PaidInv, NEW r \in replies, Handlers(r)
  PROVE  PaidInv'
<1>1. CASE \/ QueueSaved(r) \/ OnProcessContributionQueue(r)
           \/ OnMarkContributionQueueAsComplete(r)
  BY <1>1, AsidePaid
<1>2. CASE \/ r.on = "ContributionAmountSaved" /\ ContributionAmountSaved(r)
           \/ r.on = "Completed" /\ Completed(r)
  BY <1>2, ResultsPaid DEF InFlight, ItemHandlers
<1> QED
  BY <1>1, <1>2, NotSavedPaid, OnEntrySavedPaid, OnQueueSavedPaid,
    PrepareTokensPaid,
    OnMarkUnblindedTokensAsReservedPaid, OnPrepareAutoContributionPaid,
    PrepareStepSavedPaid, OnProcessTokensPaid, TokenProcessedPaid,
    ContributionInfoPaid, OnServerPublisherInfoPaid, OnResultPaid,
    ContributionCompletedSavedPaid, SetRetryCounterPaid, RetryPaid,
    OnReservedUnblindedTokensForRetryAttemptPaid
  DEF Handlers

LEMMA RequestsPaid ==
  ASSUME IInv, PaidInv, NEW r \in requests,
         Answered(r) \/ Failed(r) \/ Served(r)
  PROVE  PaidInv'
<1>1. CASE OnBalanceFailed(r)
  BY <1>1, AsidePaid
<1>2. CASE \/ r.on = "OnRedeemTokens" /\ OnRedeemTokensFailed(r)
           \/ r.on = "OnCommitTransaction" /\ OnCommitTransactionFailed(r)
  BY <1>2, ResultsPaid DEF InFlight, ItemHandlers
<1> QED
  BY <1>1, <1>2, OnBalancePaid, OnRedeemTokensPaid, OnCommitTransactionPaid,
    ServerRedeemsPaid, ProviderTransfersPaid
  DEF Answered, Failed, Served

LEMMA NextPaid == IInv /\ PaidInv /\ [Next]_vars => PaidInv'
<1> SUFFICES ASSUME IInv, PaidInv, [Next]_vars PROVE PaidInv'
  OBVIOUS
<1>1. CASE UNCHANGED vars
  <2>1. UNCHANGED <<contributions, tokens, redeemedFor>>
        /\ \A n \in InFlight' : n \in InFlight
    BY <1>1 DEF vars, database, servers, InFlight
  <2> QED
    BY <2>1, ItemReads DEF IInv
<1>2. CASE \/ \E i \in Items : \/ OneTimeTip(i)
                               \/ StartMonthlyContribution(i)
                               \/ StartAutoContribute(i)
           \/ QueueTimerElapsed
           \/ \E c \in Contributions : OnRetryTimerElapsed(c)
           \/ SetAutoContributeEnabled
           \/ DiskFills \/ DiskIsFreed
           \/ Restart
  BY <1>2, AsidePaid
<1> QED
  BY <1>1, <1>2, HandlersPaid, RequestsPaid DEF Next

\* What is spent names the contribution it was spent for.
SpentHasOwner == \A t \in Tokens : tokens[t].spent => tokens[t].owner # NoOwner

LEMMA NextOwned == IInv /\ SpentHasOwner /\ [Next]_vars => SpentHasOwner'
<1> SUFFICES ASSUME IInv, SpentHasOwner, [Next]_vars PROVE SpentHasOwner'
  OBVIOUS
<1>1. CASE tokens' = tokens
  BY <1>1 DEF SpentHasOwner
<1>2. ASSUME NEW r \in replies, PrepareTokens(r)
      PROVE  SpentHasOwner'
  <2>1. \/ tokens' = tokens
        \/ \E ids : tokens' = MarkRecordListAsReserved(tokens, ids, r.c)
    BY <1>2 DEF PrepareTokens, Written
  <2>2. ASSUME NEW ids, tokens' = MarkRecordListAsReserved(tokens, ids, r.c)
        PROVE  SpentHasOwner'
    <3>1. ASSUME NEW t \in Tokens, tokens'[t].spent
          PROVE  tokens'[t] = tokens[t]
      BY <2>2, <3>1 DEF MarkRecordListAsReserved, IInv, TypeOK
    <3> QED
      BY <3>1 DEF SpentHasOwner
  <2> QED
    BY <1>1, <2>1, <2>2
<1>3. ASSUME NEW r \in requests, r.on = "OnRedeemTokens", OnRedeemTokens(r)
      PROVE  SpentHasOwner'
  <2>1. r.c # NoOwner
    BY <1>3, RequestParts, ContributionsAssumption
    DEF IInv, TypeOK, ItemHandlers
  <2>2. \/ tokens' = MarkRecordListAsSpent(tokens, r.ids, r.c)
        \/ tokens' = tokens
    BY <1>3 DEF OnRedeemTokens, Written
  <2>3. \A t \in Tokens : tokens'[t] = tokens[t] \/ tokens'[t].owner = r.c
    BY <2>2 DEF MarkRecordListAsSpent, IInv, TypeOK
  <2> QED
    BY <2>1, <2>3 DEF SpentHasOwner
<1>4. ASSUME NEW r \in replies, ContributionCompletedSaved(r)
      PROVE  SpentHasOwner'
  <2>1. \A t \in Tokens : tokens'[t] = tokens[t] \/ ~tokens'[t].spent
    BY <1>4 DEF ContributionCompletedSaved, Written,
      MarkRecordListAsSpendable, FreshToken
  <2> QED
    BY <2>1 DEF SpentHasOwner
<1>5. CASE UNCHANGED vars
  BY <1>1, <1>5 DEF vars, database
<1>6. ASSUME NEW r \in replies, Handlers(r), ~PrepareTokens(r),
             ~ContributionCompletedSaved(r)
      PROVE  tokens' = tokens
  BY <1>6, Zenon DEF Handlers, NotSaved, QueueSaved, OnProcessContributionQueue,
    OnEntrySaved, OnQueueSaved, OnMarkContributionQueueAsComplete,
    OnMarkUnblindedTokensAsReserved, OnPrepareAutoContribution,
    PrepareStepSaved, OnProcessTokens, TokenProcessed,
    ContributionAmountSaved, ContributionInfo, OnServerPublisherInfo,
    Completed, OnResult, SetRetryCounter, Retry,
    OnReservedUnblindedTokensForRetryAttempt, database
<1>7. ASSUME NEW r \in requests, Answered(r) \/ Failed(r) \/ Served(r),
             ~(r.on = "OnRedeemTokens" /\ OnRedeemTokens(r))
      PROVE  tokens' = tokens
  BY <1>7, Zenon DEF Answered, Failed, Served, OnBalance, OnCommitTransaction,
    OnBalanceFailed, OnRedeemTokensFailed, OnCommitTransactionFailed,
    ServerRedeems, ProviderTransfers, database
<1>8. CASE \/ \E i \in Items : \/ OneTimeTip(i)
                               \/ StartMonthlyContribution(i)
                               \/ StartAutoContribute(i)
           \/ QueueTimerElapsed
           \/ \E c \in Contributions : OnRetryTimerElapsed(c)
           \/ SetAutoContributeEnabled
           \/ DiskFills \/ DiskIsFreed
           \/ Restart
  <2>1. tokens' = tokens
    BY <1>8, Zenon DEF OneTimeTip, StartMonthlyContribution,
      StartAutoContribute, QueueTimerElapsed, OnRetryTimerElapsed,
      SetAutoContributeEnabled, DiskFills, DiskIsFreed, Restart, database
  <2> QED
    BY <1>1, <2>1
<1> QED
  BY <1>1, <1>2, <1>3, <1>4, <1>5, <1>6, <1>7, <1>8 DEF Next

\* Every contribution paid with tokens is backed by as many as its amount or
\* has none reserved, whatever is in flight for it, was retried, interrupted or
\* could not be written; and what is marked as redeemed names the contribution
\* it was redeemed for.
THEOREM PaidInvariance == Spec => [](PaidInv /\ SpentHasOwner)
<1>1. Init => SpentHasOwner
  BY DEF Init, FreshToken, SpentHasOwner
<1> QED
  BY <1>1, InitPaid, NextPaid, NextOwned, Invariance, PTL DEF Spec

\* A contribution shown as completed has redeemed exactly as many tokens as
\* its amount, and every row marked as redeemed was redeemed at the server for
\* a publisher of the contribution it names (contribution_unblinded.cc): no
\* restart, retry, failed write or partial payment loses a token or counts one
\* twice.
THEOREM PaidWithRedeemedTokensAlways == Spec => []PaidWithRedeemedTokens
<1>1. IInv /\ PaidInv /\ SpentHasOwner => PaidWithRedeemedTokens
  <2> SUFFICES ASSUME IInv, PaidInv, SpentHasOwner
               PROVE  PaidWithRedeemedTokens
    OBVIOUS
  <2>1. ASSUME NEW t \in Tokens, tokens[t].spent
        PROVE  \E c \in Contributions, payment \in redeemedFor[t] :
                  /\ tokens[t].owner = c /\ contributions[c] # NoContribution
                  /\ payment.publisher \in contributions[c].publishers
    <3>1. PICK c \in Contributions : tokens[t].owner = c
      BY <2>1 DEF SpentHasOwner, IInv, TypeOK
    <3>2. TokensOf(c) /\ t \in SpentFor(c) /\ t \in Owned(c)
      BY <2>1, <3>1 DEF PaidInv, Secured, SpentFor, Owned
    <3>3. Exists(c)
      BY <3>2 DEF TokensOf, PaysWithTokens
    <3>4. PICK payment \in redeemedFor[t] :
            payment.publisher \in contributions[c].publishers
      BY <3>2 DEF TokensOf
    <3> QED
      BY <3>1, <3>3, <3>4 DEF Exists
  <2>2. ASSUME NEW c \in Contributions, contributions[c] # NoContribution,
               contributions[c].processor = "BRAVE_TOKENS",
               contributions[c].step = "COMPLETED"
        PROVE  Cardinality(SpentFor(c)) = contributions[c].amount
    BY <2>2 DEF PaidInv, Secured, PaysWithTokens, Exists, Backed
  <2> QED
    BY <2>1, <2>2 DEF PaidWithRedeemedTokens
<1> QED
  BY <1>1, Invariance, PaidInvariance, PTL
=============================================================================
