-------------------------- MODULE AdsAccountProofs ---------------------------
(***************************************************************************)
(* Everything the runs check of the ads account as an invariant holds for  *)
(* every value of the constants: TypeOK, OpenIsInOnePlace,                 *)
(* TokensAreSpentOnce, QueueIsServed, EarningsAreKept,                     *)
(* ReconciledWasCredited, PayoutGoesOn and RefillGoesOn.  They are proved  *)
(* together, from one inductive invariant, IInv.  Its parts are about the  *)
(* objects s of the library and little else, so that the lemmas follow the *)
(* methods: what one method leaves behind, then what a handler does.       *)
(***************************************************************************)
EXTENDS AdsAccountProperties, FiniteSetTheorems, WellFoundedInduction, TLAPS

\* What a confirmation may spend, and for what.
Claim(c) == [tx |-> c.tx, token |-> c.token]

Waiting(s) == {r.c : r \in s.requests}
Building(s) == {b.c : b \in s.building}
Dangling(s) == {b.c : b \in s.dangling}
InQueue(s) == {s.failed[i] : i \in DOMAIN s.failed}

TxsOf(cs) == {c.tx : c \in cs}
Open(s) == TxsOf(InQueue(s)) \cup TxsOf(Waiting(s)) \cup TxsOf(Building(s))
Claims(s) ==
  {Claim(c) : c \in InQueue(s) \cup Waiting(s) \cup Building(s)
                    \cup Dangling(s)}

\* No transaction has two confirmations.
PlacesOK(s) ==
  /\ \A i, j \in DOMAIN s.failed : s.failed[i].tx = s.failed[j].tx => i = j
  /\ \A r1, r2 \in s.requests : r1.c.tx = r2.c.tx => r1 = r2
  /\ \A b1, b2 \in s.building : b1.c.tx = b2.c.tx => b1 = b2
  /\ TxsOf(InQueue(s)) \cap TxsOf(Waiting(s)) = {}
  /\ TxsOf(InQueue(s)) \cap TxsOf(Building(s)) = {}
  /\ TxsOf(Waiting(s)) \cap TxsOf(Building(s)) = {}

\* Tokens in hand have not been presented, those of confirmations only for
\* their own transaction, and no two transactions claim the same token.
TokensOK(unblinded, claims, n, spent) ==
  /\ unblinded \subseteq 1..n
  /\ \A t \in Tokens :
       /\ \A tx1, tx2 \in spent[t] : tx1 = tx2
       /\ t \in unblinded \/ t > n => spent[t] = {}
  /\ \A d \in claims :
       d.token # NoToken =>
         /\ d.token \in 1..n /\ d.token \notin unblinded
         /\ spent[d.token] \subseteq {d.tx}
         /\ \A e \in claims : e.token = d.token => e.tx = d.tx

\* Only conversions wait for user data, and nothing is claimed before.
BuildingOK(s) ==
  \A b \in s.building :
    /\ b.c.tx \in Conversions
    /\ b.on = "Confirm" => b.c.token = NoToken

ServedOK(s) ==
  (\E c \in InQueue(s) : c.tx \notin Conversions) =>
    s.retryTimer \/ s.requests # {}

\* A refill under way never brings more than there is room for.
RefillOK(s, captcha) ==
  /\ Cardinality(s.unblinded) <= MaximumTokens
  /\ s.refill.asked # "" \/ s.refill.timer =>
       Cardinality(s.unblinded) + s.refill.count <= MaximumTokens
  /\ s.refill.processing => s.refill.asked # "" \/ s.refill.timer \/ captcha

\* One of the timer, the request and the retry timer, once there is a wallet.
PayoutOK(s) ==
  LET p == s.payout
  IN  /\ p.credited => p.sent # {}
      /\ p.timer => ~p.retryTimer /\ p.sent = {} /\ ~p.processing
      /\ p.retryTimer => p.sent = {}
      /\ p.wallet = 0 => p.sent = {} /\ ~p.timer /\ ~p.retryTimer
      /\ p.wallet # 0 => p.sent # {} \/ p.timer \/ p.retryTimer

EarningsOK(s, became, paid) ==
  /\ \A p \in s.payments : became[p.tx] = "earned"
  /\ \A tx \in Transactions : became[tx] = "earned" =>
       tx \in paid \/ \E p \in s.payments : p.tx = tx
  /\ s.payout.credited => \A p \in s.payout.sent : p.tx \in paid

\* What a reset has left behind is of transactions it has removed.
DanglingOK(s, became) ==
  /\ \A b1, b2 \in s.dangling : b1.c.tx = b2.c.tx => b1 = b2
  /\ \A b \in s.dangling : b.c.tx \in Conversions /\ became[b.c.tx] = "reset"

\* No confirmation is doubled, those of the transactions opens are there, and
\* what they claim is in order.
Kempt(s, opens, n, spent) ==
  /\ s \in Accounts
  /\ PlacesOK(s) /\ Open(s) = opens /\ BuildingOK(s)
  /\ TokensOK(s.unblinded, Claims(s), n, spent)

\* What the confirmations do not touch.
BooksOK(s, captcha, became, paid) ==
  /\ RefillOK(s, captcha) /\ PayoutOK(s) /\ EarningsOK(s, became, paid)
  /\ DanglingOK(s, became)

Opened(became) == {tx \in Transactions : became[tx] = "open"}

\* The inductive invariant.
IInv ==
  /\ TypeOK
  /\ Kempt(account, Opened(fate), issued, spentOn)
  /\ ServedOK(account)
  /\ BooksOK(account, captchaShown, fate, credited)
  /\ ReconciledWasCredited


-----------------------------------------------------------------------------
(* Sets of tokens.                                                         *)

LEMMA TokensFinite ==
  ASSUME NEW unblinded \in SUBSET Tokens
  PROVE  IsFiniteSet(unblinded) /\ Cardinality(unblinded) \in Nat
<1>1. IsFiniteSet(Tokens)
  BY FS_Interval, TokensAssumption DEF Tokens
<1>2. IsFiniteSet(unblinded)
  BY <1>1, FS_Subset
<1> QED BY <1>2, FS_CardinalityType

LEMMA FewerTokens ==
  ASSUME NEW unblinded \in SUBSET Tokens, NEW fewer \in SUBSET unblinded
  PROVE  Cardinality(fewer) <= Cardinality(unblinded)
BY TokensFinite, FS_Subset

LEMMA MoreTokens ==
  ASSUME NEW unblinded \in SUBSET Tokens, NEW tokens \in SUBSET Tokens,
         NEW room \in Nat,
         Cardinality(unblinded) + Cardinality(tokens) <= room
  PROVE  Cardinality(unblinded \cup tokens) <= room
<1> DEFINE m == Cardinality(unblinded)
           k == Cardinality(tokens)
           both == Cardinality(unblinded \cap tokens)
           all == Cardinality(unblinded \cup tokens)
<1>1. /\ IsFiniteSet(unblinded) /\ IsFiniteSet(tokens)
      /\ IsFiniteSet(unblinded \cap tokens)
  BY TokensFinite, FS_Subset
<1>2. all = m + k - both
  BY <1>1, FS_Union
<1>3. m \in Nat /\ k \in Nat /\ both \in Nat
  BY <1>1, FS_CardinalityType
<1> HIDE DEF m, k, both, all
<1>4. m + k <= room
  BY DEF m, k
<1>5. all <= room
  BY <1>2, <1>3, <1>4
<1> QED BY <1>5 DEF all

LEMMA NewTokens ==
  ASSUME NEW n \in 0..MaxTokens, NEW count \in 0..MaximumTokens,
         n + count <= MaxTokens
  PROVE  LET last == n + count
         IN  /\ last \in n..MaxTokens /\ last \in 0..MaxTokens
             /\ n + 1 .. last \in SUBSET Tokens
             /\ Cardinality(n + 1 .. last) = count
<1> DEFINE last == n + count
           first == n + 1
<1>1. /\ n \in Nat /\ count \in Nat
  BY TokensAssumption
<1>2. last \in n..MaxTokens /\ last \in 0..MaxTokens
  BY <1>1, TokensAssumption
<1>3. first .. last \in SUBSET Tokens
  BY <1>1, <1>2, TokensAssumption DEF Tokens
<1>4. first \in Int /\ last \in Int
  BY <1>1
<1>5. Cardinality(first .. last) =
        IF first > last THEN 0 ELSE last - first + 1
  BY <1>4, FS_Interval
<1>6. (IF first > last THEN 0 ELSE last - first + 1) = count
  BY <1>1
<1> QED BY <1>2, <1>3, <1>5, <1>6

LEMMA MinIsToken ==
  ASSUME NEW unblinded \in SUBSET Tokens, unblinded # {}
  PROVE  Min(unblinded) \in unblinded
<1>1. unblinded \subseteq Nat
  BY DEF Tokens
<1>2. PICK x \in unblinded :
        \A y \in unblinded : ~ (<<y, x>> \in OpToRel(<, Nat))
  BY <1>1, NatLessThanWellFounded, WFMin, Zenon
<1>3. \A y \in unblinded : ~ (y < x)
  BY <1>1, <1>2, Zenon DEF OpToRel
<1>4. \A y \in unblinded : x <= y
  BY <1>1, <1>3
<1> QED BY <1>4 DEF Min

-----------------------------------------------------------------------------
(* What the methods leave behind.                                          *)

\* The refill goes on as it was, or has been asked for.
RefillKept(s, t) ==
  \/ t.refill = s.refill
  \/ /\ t.refill.asked # ""
     /\ Cardinality(t.unblinded) <= MaximumTokens
     /\ t.refill.count = MaximumTokens - Cardinality(t.unblinded)

\* The refill and the retry timer apart, nothing has changed.
SameLists(s, t) ==
  /\ t \in Accounts
  /\ t.failed = s.failed /\ t.building = s.building
  /\ t.dangling = s.dangling
  /\ t.requests = s.requests /\ t.unblinded = s.unblinded
  /\ t.payments = s.payments /\ t.payout = s.payout

LEMMA RequestAsks ==
  ASSUME NEW s \in Accounts, Cardinality(s.unblinded) <= MaximumTokens
  PROVE  LET t == RequestSignedTokens(s)
         IN  /\ SameLists(s, t) /\ t.retryTimer = s.retryTimer
             /\ t.refill.asked # ""
             /\ t.refill.count = MaximumTokens - Cardinality(t.unblinded)
             /\ t.refill.processing = s.refill.processing
<1> DEFINE r == [s.refill EXCEPT !.asked = "RequestSignedTokens",
                                 !.count = MaximumTokens
                                             - Cardinality(s.unblinded)]
           t == [s EXCEPT !.refill = r]
<1>1. RequestSignedTokens(s) = t
  BY DEF RequestSignedTokens, Accounts, Refills
<1>2. Cardinality(s.unblinded) \in Nat /\ MaximumTokens \in Nat
  BY TokensFinite, TokensAssumption DEF Accounts
<1>3. /\ r \in Refills /\ r.asked # "" /\ r.processing = s.refill.processing
      /\ r.count = MaximumTokens - Cardinality(s.unblinded)
  <2>1. MaximumTokens - Cardinality(s.unblinded) \in 0..MaximumTokens
    BY <1>2
  <2> QED BY <2>1 DEF Refills, Accounts
<1> HIDE DEF r
<1>4. t \in Accounts /\ t.refill = r /\ SameLists(s, t)
      /\ t.retryTimer = s.retryTimer
  BY <1>3 DEF Accounts, SameLists
<1> QED BY <1>1, <1>3, <1>4 DEF SameLists

LEMMA TopUpEffect ==
  ASSUME NEW s \in Accounts
  PROVE  LET t == TopUpUnblindedTokens(s)
         IN  SameLists(s, t) /\ RefillKept(s, t) /\ t.retryTimer = s.retryTimer
<1> DEFINE r == [s.refill EXCEPT !.processing = TRUE, !.nonce = FALSE]
           u == [s EXCEPT !.refill = r]
<1>1. u = [s EXCEPT !.refill.processing = TRUE, !.refill.nonce = FALSE]
  BY DEF Accounts, Refills
<1>2. CASE TopUpUnblindedTokens(s) = s
  BY <1>2 DEF SameLists, RefillKept
<1>3. CASE /\ Cardinality(s.unblinded) < MinimumTokens
           /\ TopUpUnblindedTokens(s) = RequestSignedTokens(u)
  <2>1. r \in Refills
    BY DEF Refills, Accounts
  <2> HIDE DEF r
  <2>2. u \in Accounts /\ SameLists(s, u) /\ u.retryTimer = s.retryTimer
    BY <2>1 DEF Accounts, SameLists
  <2>3. Cardinality(s.unblinded) <= MaximumTokens
    BY <1>3, TokensFinite, TokensAssumption DEF Accounts
  <2> HIDE DEF u
  <2> DEFINE t == RequestSignedTokens(u)
  <2>4. /\ SameLists(u, t) /\ t.retryTimer = u.retryTimer
        /\ t.refill.asked # ""
        /\ t.refill.count = MaximumTokens - Cardinality(t.unblinded)
    BY <2>2, <2>3, RequestAsks DEF SameLists
  <2> HIDE DEF t
  <2> QED BY <1>3, <2>2, <2>3, <2>4 DEF SameLists, RefillKept, t
<1>4. \/ TopUpUnblindedTokens(s) = s
      \/ /\ ~(Cardinality(s.unblinded) >= MinimumTokens)
         /\ TopUpUnblindedTokens(s) = RequestSignedTokens(u)
  BY <1>1 DEF TopUpUnblindedTokens, MaybeRefill
<1>5. Cardinality(s.unblinded) \in Nat
  BY TokensFinite DEF Accounts
<1> QED BY <1>2, <1>3, <1>4, <1>5, TokensAssumption

\* The retry timer apart, nothing has changed.
SameButTimer(s, t) == SameLists(s, t) /\ t.refill = s.refill

LEMMA TimerEffect ==
  ASSUME NEW s \in Accounts
  PROVE  /\ SameButTimer(s, StopRetrying(s))
         /\ SameButTimer(s, ProcessRetryQueue(s))
         /\ ProcessRetryQueue(s).retryTimer =
              (s.retryTimer \/ s.failed # <<>>)
BY DEF StopRetrying, ProcessRetryQueue, SameButTimer, SameLists, Accounts

\* What handlers of confirmations do not touch.
Kept(s, t) ==
  /\ t \in Accounts
  /\ t.payments = s.payments /\ t.payout = s.payout
  /\ t.dangling = s.dangling
  /\ t.unblinded \subseteq s.unblinded /\ RefillKept(s, t)

\* No confirmation has come or gone.
Left(s, t) ==
  /\ Kept(s, t)
  /\ t.failed = s.failed /\ t.building = s.building
  /\ t.requests = s.requests /\ t.unblinded = s.unblinded

\* The confirmation keeps its token, or is made anew with one in hand.
Takes(s, t, c, d) ==
  /\ d.tx = c.tx
  /\ \/ d.token = c.token /\ t.unblinded = s.unblinded
     \/ /\ d.token \in s.unblinded \cup {NoToken}
        /\ t.unblinded = s.unblinded \ {d.token}

\* It is put in one place.
Puts(s, t, d) ==
  \/ /\ t.failed = Append(s.failed, d)
     /\ t.building = s.building /\ t.requests = s.requests
  \/ /\ d.tx \in Conversions
     /\ \E on \in {"Confirm", "Append"} :
          /\ on = "Confirm" => d.token = NoToken
          /\ t.building = s.building \cup {[on |-> on, c |-> d]}
     /\ t.failed = s.failed /\ t.requests = s.requests
  \/ /\ \E on \in {"OnCreateConfirmation", "OnFetchPaymentToken"} :
          t.requests = s.requests \cup {[on |-> on, c |-> d]}
     /\ t.failed = s.failed /\ t.building = s.building

Placed(s, t, c) ==
  /\ Kept(s, t)
  /\ \E d \in Confirmations : Takes(s, t, c, d) /\ Puts(s, t, d)

\* Somebody comes back to the queue.
Served(t) == t.retryTimer \/ t.failed = <<>> \/ t.requests # {}

LEMMA CreateEffect ==
  ASSUME NEW s \in Accounts, NEW tx \in Transactions, CanCreate(s)
  PROVE  LET c == CreateConfirmation(s, tx)
         IN  /\ c \in Confirmations /\ c.tx = tx /\ ~c.wasCreated
             /\ c.token \in s.unblinded \cup {NoToken}
<1>1. s.unblinded \in SUBSET Tokens
  BY DEF Accounts
<1>2. CASE s.enabled
  <2>1. Min(s.unblinded) \in s.unblinded
    BY <1>1, <1>2, MinIsToken DEF CanCreate
  <2> QED BY <1>1, <1>2, <2>1 DEF CreateConfirmation, Confirmations
<1>3. CASE ~s.enabled
  BY <1>3 DEF CreateConfirmation, Confirmations
<1> QED BY <1>2, <1>3

LEMMA RemoveEffect ==
  ASSUME NEW s \in Accounts, NEW c
  PROVE  LET t == RemoveUnblindedToken(s, c)
         IN  /\ t \in Accounts /\ t.unblinded = s.unblinded \ {c.token}
             /\ t.failed = s.failed /\ t.building = s.building
             /\ t.dangling = s.dangling
             /\ t.requests = s.requests /\ t.payments = s.payments
             /\ t.payout = s.payout /\ t.refill = s.refill
             /\ t.retryTimer = s.retryTimer
BY DEF RemoveUnblindedToken, Accounts

LEMMA AppendEffect ==
  ASSUME NEW s \in Accounts, NEW c \in Confirmations
  PROVE  LET t == AppendToRetryQueue(s, c)
         IN  /\ t \in Accounts /\ t.failed = Append(s.failed, c)
             /\ t.unblinded = s.unblinded /\ t.building = s.building
             /\ t.dangling = s.dangling
             /\ t.requests = s.requests /\ t.payments = s.payments
             /\ t.payout = s.payout /\ t.refill = s.refill
             /\ t.retryTimer = s.retryTimer
<1>1. Append(s.failed, c) \in Seq(Confirmations)
  BY DEF Accounts
<1> QED BY <1>1 DEF AppendToRetryQueue, Accounts

\* Put back into the queue, or behind the user data that are needed.
Requeued(s, t, c) ==
  /\ Placed(s, t, c) /\ t.requests = s.requests
  /\ t.retryTimer = s.retryTimer /\ t.refill = s.refill

LEMMA AppendNewEffect ==
  ASSUME NEW s \in Accounts, NEW c \in Confirmations
  PROVE  Requeued(s, AppendNewConfirmation(s, c), c)
<1> DEFINE new == CreateConfirmation(s, c.tx)
           mine == RemoveUnblindedToken(s, new)
           t == AppendToRetryQueue(mine, new)
           same == AppendToRetryQueue(s, c)
<1>1. CASE CanCreate(s)
  <2>1. /\ new \in Confirmations /\ new.tx = c.tx
        /\ new.token \in s.unblinded \cup {NoToken}
    BY <1>1, CreateEffect DEF Confirmations
  <2>2. AppendNewConfirmation(s, c) = t
    BY <1>1 DEF AppendNewConfirmation
  <2> HIDE DEF new
  <2>3. /\ mine \in Accounts /\ mine.unblinded = s.unblinded \ {new.token}
        /\ mine.failed = s.failed /\ mine.building = s.building
        /\ mine.dangling = s.dangling
        /\ mine.requests = s.requests /\ mine.payments = s.payments
        /\ mine.payout = s.payout /\ mine.refill = s.refill
        /\ mine.retryTimer = s.retryTimer
    BY RemoveEffect
  <2> HIDE DEF mine
  <2>4. /\ t \in Accounts /\ t.failed = Append(s.failed, new)
        /\ t.unblinded = s.unblinded \ {new.token}
        /\ t.building = s.building /\ t.requests = s.requests
        /\ t.dangling = s.dangling
        /\ t.payments = s.payments /\ t.payout = s.payout
        /\ t.refill = s.refill /\ t.retryTimer = s.retryTimer
    BY <2>1, <2>3, AppendEffect
  <2> HIDE DEF t
  <2>5. Takes(s, t, c, new) /\ Puts(s, t, new)
    BY <2>1, <2>4 DEF Takes, Puts
  <2> QED BY <2>1, <2>2, <2>4, <2>5 DEF Requeued, Placed, Kept, RefillKept
<1>2. CASE ~CanCreate(s)
  <2>1. AppendNewConfirmation(s, c) = same
    BY <1>2 DEF AppendNewConfirmation
  <2>2. /\ same \in Accounts /\ same.failed = Append(s.failed, c)
        /\ same.unblinded = s.unblinded /\ same.building = s.building
        /\ same.dangling = s.dangling
        /\ same.requests = s.requests /\ same.payments = s.payments
        /\ same.payout = s.payout /\ same.refill = s.refill
        /\ same.retryTimer = s.retryTimer
    BY AppendEffect
  <2> HIDE DEF same
  <2>3. Takes(s, same, c, c) /\ Puts(s, same, c)
    BY <2>2 DEF Takes, Puts
  <2> QED BY <2>1, <2>2, <2>3 DEF Requeued, Placed, Kept, RefillKept
<1> QED BY <1>1, <1>2

LEMMA RequeueEffect ==
  ASSUME NEW s \in Accounts, NEW c \in Confirmations
  PROVE  Requeued(s, CreateNewConfirmationAndAppendToRetryQueue(s, c), c)
<1>1. CASE c.tx \in Conversions
  <2> DEFINE b == [on |-> "Append", c |-> c]
             t == [s EXCEPT !.building = @ \cup {b}]
  <2>1. CreateNewConfirmationAndAppendToRetryQueue(s, c) = t
    BY <1>1 DEF CreateNewConfirmationAndAppendToRetryQueue
  <2>2. b \in [on : {"Confirm", "Append"}, c : Confirmations]
    OBVIOUS
  <2> HIDE DEF b
  <2>3. /\ t \in Accounts /\ t.building = s.building \cup {b}
        /\ t.dangling = s.dangling
        /\ t.failed = s.failed /\ t.unblinded = s.unblinded
        /\ t.requests = s.requests /\ t.payments = s.payments
        /\ t.payout = s.payout /\ t.refill = s.refill
        /\ t.retryTimer = s.retryTimer
    BY <2>2 DEF Accounts
  <2> HIDE DEF t
  <2>4. Takes(s, t, c, c) /\ Puts(s, t, c)
    BY <1>1, <2>3 DEF Takes, Puts, b
  <2> QED BY <2>1, <2>3, <2>4 DEF Requeued, Placed, Kept, RefillKept
<1>2. CASE c.tx \notin Conversions
  BY <1>2, AppendNewEffect DEF CreateNewConfirmationAndAppendToRetryQueue
<1> QED BY <1>1, <1>2

\* The end of a handler: the tokens are topped up, the queue is looked at.
LEMMA WindUpEffect ==
  ASSUME NEW s \in Accounts, NEW t,
         \/ t = ProcessRetryQueue(TopUpUnblindedTokens(s))
         \/ t = ProcessRetryQueue(StopRetrying(TopUpUnblindedTokens(s)))
  PROVE  Left(s, t) /\ Served(t)
<1> DEFINE u == TopUpUnblindedTokens(s)
<1>1. SameLists(s, u) /\ RefillKept(s, u) /\ u \in Accounts
  BY TopUpEffect DEF SameLists
<1> HIDE DEF u
<1>2. PICK v \in Accounts : SameButTimer(u, v) /\ t = ProcessRetryQueue(v)
  <2>1. CASE t = ProcessRetryQueue(u)
    BY <1>1, <2>1 DEF SameButTimer, SameLists
  <2>2. CASE t = ProcessRetryQueue(StopRetrying(u))
    BY <1>1, <2>2, TimerEffect DEF SameButTimer, SameLists
  <2> QED BY <2>1, <2>2 DEF u
<1>3. SameButTimer(v, t) /\ (t.retryTimer \/ v.failed = <<>>)
  BY <1>2, TimerEffect
<1> QED BY <1>1, <1>2, <1>3
        DEF Left, Kept, Served, SameButTimer, SameLists, RefillKept

LEMMA KeepsPlace ==
  ASSUME NEW s, NEW c, NEW t, NEW u, Requeued(s, t, c), Left(t, u)
  PROVE  Placed(s, u, c)
BY DEF Requeued, Placed, Left, Kept, RefillKept, Takes, Puts

LEMMA FailedToRedeemEffect ==
  ASSUME NEW s \in Accounts, NEW c \in Confirmations,
         NEW shouldRetry \in BOOLEAN, NEW shouldBackoff \in BOOLEAN
  PROVE  LET t == OnFailedToRedeemUnblindedToken(s, c, shouldRetry,
                                                 shouldBackoff)
         IN  /\ Served(t)
             /\ shouldRetry => Placed(s, t, c)
             /\ ~shouldRetry => Left(s, t)
<1> DEFINE t == OnFailedToRedeemUnblindedToken(s, c, shouldRetry,
                                               shouldBackoff)
<1>1. PICK queued \in Accounts :
        /\ shouldRetry => Requeued(s, queued, c)
        /\ ~shouldRetry => queued = s
        /\ \/ t = ProcessRetryQueue(TopUpUnblindedTokens(queued))
           \/ t = ProcessRetryQueue(StopRetrying(TopUpUnblindedTokens(queued)))
  <2>1. CASE ~shouldRetry
    BY <2>1 DEF OnFailedToRedeemUnblindedToken
  <2>2. CASE shouldRetry /\ c.wasCreated
    <3>1. Requeued(s, AppendToRetryQueue(s, c), c)
      BY AppendEffect DEF Requeued, Placed, Kept, RefillKept, Takes, Puts
    <3> QED BY <2>2, <3>1
            DEF OnFailedToRedeemUnblindedToken, Requeued, Placed, Kept
  <2>3. CASE shouldRetry /\ ~c.wasCreated
    BY <2>3, RequeueEffect
       DEF OnFailedToRedeemUnblindedToken, Requeued, Placed, Kept
  <2> QED BY <2>1, <2>2, <2>3
<1>2. Left(queued, t) /\ Served(t)
  BY <1>1, WindUpEffect
<1> QED BY <1>1, <1>2, KeepsPlace

LEMMA FailedToSendEffect ==
  ASSUME NEW s \in Accounts, NEW c \in Confirmations,
         NEW shouldRetry \in BOOLEAN
  PROVE  LET t == OnFailedToSendConfirmation(s, c, shouldRetry)
         IN  /\ Served(t)
             /\ shouldRetry => Placed(s, t, c)
             /\ ~shouldRetry => Left(s, t)
<1> DEFINE t == OnFailedToSendConfirmation(s, c, shouldRetry)
           queued == IF shouldRetry THEN AppendToRetryQueue(s, c) ELSE s
<1>1. Requeued(s, AppendToRetryQueue(s, c), c)
  BY AppendEffect DEF Requeued, Placed, Kept, RefillKept, Takes, Puts
<1>2. queued \in Accounts
  BY <1>1 DEF Requeued, Placed, Kept
<1>3. t = ProcessRetryQueue(TopUpUnblindedTokens(queued))
  BY DEF OnFailedToSendConfirmation
<1> HIDE DEF t
<1>4. Left(queued, t) /\ Served(t)
  BY <1>2, <1>3, WindUpEffect
<1> QED BY <1>1, <1>4, KeepsPlace DEF t

LEMMA SentEffect ==
  ASSUME NEW s \in Accounts
  PROVE  Left(s, OnDidSendConfirmation(s)) /\ Served(OnDidSendConfirmation(s))
BY WindUpEffect DEF OnDidSendConfirmation

LEMMA WaitEffect ==
  ASSUME NEW s \in Accounts, NEW c \in Confirmations,
         NEW on \in {"OnCreateConfirmation", "OnFetchPaymentToken"}
  PROVE  Placed(s, Wait(s, on, c), c) /\ Served(Wait(s, on, c))
<1> DEFINE r == [on |-> on, c |-> c]
           t == [s EXCEPT !.requests = @ \cup {r}]
<1>1. r \in [on : {"OnCreateConfirmation", "OnFetchPaymentToken"},
             c : Confirmations]
  OBVIOUS
<1>2. Wait(s, on, c) = t
  BY DEF Wait
<1> HIDE DEF r
<1>3. /\ t \in Accounts /\ t.requests = s.requests \cup {r}
      /\ t.failed = s.failed /\ t.unblinded = s.unblinded
      /\ t.building = s.building /\ t.payments = s.payments
      /\ t.dangling = s.dangling
      /\ t.payout = s.payout /\ t.refill = s.refill
  BY <1>1 DEF Accounts
<1> HIDE DEF t
<1>4. Takes(s, t, c, c) /\ Puts(s, t, c)
  BY <1>3 DEF Takes, Puts, r
<1> QED BY <1>2, <1>3, <1>4 DEF Placed, Kept, RefillKept, Served

LEMMA RedeemEffect ==
  ASSUME NEW s \in Accounts, NEW c \in Confirmations
  PROVE  Placed(s, Redeem(s, c), c) /\ Served(Redeem(s, c))
<1>1. \/ Redeem(s, c) = OnFailedToRedeemUnblindedToken(s, c, TRUE, TRUE)
      \/ Redeem(s, c) = Wait(s, "OnCreateConfirmation", c)
      \/ Redeem(s, c) = Wait(s, "OnFetchPaymentToken", c)
  BY DEF Redeem
<1> QED BY <1>1, FailedToRedeemEffect, WaitEffect

-----------------------------------------------------------------------------
(* Tokens and what they are spent on.                                      *)

LEMMA TokensMono ==
  ASSUME NEW n \in 0..MaxTokens, NEW spent, NEW unblinded, NEW claims,
         TokensOK(unblinded, claims, n, spent),
         NEW fewer \in SUBSET unblinded, NEW left \in SUBSET claims
  PROVE  TokensOK(fewer, left, n, spent)
BY DEF TokensOK

\* A confirmation without a token claims nothing.
LEMMA TokensUnclaimed ==
  ASSUME NEW n, NEW spent, NEW unblinded, NEW claims,
         TokensOK(unblinded, claims, n, spent),
         NEW d, d.token = NoToken
  PROVE  TokensOK(unblinded, claims \cup {d}, n, spent)
BY DEF TokensOK, Tokens, NoToken

\* A token in hand becomes a claim.
LEMMA TokensTaken ==
  ASSUME NEW n \in 0..MaxTokens, NEW spent, NEW unblinded, NEW claims,
         TokensOK(unblinded, claims, n, spent),
         NEW d, d.token \in unblinded
  PROVE  TokensOK(unblinded \ {d.token}, claims \cup {d}, n, spent)
<1>0. unblinded \subseteq 1..n
  BY DEF TokensOK
<1>1. d.token \in 1..n /\ d.token \in Tokens
  <2> DEFINE x == d.token
  <2>1. x \in 1..n
    BY <1>0
  <2> HIDE DEF x
  <2>2. x \in Tokens
    BY <2>1, TokensAssumption DEF Tokens
  <2> QED BY <2>1, <2>2 DEF x
<1>2. spent[d.token] = {}
  BY <1>1 DEF TokensOK
<1>3. \A e \in claims : e.token # NoToken => e.token # d.token
  BY DEF TokensOK
<1>4. d.token # NoToken
  BY <1>1 DEF NoToken
<1> QED BY <1>1, <1>2, <1>3, <1>4 DEF TokensOK

\* What presenting the confirmations cs makes of spent.
Presented(spent, cs) ==
  [t \in Tokens |->
     spent[t] \cup {c.tx : c \in {d \in cs : d.token = t}}]

\* A claimed token is presented.
LEMMA TokensPresented ==
  ASSUME NEW n \in 0..MaxTokens, NEW spent, NEW unblinded, NEW claims,
         TokensOK(unblinded, claims, n, spent),
         NEW cs, \A c \in cs : Claim(c) \in claims
  PROVE  TokensOK(unblinded, claims, n, Presented(spent, cs))
<1> DEFINE after == Presented(spent, cs)
<1>1. \A t \in Tokens : \A tx :
        tx \in after[t] <=>
          tx \in spent[t] \/ \E c \in cs : c.token = t /\ c.tx = tx
  BY DEF Presented
<1>2. ASSUME NEW c \in cs, c.token \in Tokens
      PROVE  /\ c.token \in 1..n /\ c.token \notin unblinded
             /\ spent[c.token] \subseteq {c.tx}
             /\ \A e \in claims : e.token = c.token => e.tx = c.tx
  <2>1. PICK d \in claims : d = Claim(c)
    OBVIOUS
  <2>2. d.token = c.token /\ d.tx = c.tx
    BY <2>1 DEF Claim
  <2>3. d.token # NoToken
    BY <1>2, <2>2 DEF Tokens, NoToken
  <2> QED BY <2>2, <2>3 DEF TokensOK
<1>3. \A c \in cs, d \in cs :
        c.token \in Tokens /\ c.token = d.token => c.tx = d.tx
  BY <1>2 DEF Claim
<1> HIDE DEF after
<1>4. unblinded \subseteq 1..n
  BY DEF TokensOK
<1>5. ASSUME NEW t \in Tokens
      PROVE  /\ \A tx1, tx2 \in after[t] : tx1 = tx2
             /\ t \in unblinded \/ t > n => after[t] = {}
  <2>1. /\ \A tx1, tx2 \in spent[t] : tx1 = tx2
        /\ t \in unblinded \/ t > n => spent[t] = {}
    BY DEF TokensOK
  <2>2. \A tx1, tx2 \in after[t] : tx1 = tx2
    BY <1>1, <1>2, <1>3, <2>1
  <2>3. ASSUME t \in unblinded \/ t > n PROVE \A c \in cs : c.token # t
    BY <1>2, <2>3 DEF Tokens
  <2> QED BY <1>1, <2>1, <2>2, <2>3
<1>6. ASSUME NEW d \in claims, d.token # NoToken
      PROVE  /\ d.token \in 1..n /\ d.token \notin unblinded
             /\ after[d.token] \subseteq {d.tx}
             /\ \A e \in claims : e.token = d.token => e.tx = d.tx
  <2>1. /\ d.token \in 1..n /\ d.token \notin unblinded
        /\ spent[d.token] \subseteq {d.tx}
        /\ \A e \in claims : e.token = d.token => e.tx = d.tx
    BY <1>6 DEF TokensOK
  <2>2. d.token \in Tokens
    BY <2>1, TokensAssumption DEF Tokens
  <2>3. \A c \in cs : c.token = d.token => c.tx = d.tx
    BY <2>1 DEF Claim
  <2> QED BY <1>1, <2>1, <2>2, <2>3
<1> QED BY <1>4, <1>5, <1>6 DEF TokensOK, after

\* The server hands out tokens nobody has seen.
LEMMA TokensIssued ==
  ASSUME NEW n \in 0..MaxTokens, NEW last \in n..MaxTokens,
         NEW spent, NEW unblinded, NEW claims,
         TokensOK(unblinded, claims, n, spent)
  PROVE  TokensOK(unblinded \cup (n + 1 .. last), claims, last, spent)
<1>1. unblinded \cup (n + 1 .. last) \subseteq 1..last
  BY TokensAssumption DEF TokensOK
<1>2. \A t \in Tokens : t \in n + 1 .. last \/ t > last => t > n
  BY TokensAssumption DEF Tokens
<1>3. \A t \in 1..n : t \in 1..last /\ t \notin n + 1 .. last
  BY TokensAssumption
<1> QED BY <1>1, <1>2, <1>3 DEF TokensOK

-----------------------------------------------------------------------------
(* Where confirmations are.                                                *)

\* Everything in order, with the confirmation c in the hand of a handler.
InHand(s, c, opens, n, spent) ==
  /\ s \in Accounts /\ c \in Confirmations
  /\ PlacesOK(s) /\ Open(s) = opens /\ BuildingOK(s)
  /\ c.tx \notin opens
  /\ TokensOK(s.unblinded, Claims(s) \cup {Claim(c)}, n, spent)

LEMMA QueueOfAppend ==
  ASSUME NEW s \in Accounts, NEW t, NEW d \in Confirmations,
         t.failed = Append(s.failed, d),
         d.tx \notin TxsOf(InQueue(s)),
         \A i, j \in DOMAIN s.failed :
           s.failed[i].tx = s.failed[j].tx => i = j
  PROVE  /\ InQueue(t) = InQueue(s) \cup {d}
         /\ \A i, j \in DOMAIN t.failed :
              t.failed[i].tx = t.failed[j].tx => i = j
<1> DEFINE q == s.failed
           p == t.failed
<1>1. /\ q \in Seq(Confirmations) /\ Len(q) \in Nat /\ DOMAIN q = 1..Len(q)
      /\ p \in Seq(Confirmations) /\ DOMAIN p = 1..(Len(q) + 1)
      /\ \A i \in 1..Len(q) : p[i] = q[i]
      /\ p[Len(q) + 1] = d
  BY DEF Accounts
<1>2. \A i \in DOMAIN q : q[i].tx # d.tx
  BY DEF TxsOf, InQueue
<1> HIDE DEF p, q
<1>3. \A i \in DOMAIN p : i \in DOMAIN q \/ i = Len(q) + 1
  BY <1>1
<1>4. \A i \in DOMAIN q : i \in DOMAIN p /\ p[i] = q[i]
  BY <1>1
<1>5. Len(q) + 1 \in DOMAIN p
  BY <1>1
<1>6. {p[i] : i \in DOMAIN p} = {q[i] : i \in DOMAIN q} \cup {d}
  BY <1>1, <1>3, <1>4, <1>5
<1>7. \A i, j \in DOMAIN p : p[i].tx = p[j].tx => i = j
  BY <1>1, <1>2, <1>3, <1>4 DEF q
<1> QED BY <1>6, <1>7 DEF InQueue, p, q

LEMMA QueueOfTail ==
  ASSUME NEW s \in Accounts, NEW t, s.failed # <<>>,
         t.failed = Tail(s.failed),
         \A i, j \in DOMAIN s.failed :
           s.failed[i].tx = s.failed[j].tx => i = j
  PROVE  /\ Head(s.failed) \in Confirmations
         /\ InQueue(s) = InQueue(t) \cup {Head(s.failed)}
         /\ Head(s.failed).tx \notin TxsOf(InQueue(t))
         /\ \A i, j \in DOMAIN t.failed :
              t.failed[i].tx = t.failed[j].tx => i = j
<1> DEFINE q == s.failed
           p == t.failed
<1>1. /\ q \in Seq(Confirmations) /\ Len(q) \in Nat \ {0}
      /\ DOMAIN q = 1..Len(q)
  BY DEF Accounts
<1>2. /\ p = Tail(q) /\ p \in Seq(Confirmations) /\ Len(p) = Len(q) - 1
      /\ DOMAIN p = 1..(Len(q) - 1)
  BY <1>1
<1>3. \A i \in DOMAIN p : i + 1 \in DOMAIN q /\ p[i] = q[i + 1]
  BY <1>1, <1>2
<1>4. Head(q) = q[1] /\ 1 \in DOMAIN q
  BY <1>1
<1>5. \A i \in DOMAIN q : i = 1 \/ (i - 1 \in DOMAIN p /\ p[i - 1] = q[i])
  BY <1>1, <1>2
<1>6. \A i, j \in DOMAIN q : q[i].tx = q[j].tx => i = j
  OBVIOUS
<1> HIDE DEF p, q
<1>7. {q[i] : i \in DOMAIN q} = {p[i] : i \in DOMAIN p} \cup {q[1]}
  BY <1>3, <1>4, <1>5
<1>8. \A i \in DOMAIN p : p[i].tx # q[1].tx
  BY <1>1, <1>2, <1>3, <1>4, <1>6
<1>9. \A i, j \in DOMAIN p : p[i].tx = p[j].tx => i = j
  BY <1>1, <1>2, <1>3, <1>6
<1>10. q[1] \in Confirmations
  BY <1>1, <1>4
<1>11. q[1].tx \notin TxsOf({p[i] : i \in DOMAIN p})
  BY <1>8 DEF TxsOf
<1> QED BY <1>4, <1>7, <1>9, <1>10, <1>11 DEF InQueue, p, q
All(s) == InQueue(s) \cup Waiting(s) \cup Building(s)

LEMMA OpenAndClaims ==
  ASSUME NEW s
  PROVE  /\ Open(s) = TxsOf(All(s))
         /\ Claims(s) = {Claim(c) : c \in All(s) \cup Dangling(s)}
BY DEF Open, Claims, All, TxsOf

LEMMA TakenInHand ==
  ASSUME NEW s, NEW t \in Accounts, NEW c \in Confirmations,
         NEW opens, NEW n, NEW spent, Kempt(s, opens, n, spent),
         All(s) = All(t) \cup {c}, c.tx \notin Open(t),
         PlacesOK(t), BuildingOK(t), t.unblinded = s.unblinded,
         t.dangling = s.dangling
  PROVE  c.tx \in opens /\ InHand(t, c, opens \ {c.tx}, n, spent)
<1>1. Open(s) = Open(t) \cup {c.tx}
  BY OpenAndClaims DEF TxsOf
<1>2. Claims(s) = Claims(t) \cup {Claim(c)}
  BY OpenAndClaims DEF Dangling
<1> QED BY <1>1, <1>2 DEF Kempt, InHand

\* The first of the queue is taken out.
LEMMA DrawnFromQueue ==
  ASSUME NEW s, NEW t \in Accounts,
         NEW opens, NEW n, NEW spent, Kempt(s, opens, n, spent),
         s.failed # <<>>, t.failed = Tail(s.failed),
         t.dangling = s.dangling,
         t.building = s.building, t.requests = s.requests,
         t.unblinded = s.unblinded
  PROVE  LET c == Head(s.failed)
         IN  c.tx \in opens /\ InHand(t, c, opens \ {c.tx}, n, spent)
<1> DEFINE c == Head(s.failed)
<1>1. /\ c \in Confirmations /\ InQueue(s) = InQueue(t) \cup {c}
      /\ c.tx \notin TxsOf(InQueue(t))
      /\ \A i, j \in DOMAIN t.failed :
           t.failed[i].tx = t.failed[j].tx => i = j
  BY QueueOfTail DEF Kempt, PlacesOK
<1> HIDE DEF c
<1>2. Waiting(t) = Waiting(s) /\ Building(t) = Building(s)
  BY DEF Waiting, Building
<1>3. TxsOf(InQueue(s)) = TxsOf(InQueue(t)) \cup {c.tx}
  BY <1>1 DEF TxsOf
<1>4. All(s) = All(t) \cup {c}
  BY <1>1, <1>2 DEF All
<1>5. PlacesOK(t) /\ BuildingOK(t)
  BY <1>1, <1>2, <1>3 DEF Kempt, PlacesOK, BuildingOK
<1>6. c.tx \notin Open(t)
  BY <1>1, <1>2, <1>3 DEF Kempt, PlacesOK, Open
<1> QED BY <1>1, <1>4, <1>5, <1>6, TakenInHand DEF c

\* A request is answered.
LEMMA DrawnFromRequests ==
  ASSUME NEW s, NEW t \in Accounts, NEW r \in s.requests,
         NEW opens, NEW n, NEW spent, Kempt(s, opens, n, spent),
         t.requests = s.requests \ {r},
         t.dangling = s.dangling,
         t.building = s.building, t.failed = s.failed,
         t.unblinded = s.unblinded
  PROVE  r.c.tx \in opens /\ InHand(t, r.c, opens \ {r.c.tx}, n, spent)
<1>1. r.c \in Confirmations
  BY DEF Kempt, Accounts
<1>2. InQueue(t) = InQueue(s) /\ Building(t) = Building(s)
  BY DEF InQueue, Building
<1>3. Waiting(s) = Waiting(t) \cup {r.c} /\ r.c.tx \notin TxsOf(Waiting(t))
  BY DEF Waiting, TxsOf, Kempt, PlacesOK
<1>4. TxsOf(Waiting(s)) = TxsOf(Waiting(t)) \cup {r.c.tx}
  BY <1>3 DEF TxsOf
<1>5. All(s) = All(t) \cup {r.c}
  BY <1>2, <1>3 DEF All
<1>6. PlacesOK(t) /\ BuildingOK(t)
  BY <1>2, <1>4 DEF Kempt, PlacesOK, BuildingOK
<1>7. r.c.tx \notin Open(t)
  BY <1>2, <1>3, <1>4 DEF Kempt, PlacesOK, Open
<1> QED BY <1>1, <1>5, <1>6, <1>7, TakenInHand

\* User data was read.
LEMMA DrawnFromBuilding ==
  ASSUME NEW s, NEW t \in Accounts, NEW b \in s.building,
         NEW opens, NEW n, NEW spent, Kempt(s, opens, n, spent),
         t.building = s.building \ {b}, t.dangling = s.dangling,
         t.requests = s.requests, t.failed = s.failed,
         t.unblinded = s.unblinded
  PROVE  b.c.tx \in opens /\ InHand(t, b.c, opens \ {b.c.tx}, n, spent)
<1>1. b.c \in Confirmations
  BY DEF Kempt, Accounts
<1>2. InQueue(t) = InQueue(s) /\ Waiting(t) = Waiting(s)
  BY DEF InQueue, Waiting
<1>3. Building(s) = Building(t) \cup {b.c} /\ b.c.tx \notin TxsOf(Building(t))
  BY DEF Building, TxsOf, Kempt, PlacesOK
<1>4. TxsOf(Building(s)) = TxsOf(Building(t)) \cup {b.c.tx}
  BY <1>3 DEF TxsOf
<1>5. All(s) = All(t) \cup {b.c}
  BY <1>2, <1>3 DEF All
<1>6. PlacesOK(t) /\ BuildingOK(t)
  BY <1>2, <1>4 DEF Kempt, PlacesOK, BuildingOK
<1>7. b.c.tx \notin Open(t)
  BY <1>2, <1>3, <1>4 DEF Kempt, PlacesOK, Open
<1> QED BY <1>1, <1>5, <1>6, <1>7, TakenInHand

\* A new confirmation of a transaction that has none.
LEMMA NewInHand ==
  ASSUME NEW s, NEW opens, NEW n \in 0..MaxTokens, NEW spent,
         Kempt(s, opens, n, spent),
         NEW tx \in Transactions, tx \notin opens, CanCreate(s)
  PROVE  LET c == CreateConfirmation(s, tx)
         IN  InHand(RemoveUnblindedToken(s, c), c, opens, n, spent)
<1> DEFINE c == CreateConfirmation(s, tx)
           t == RemoveUnblindedToken(s, c)
<1>1. s \in Accounts
  BY DEF Kempt
<1>2. /\ c \in Confirmations /\ c.tx = tx
      /\ c.token \in s.unblinded \cup {NoToken}
  BY <1>1, CreateEffect
<1> HIDE DEF c
<1>3. /\ t \in Accounts /\ t.unblinded = s.unblinded \ {c.token}
      /\ t.failed = s.failed /\ t.building = s.building
      /\ t.dangling = s.dangling
      /\ t.requests = s.requests
  BY <1>1, RemoveEffect
<1> HIDE DEF t
<1>4. InQueue(t) = InQueue(s) /\ Waiting(t) = Waiting(s)
      /\ Building(t) = Building(s)
  BY <1>3 DEF InQueue, Waiting, Building
<1>5. PlacesOK(t) /\ Open(t) = opens /\ BuildingOK(t) /\ Claims(t) = Claims(s)
  BY <1>3, <1>4 DEF Kempt, PlacesOK, Open, BuildingOK, Claims, Dangling
<1>6. TokensOK(s.unblinded, Claims(s), n, spent)
  BY DEF Kempt
<1>7. Claim(c).token = c.token
  BY DEF Claim
<1>8. TokensOK(t.unblinded, Claims(s) \cup {Claim(c)}, n, spent)
  <2>1. CASE c.token \in s.unblinded
    BY <1>3, <1>6, <1>7, <2>1, TokensTaken
  <2>2. CASE c.token = NoToken
    <3>1. TokensOK(s.unblinded, Claims(s) \cup {Claim(c)}, n, spent)
      BY <1>6, <1>7, <2>2, TokensUnclaimed
    <3> QED BY <1>3, <3>1, TokensMono
  <2> QED BY <1>2, <2>1, <2>2
<1> QED BY <1>2, <1>3, <1>5, <1>8 DEF InHand, c, t

\* The confirmation in hand is presented.
LEMMA PresentedInHand ==
  ASSUME NEW s, NEW c, NEW opens, NEW n \in 0..MaxTokens, NEW spent,
         InHand(s, c, opens, n, spent), NEW cs \in SUBSET {c}
  PROVE  InHand(s, c, opens, n, Presented(spent, cs))
<1>1. \A d \in cs : Claim(d) \in Claims(s) \cup {Claim(c)}
  OBVIOUS
<1> QED BY <1>1, TokensPresented DEF InHand

\* The confirmation in hand is done with.
LEMMA LetGo ==
  ASSUME NEW s, NEW c, NEW opens, NEW n \in 0..MaxTokens, NEW spent,
         InHand(s, c, opens, n, spent), NEW t, Left(s, t)
  PROVE  Kempt(t, opens, n, spent)
<1>1. InQueue(t) = InQueue(s) /\ Waiting(t) = Waiting(s)
      /\ Building(t) = Building(s)
  BY DEF Left, InQueue, Waiting, Building
<1>2. PlacesOK(t) /\ Open(t) = opens /\ BuildingOK(t) /\ Claims(t) = Claims(s)
  BY <1>1 DEF InHand, Left, Kept, PlacesOK, Open, BuildingOK, Claims, Dangling
<1>3. TokensOK(s.unblinded, Claims(s) \cup {Claim(c)}, n, spent)
  BY DEF InHand
<1>4. TokensOK(t.unblinded, Claims(t), n, spent)
  BY <1>2, <1>3, TokensMono DEF Left
<1> QED BY <1>2, <1>4 DEF Kempt, Left, Kept

\* The claims after the confirmation in hand was given another token.
LEMMA TakesTokens ==
  ASSUME NEW s, NEW c, NEW opens, NEW n \in 0..MaxTokens, NEW spent,
         InHand(s, c, opens, n, spent),
         NEW t, NEW d, Takes(s, t, c, d)
  PROVE  TokensOK(t.unblinded, Claims(s) \cup {Claim(d)}, n, spent)
<1>1. TokensOK(s.unblinded, Claims(s) \cup {Claim(c)}, n, spent)
  BY DEF InHand
<1>2. TokensOK(s.unblinded, Claims(s), n, spent)
  BY <1>1, TokensMono
<1>3. Claim(d).token = d.token
  BY DEF Claim
<1>4. CASE d.token = c.token /\ t.unblinded = s.unblinded
  BY <1>1, <1>4 DEF Takes, Claim
<1>5. CASE d.token \in s.unblinded /\ t.unblinded = s.unblinded \ {d.token}
  BY <1>2, <1>3, <1>5, TokensTaken
<1>6. CASE d.token = NoToken /\ t.unblinded = s.unblinded \ {d.token}
  <2>1. TokensOK(s.unblinded, Claims(s) \cup {Claim(d)}, n, spent)
    BY <1>2, <1>3, <1>6, TokensUnclaimed
  <2> QED BY <1>6, <2>1, TokensMono
<1> QED BY <1>4, <1>5, <1>6 DEF Takes

\* The confirmation in hand is put where it goes on.
LEMMA PutDown ==
  ASSUME NEW s, NEW c, NEW opens, NEW n \in 0..MaxTokens, NEW spent,
         InHand(s, c, opens, n, spent), NEW t, Placed(s, t, c)
  PROVE  Kempt(t, opens \cup {c.tx}, n, spent)
<1>1. PICK d \in Confirmations : Takes(s, t, c, d) /\ Puts(s, t, d)
  BY DEF Placed
<1>2. /\ s \in Accounts /\ t \in Accounts /\ d.tx = c.tx
      /\ d.tx \notin Open(s) /\ PlacesOK(s)
  BY <1>1 DEF InHand, Placed, Kept, Takes
<1>3. /\ d.tx \notin TxsOf(InQueue(s)) /\ d.tx \notin TxsOf(Waiting(s))
      /\ d.tx \notin TxsOf(Building(s))
  BY <1>2 DEF Open
<1>4. All(t) = All(s) \cup {d} /\ PlacesOK(t)
  <2>1. CASE /\ t.failed = Append(s.failed, d)
             /\ t.building = s.building /\ t.requests = s.requests
    <3>1. Waiting(t) = Waiting(s) /\ Building(t) = Building(s)
      BY <2>1 DEF Waiting, Building
    <3>2. /\ InQueue(t) = InQueue(s) \cup {d}
          /\ \A i, j \in DOMAIN t.failed :
               t.failed[i].tx = t.failed[j].tx => i = j
      BY <1>2, <1>3, <2>1, QueueOfAppend DEF PlacesOK
    <3>3. TxsOf(InQueue(t)) = TxsOf(InQueue(s)) \cup {d.tx}
      BY <3>2 DEF TxsOf
    <3> QED BY <1>2, <1>3, <2>1, <3>1, <3>2, <3>3 DEF PlacesOK, All
  <2>2. CASE /\ \E on \in {"Confirm", "Append"} :
                  t.building = s.building \cup {[on |-> on, c |-> d]}
             /\ t.failed = s.failed /\ t.requests = s.requests
    <3>0. PICK on \in {"Confirm", "Append"} :
            t.building = s.building \cup {[on |-> on, c |-> d]}
      BY <2>2
    <3>1. Waiting(t) = Waiting(s) /\ InQueue(t) = InQueue(s)
      BY <2>2 DEF Waiting, InQueue
    <3> DEFINE b0 == [on |-> on, c |-> d]
    <3>7. b0.c = d /\ t.building = s.building \cup {b0}
      BY <3>0
    <3> HIDE DEF b0
    <3>2. Building(t) = Building(s) \cup {d}
      BY <3>7 DEF Building
    <3>3. TxsOf(Building(t)) = TxsOf(Building(s)) \cup {d.tx}
      BY <3>2 DEF TxsOf
    <3>4. \A b \in s.building : b.c.tx # d.tx
      BY <1>3 DEF Building, TxsOf
    <3>5. \A b1, b2 \in t.building : b1.c.tx = b2.c.tx => b1 = b2
      BY <1>2, <3>7, <3>4 DEF PlacesOK
    <3>6. PlacesOK(t)
      BY <1>2, <1>3, <2>2, <3>1, <3>3, <3>5 DEF PlacesOK
    <3> QED BY <3>1, <3>2, <3>6 DEF All
  <2>3. CASE /\ \E on \in {"OnCreateConfirmation", "OnFetchPaymentToken"} :
                  t.requests = s.requests \cup {[on |-> on, c |-> d]}
             /\ t.failed = s.failed /\ t.building = s.building
    <3>0. PICK on \in {"OnCreateConfirmation", "OnFetchPaymentToken"} :
            t.requests = s.requests \cup {[on |-> on, c |-> d]}
      BY <2>3
    <3>1. Building(t) = Building(s) /\ InQueue(t) = InQueue(s)
      BY <2>3 DEF Building, InQueue
    <3> DEFINE r0 == [on |-> on, c |-> d]
    <3>7. r0.c = d /\ t.requests = s.requests \cup {r0}
      BY <3>0
    <3> HIDE DEF r0
    <3>2. Waiting(t) = Waiting(s) \cup {d}
      BY <3>7 DEF Waiting
    <3>3. TxsOf(Waiting(t)) = TxsOf(Waiting(s)) \cup {d.tx}
      BY <3>2 DEF TxsOf
    <3>4. \A r \in s.requests : r.c.tx # d.tx
      BY <1>3 DEF Waiting, TxsOf
    <3>5. \A r1, r2 \in t.requests : r1.c.tx = r2.c.tx => r1 = r2
      BY <1>2, <3>7, <3>4 DEF PlacesOK
    <3>6. PlacesOK(t)
      BY <1>2, <1>3, <2>3, <3>1, <3>3, <3>5 DEF PlacesOK
    <3> QED BY <3>1, <3>2, <3>6 DEF All
  <2> QED BY <1>1, <2>1, <2>2, <2>3 DEF Puts
<1>5. Open(t) = opens \cup {c.tx}
  BY <1>2, <1>4, OpenAndClaims DEF InHand, TxsOf
<1>6. Claims(t) = Claims(s) \cup {Claim(d)}
  BY <1>4, OpenAndClaims DEF Placed, Kept, Dangling
<1>7. BuildingOK(t)
  BY <1>1 DEF BuildingOK, InHand, Puts
<1>8. TokensOK(t.unblinded, Claims(t), n, spent)
  <2>1. TokensOK(t.unblinded, Claims(s) \cup {Claim(d)}, n, spent)
    BY <1>1, TakesTokens
  <2> QED BY <1>6, <2>1
<1> QED BY <1>2, <1>4, <1>5, <1>7, <1>8 DEF Kempt

-----------------------------------------------------------------------------
(* What the handlers of confirmations do to the rest of the account.       *)

LEMMA RoomLeft ==
  ASSUME NEW m \in Nat, NEW k \in Nat, NEW room \in Nat, NEW count \in 0..room
  PROVE  /\ k <= m /\ m <= room => k <= room
         /\ k <= m /\ m + count <= room => k + count <= room
OBVIOUS

LEMMA RoomTaken ==
  ASSUME NEW k \in Nat, NEW room \in Nat
  PROVE  k + (room - k) <= room
OBVIOUS

LEMMA KeptBooks ==
  ASSUME NEW s \in Accounts, NEW t, Kept(s, t),
         NEW captcha, NEW became, NEW paid,
         BooksOK(s, captcha, became, paid)
  PROVE  BooksOK(t, captcha, became, paid)
<1>1. PayoutOK(t) /\ EarningsOK(t, became, paid) /\ DanglingOK(t, became)
  BY DEF Kept, BooksOK, PayoutOK, EarningsOK, DanglingOK
<1> DEFINE m == Cardinality(s.unblinded)
           k == Cardinality(t.unblinded)
           asked == s.refill.asked # "" \/ s.refill.timer
<1>2. m \in Nat /\ k \in Nat /\ k <= m
  BY TokensFinite, FewerTokens DEF Kept, Accounts
<1>3. s.refill \in Refills
  BY DEF Accounts
<1>4. s.refill.count \in 0..MaximumTokens /\ MaximumTokens \in Nat
  BY <1>3, TokensAssumption DEF Refills
<1>5. m <= MaximumTokens /\ (asked => m + s.refill.count <= MaximumTokens)
  BY DEF BooksOK, RefillOK
<1>6. s.refill.processing => asked \/ captcha
  BY DEF BooksOK, RefillOK
<1> HIDE DEF m, k, asked
<1>7. RefillOK(t, captcha)
  <2>1. CASE t.refill = s.refill
    <3>1. /\ k <= MaximumTokens
          /\ asked => k + s.refill.count <= MaximumTokens
      BY <1>2, <1>4, <1>5, RoomLeft
    <3> QED BY <1>6, <2>1, <3>1 DEF RefillOK, k, asked
  <2>2. CASE /\ t.refill.asked # "" /\ k <= MaximumTokens
             /\ t.refill.count = MaximumTokens - k
    <3>1. k + t.refill.count <= MaximumTokens
      BY <1>2, <1>4, <2>2, RoomTaken
    <3> QED BY <2>2, <3>1 DEF RefillOK, k
  <2> QED BY <2>1, <2>2 DEF Kept, RefillKept, k
<1> QED BY <1>1, <1>7 DEF BooksOK

\* As far as payments go it matters only who has earned one, and what was
\* removed stays so.
LEMMA SameEarnings ==
  ASSUME NEW s \in Accounts, NEW captcha, NEW became, NEW paid,
         BooksOK(s, captcha, became, paid),
         NEW becomes,
         \A tx \in Transactions :
           /\ becomes[tx] = "earned" <=> became[tx] = "earned"
           /\ became[tx] = "reset" => becomes[tx] = "reset"
  PROVE  BooksOK(s, captcha, becomes, paid)
<1>1. \A p \in s.payments : p.tx \in Transactions
  BY DEF Accounts, PaymentTokens
<1>2. \A b \in s.dangling : b.c.tx \in Transactions
  BY DEF Accounts, Confirmations
<1> QED BY <1>1, <1>2 DEF BooksOK, EarningsOK, DanglingOK

LEMMA ServedIsOK ==
  ASSUME NEW t, Served(t)
  PROVE  ServedOK(t)
BY DEF Served, ServedOK, InQueue

\* The lists as they were.
LEMMA SameKempt ==
  ASSUME NEW s, NEW opens, NEW n, NEW spent, Kempt(s, opens, n, spent),
         NEW t \in Accounts,
         t.dangling = s.dangling,
         t.failed = s.failed, t.building = s.building,
         t.requests = s.requests, t.unblinded = s.unblinded
  PROVE  Kempt(t, opens, n, spent)
<1>1. InQueue(t) = InQueue(s) /\ Waiting(t) = Waiting(s)
      /\ Building(t) = Building(s)
  BY DEF InQueue, Waiting, Building
<1>2. PlacesOK(t) /\ Open(t) = opens /\ BuildingOK(t) /\ Claims(t) = Claims(s)
  BY <1>1 DEF Kempt, PlacesOK, Open, BuildingOK, Claims, Dangling
<1> QED BY <1>2 DEF Kempt

LEMMA SameServed ==
  ASSUME NEW s, ServedOK(s), NEW t,
         t.failed = s.failed, t.requests = s.requests,
         t.retryTimer = s.retryTimer
  PROVE  ServedOK(t)
BY DEF ServedOK, InQueue

\* A transaction is opened, or closed as something else.
LEMMA OpenedChanges ==
  ASSUME NEW became \in [Transactions -> Fates], NEW tx \in Transactions,
         NEW as \in Fates
  PROVE  LET becomes == [became EXCEPT ![tx] = as]
         IN  /\ becomes \in [Transactions -> Fates]
             /\ as = "open" => Opened(becomes) = Opened(became) \cup {tx}
             /\ as # "open" => Opened(becomes) = Opened(became) \ {tx}
BY DEF Opened

\* The payment token of a confirmation is kept.
LEMMA RedeemedEffect ==
  ASSUME NEW s \in Accounts, NEW c \in Confirmations, OptedIn(c),
         [tx |-> c.tx, token |-> c.token] \notin s.payments
  PROVE  LET p == [tx |-> c.tx, token |-> c.token]
             t == OnDidRedeemUnblindedToken(s, c)
         IN  Left([s EXCEPT !.payments = @ \cup {p}], t) /\ Served(t)
<1> DEFINE p == [tx |-> c.tx, token |-> c.token]
           u == [s EXCEPT !.payments = @ \cup {p}]
<1>1. p \in PaymentTokens
  BY DEF PaymentTokens, Confirmations, OptedIn
<1>2. u \in Accounts
  BY <1>1 DEF Accounts
<1>3. OnDidRedeemUnblindedToken(s, c) =
        ProcessRetryQueue(StopRetrying(TopUpUnblindedTokens(u)))
  BY DEF OnDidRedeemUnblindedToken
<1> QED BY <1>2, <1>3, WindUpEffect

-----------------------------------------------------------------------------
(* A transaction is deposited, user data is read, the queue is drawn from. *)

\* What a handler leaves behind that takes one confirmation in hand.
LEMMA PostEffect ==
  ASSUME TypeOK, NEW cs \in SUBSET Confirmations, Post(cs)
  PROVE  /\ posted' \subseteq Confirmations
         /\ spentOn' = Presented(spentOn, cs)
         /\ spentOn' \in [Tokens -> SUBSET Transactions]
<1>1. spentOn' = Presented(spentOn, cs)
  BY DEF Post, Presented
<1>2. \A t \in Tokens :
        {c.tx : c \in {d \in cs : d.token = t}} \subseteq Transactions
  BY DEF Confirmations
<1>3. Presented(spentOn, cs) \in [Tokens -> SUBSET Transactions]
  BY <1>2 DEF Presented, TypeOK
<1> QED BY <1>1, <1>3 DEF Post, TypeOK

LEMMA ConfirmKeeps ==
  ASSUME TypeOK, NEW tx \in Transactions, NEW s,
         fate[tx] \in {"none", "open"},
         Kempt(s, Opened(fate) \ {tx}, issued, spentOn), ServedOK(s),
         BooksOK(s, captchaShown, fate, credited),
         Confirm(s, tx)
  PROVE  /\ posted' \subseteq Confirmations
         /\ fate' \in [Transactions -> Fates]
         /\ spentOn' \in [Tokens -> SUBSET Transactions]
         /\ Kempt(account', Opened(fate'), issued, spentOn')
         /\ ServedOK(account')
         /\ BooksOK(account', captchaShown, fate', credited)
<1> DEFINE c == CreateConfirmation(s, tx)
           mine == RemoveUnblindedToken(s, c)
           opens == Opened(fate) \ {tx}
<1>1. /\ s \in Accounts /\ issued \in 0..MaxTokens
      /\ fate \in [Transactions -> Fates] /\ tx \notin opens
  BY DEF Kempt, TypeOK
<1>2. "open" \in Fates /\ "dropped" \in Fates
  BY DEF Fates
<1>3. \A as \in {"open", "dropped"} : \A x \in Transactions :
        /\ [fate EXCEPT ![tx] = as][x] = "earned" <=> fate[x] = "earned"
        /\ fate[x] = "reset" => [fate EXCEPT ![tx] = as][x] = "reset"
  BY <1>1
<1>4. CASE CanCreate(s)
  <2> DEFINE t == Redeem(mine, c)
             cs == Posts(mine, c)
             became == [fate EXCEPT ![tx] = "open"]
             spent == Presented(spentOn, cs)
  <2>1. account' = t /\ Post(cs) /\ fate' = became
    BY <1>4 DEF Confirm
  <2>2. c \in Confirmations /\ c.tx = tx
    BY <1>1, <1>4, CreateEffect
  <2>3. InHand(mine, c, opens, issued, spentOn)
    BY <1>1, <1>4, NewInHand
  <2>4. cs \in SUBSET {c}
    BY DEF Posts
  <2>5. mine \in Accounts /\ Kept(s, mine)
    BY <1>1, RemoveEffect DEF Kept, RefillKept
  <2> HIDE DEF c, mine
  <2>6. Placed(mine, t, c) /\ Served(t)
    BY <2>2, <2>5, RedeemEffect
  <2> HIDE DEF t, cs
  <2>7. /\ posted' \subseteq Confirmations /\ spentOn' = spent
        /\ spentOn' \in [Tokens -> SUBSET Transactions]
    BY <2>1, <2>2, <2>4, PostEffect
  <2>8. InHand(mine, c, opens, issued, spent)
    BY <1>1, <2>3, <2>4, PresentedInHand
  <2>9. became \in [Transactions -> Fates] /\ Opened(became) = opens \cup {tx}
    BY <1>1, <1>2, OpenedChanges
  <2> HIDE DEF became, spent, opens
  <2>10. Kempt(t, opens \cup {c.tx}, issued, spent)
    BY <1>1, <2>6, <2>8, PutDown
  <2>11. BooksOK(t, captchaShown, fate, credited) /\ t \in Accounts
    BY <1>1, <2>5, <2>6, KeptBooks DEF Placed, Kept
  <2>12. BooksOK(t, captchaShown, became, credited)
    BY <1>3, <2>11, SameEarnings DEF became
  <2>13. ServedOK(t)
    BY <2>6, ServedIsOK
  <2> QED BY <2>1, <2>2, <2>7, <2>9, <2>10, <2>12, <2>13
<1>5. CASE ~CanCreate(s)
  <2> DEFINE became == [fate EXCEPT ![tx] = "dropped"]
  <2>1. account' = s /\ UNCHANGED <<posted, spentOn>> /\ fate' = became
    BY <1>5 DEF Confirm
  <2>2. became \in [Transactions -> Fates] /\ Opened(became) = opens
    BY <1>1, <1>2, OpenedChanges, "dropped" # "open"
  <2> HIDE DEF became
  <2>3. BooksOK(s, captchaShown, became, credited)
    BY <1>1, <1>3, SameEarnings DEF became
  <2> QED BY <2>1, <2>2, <2>3 DEF TypeOK
<1> QED BY <1>4, <1>5

LEMMA IInvFacts ==
  ASSUME IInv
  PROVE  /\ account \in Accounts /\ issued \in 0..MaxTokens
         /\ Kempt(account, Opened(fate), issued, spentOn)
         /\ ServedOK(account)
         /\ BooksOK(account, captchaShown, fate, credited)
         /\ fate \in [Transactions -> Fates]
BY DEF IInv, TypeOK

\* A handler of confirmations reconciles nothing and leaves the server alone.
LEMMA HandlerKeeps ==
  ASSUME IInv, UNCHANGED <<env, resetting, server, history>>,
         transactions' \in
           [Transactions -> {"none", "unreconciled", "reconciled"}],
         \A tx \in Transactions :
           transactions'[tx] = "reconciled" => transactions[tx] = "reconciled",
         posted' \subseteq Confirmations,
         fate' \in [Transactions -> Fates],
         spentOn' \in [Tokens -> SUBSET Transactions],
         Kempt(account', Opened(fate'), issued, spentOn'),
         ServedOK(account'),
         BooksOK(account', captchaShown, fate', credited)
  PROVE  IInv'
<1>1. TypeOK'
  BY DEF IInv, TypeOK, Kempt, server, history
<1>2. ReconciledWasCredited'
  BY DEF IInv, ReconciledWasCredited, server
<1>3. issued' = issued /\ captchaShown' = captchaShown /\ credited' = credited
  BY DEF server, history
<1> QED BY <1>1, <1>2, <1>3 DEF IInv

\* An ad that needs user data waits for it.
LEMMA WaitForDataKeeps ==
  ASSUME NEW s, NEW opens, NEW n \in 0..MaxTokens, NEW spent,
         Kempt(s, opens, n, spent), ServedOK(s),
         NEW tx \in Conversions, tx \notin opens,
         NEW captcha, NEW became, NEW paid, BooksOK(s, captcha, became, paid)
  PROVE  LET c == [tx |-> tx, token |-> NoToken, wasCreated |-> FALSE]
             t == [s EXCEPT !.building = @ \cup {[on |-> "Confirm", c |-> c]}]
         IN  /\ Kempt(t, opens \cup {tx}, n, spent) /\ ServedOK(t)
             /\ BooksOK(t, captcha, became, paid)
<1> DEFINE c == [tx |-> tx, token |-> NoToken, wasCreated |-> FALSE]
           b == [on |-> "Confirm", c |-> c]
           t == [s EXCEPT !.building = @ \cup {b}]
<1>1. c \in Confirmations /\ c.tx = tx /\ c.token = NoToken
  BY TransactionsAssumption DEF Confirmations
<1> HIDE DEF c
<1>2. b \in [on : {"Confirm", "Append"}, c : Confirmations]
  BY <1>1
<1> HIDE DEF b
<1>3. s \in Accounts
  BY DEF Kempt
<1>4. /\ t \in Accounts /\ t.building = s.building \cup {b}
      /\ t.dangling = s.dangling
      /\ t.failed = s.failed /\ t.requests = s.requests
      /\ t.unblinded = s.unblinded /\ t.payments = s.payments
      /\ t.payout = s.payout /\ t.refill = s.refill
      /\ t.retryTimer = s.retryTimer
  BY <1>2, <1>3 DEF Accounts
<1> HIDE DEF t
<1>5. InHand(s, c, opens, n, spent)
  <2>1. Claim(c).token = NoToken
    BY <1>1 DEF Claim
  <2> QED BY <1>1, <2>1, TokensUnclaimed DEF Kempt, InHand
<1>6. Takes(s, t, c, c) /\ Puts(s, t, c)
  BY <1>1, <1>4 DEF Takes, Puts, b
<1>7. Kept(s, t)
  BY <1>4 DEF Kept, RefillKept
<1>8. Placed(s, t, c)
  BY <1>1, <1>6, <1>7 DEF Placed
<1>9. Kempt(t, opens \cup {tx}, n, spent)
  BY <1>1, <1>5, <1>8, PutDown
<1>10. BooksOK(t, captcha, became, paid)
  BY <1>3, <1>7, KeptBooks
<1>11. ServedOK(t)
  BY <1>4, SameServed
<1> QED BY <1>9, <1>10, <1>11 DEF t, b, c

LEMMA DepositKeeps ==
  ASSUME IInv, NEW tx \in Transactions, ProcessDeposit(tx)
  PROVE  IInv'
<1>1. /\ account \in Accounts /\ issued \in 0..MaxTokens
      /\ Kempt(account, Opened(fate), issued, spentOn)
      /\ ServedOK(account)
      /\ BooksOK(account, captchaShown, fate, credited)
      /\ fate \in [Transactions -> Fates]
  BY IInvFacts
<1>2. /\ transactions' \in
           [Transactions -> {"none", "unreconciled", "reconciled"}]
      /\ \A x \in Transactions :
           transactions'[x] = "reconciled" => transactions[x] = "reconciled"
  BY DEF ProcessDeposit, IInv, TypeOK
<1>3. tx \notin Opened(fate) /\ fate[tx] = "none"
  BY DEF ProcessDeposit, Opened
<1>4. CASE tx \in Conversions
  <2> DEFINE c == [tx |-> tx, token |-> NoToken, wasCreated |-> FALSE]
             t == [account EXCEPT
                     !.building = @ \cup {[on |-> "Confirm", c |-> c]}]
             became == [fate EXCEPT ![tx] = "open"]
  <2>1. /\ account' = t /\ fate' = became /\ UNCHANGED <<posted, spentOn>>
    BY <1>4 DEF ProcessDeposit
  <2>2. /\ Kempt(t, Opened(fate) \cup {tx}, issued, spentOn) /\ ServedOK(t)
        /\ BooksOK(t, captchaShown, fate, credited)
    BY <1>1, <1>3, <1>4, WaitForDataKeeps
  <2> HIDE DEF t
  <2>3. /\ became \in [Transactions -> Fates]
        /\ Opened(became) = Opened(fate) \cup {tx}
    BY <1>1, OpenedChanges DEF Fates
  <2>4. \A x \in Transactions :
          /\ became[x] = "earned" <=> fate[x] = "earned"
          /\ fate[x] = "reset" => became[x] = "reset"
    BY <1>1, <1>3
  <2> HIDE DEF became
  <2>5. BooksOK(t, captchaShown, became, credited)
    BY <2>2, <2>4, SameEarnings DEF Kempt
  <2> QED BY <1>2, <2>1, <2>2, <2>3, <2>5, HandlerKeeps
          DEF ProcessDeposit, IInv, TypeOK
<1>5. CASE tx \notin Conversions
  <2>1. Kempt(account, Opened(fate) \ {tx}, issued, spentOn)
    <3>1. Opened(fate) \ {tx} = Opened(fate)
      BY <1>3
    <3> QED BY <1>1, <3>1
  <2>2. Confirm(account, tx)
    BY <1>5 DEF ProcessDeposit
  <2>3. /\ posted' \subseteq Confirmations
        /\ fate' \in [Transactions -> Fates]
        /\ spentOn' \in [Tokens -> SUBSET Transactions]
        /\ Kempt(account', Opened(fate'), issued, spentOn')
        /\ ServedOK(account')
        /\ BooksOK(account', captchaShown, fate', credited)
    BY <1>1, <1>3, <2>1, <2>2, ConfirmKeeps DEF IInv
  <2> QED BY <1>2, <2>3, HandlerKeeps DEF ProcessDeposit
<1> QED BY <1>4, <1>5

LEMMA DataBuiltKeeps ==
  ASSUME IInv, NEW b \in account.building, OnUserDataBuilt(b)
  PROVE  IInv'
<1> DEFINE s == [account EXCEPT !.building = @ \ {b}]
           tx == b.c.tx
           opens == Opened(fate) \ {tx}
<1>1. /\ account \in Accounts /\ issued \in 0..MaxTokens
      /\ Kempt(account, Opened(fate), issued, spentOn)
      /\ ServedOK(account)
      /\ BooksOK(account, captchaShown, fate, credited)
      /\ fate \in [Transactions -> Fates]
  BY IInvFacts
<1>2. /\ s \in Accounts /\ s.building = account.building \ {b}
      /\ s.dangling = account.dangling
      /\ s.failed = account.failed /\ s.requests = account.requests
      /\ s.unblinded = account.unblinded /\ s.payments = account.payments
      /\ s.payout = account.payout /\ s.refill = account.refill
      /\ s.retryTimer = account.retryTimer
  BY <1>1 DEF Accounts
<1>3. /\ b.c \in Confirmations /\ tx \in Transactions
      /\ tx \in Conversions /\ (b.on = "Confirm" => b.c.token = NoToken)
  BY <1>1 DEF Accounts, Confirmations, Kempt, BuildingOK
<1>4. /\ \/ b.on = "Confirm" /\ Confirm(s, tx)
         \/ /\ b.on = "Append"
            /\ account' = AppendNewConfirmation(s, b.c)
            /\ UNCHANGED <<posted, spentOn, fate>>
      /\ UNCHANGED <<env, resetting, transactions, server, history>>
  BY DEF OnUserDataBuilt
<1> HIDE DEF s
<1>5. tx \in Opened(fate) /\ InHand(s, b.c, opens, issued, spentOn)
  BY <1>1, <1>2, DrawnFromBuilding
<1>6. ServedOK(s) /\ BooksOK(s, captchaShown, fate, credited)
  <2>1. Kept(account, s)
    BY <1>2 DEF Kept, RefillKept
  <2> QED BY <1>1, <1>2, <2>1, SameServed, KeptBooks
<1>7. /\ transactions' \in
           [Transactions -> {"none", "unreconciled", "reconciled"}]
      /\ \A x \in Transactions :
           transactions'[x] = "reconciled" => transactions[x] = "reconciled"
  BY <1>4 DEF IInv, TypeOK
<1>8. CASE Confirm(s, tx)
  <2>1. fate[tx] = "open"
    BY <1>5 DEF Opened
  <2>2. Left(s, s)
    BY <1>2 DEF Left, Kept, RefillKept
  <2>3. Kempt(s, opens, issued, spentOn)
    BY <1>1, <1>5, <2>2, LetGo
  <2>4. /\ posted' \subseteq Confirmations
        /\ fate' \in [Transactions -> Fates]
        /\ spentOn' \in [Tokens -> SUBSET Transactions]
        /\ Kempt(account', Opened(fate'), issued, spentOn')
        /\ ServedOK(account')
        /\ BooksOK(account', captchaShown, fate', credited)
    BY <1>3, <1>6, <1>8, <2>1, <2>3, ConfirmKeeps DEF IInv
  <2> QED BY <1>4, <1>7, <2>4, HandlerKeeps
<1>9. CASE /\ account' = AppendNewConfirmation(s, b.c)
           /\ UNCHANGED <<posted, spentOn, fate>>
  <2> DEFINE t == AppendNewConfirmation(s, b.c)
  <2>1. Requeued(s, t, b.c)
    BY <1>2, <1>3, AppendNewEffect
  <2> HIDE DEF t
  <2>2. Placed(s, t, b.c) /\ Kept(s, t)
    BY <2>1 DEF Requeued, Placed
  <2>3. opens \cup {tx} = Opened(fate)
    BY <1>5
  <2>4. Kempt(t, Opened(fate), issued, spentOn)
    <3>1. Kempt(t, Opened(fate) \cup {tx}, issued, spentOn)
      BY <1>1, <1>5, <2>2, PutDown
    <3> QED BY <2>3, <3>1
  <2>5. BooksOK(t, captchaShown, fate, credited)
    BY <1>2, <1>6, <2>2, KeptBooks
  <2>6. ServedOK(t)
    <3>1. PICK d \in Confirmations : Takes(s, t, b.c, d) /\ Puts(s, t, d)
      BY <2>2 DEF Placed
    <3>2. d.tx \in Conversions
      BY <1>3, <3>1 DEF Takes
    <3>3. \A c \in InQueue(t) : c \in InQueue(s) \/ c = d
      <4>1. CASE t.failed = s.failed
        BY <4>1 DEF InQueue
      <4>2. CASE t.failed = Append(s.failed, d)
        <5>1. s.failed \in Seq(Confirmations)
          BY <1>2 DEF Accounts
        <5> QED BY <4>2, <5>1 DEF InQueue
      <4> QED BY <3>1, <4>1, <4>2 DEF Puts
    <3> QED BY <1>6, <2>1, <3>2, <3>3 DEF ServedOK, Requeued
  <2> QED BY <1>4, <1>7, <1>9, <2>4, <2>5, <2>6, HandlerKeeps
          DEF IInv, TypeOK, t
<1> QED BY <1>4, <1>8, <1>9

LEMMA RetryKeeps ==
  ASSUME IInv, OnRetry
  PROVE  IInv'
<1> DEFINE c == Head(account.failed)
           s == [account EXCEPT !.retryTimer = FALSE, !.failed = Tail(@)]
           t == Redeem(s, c)
           cs == Posts(s, c)
           spent == Presented(spentOn, cs)
           opens == Opened(fate) \ {c.tx}
<1>1. /\ account \in Accounts /\ issued \in 0..MaxTokens
      /\ Kempt(account, Opened(fate), issued, spentOn)
      /\ ServedOK(account)
      /\ BooksOK(account, captchaShown, fate, credited)
      /\ fate \in [Transactions -> Fates]
  BY IInvFacts
<1>2. /\ account.failed # <<>> /\ account' = t /\ Post(cs)
      /\ UNCHANGED <<env, resetting, transactions, server, fate, history>>
  BY DEF OnRetry
<1>3. /\ s \in Accounts /\ s.failed = Tail(account.failed)
      /\ s.building = account.building /\ s.requests = account.requests
      /\ s.dangling = account.dangling
      /\ s.unblinded = account.unblinded /\ s.payments = account.payments
      /\ s.payout = account.payout /\ s.refill = account.refill
  <2>1. Tail(account.failed) \in Seq(Confirmations)
    BY <1>1, <1>2 DEF Accounts
  <2> QED BY <1>1, <2>1 DEF Accounts
<1> HIDE DEF s
<1>4. c.tx \in Opened(fate) /\ InHand(s, c, opens, issued, spentOn)
  BY <1>1, <1>2, <1>3, DrawnFromQueue
<1>5. c \in Confirmations /\ cs \in SUBSET {c}
  BY <1>4 DEF InHand, Posts
<1> HIDE DEF c
<1>6. Placed(s, t, c) /\ Served(t) /\ Kept(s, t)
  BY <1>3, <1>5, RedeemEffect DEF Placed
<1> HIDE DEF t, cs
<1>7. /\ posted' \subseteq Confirmations /\ spentOn' = spent
      /\ spentOn' \in [Tokens -> SUBSET Transactions]
  BY <1>2, <1>5, PostEffect DEF IInv
<1>8. InHand(s, c, opens, issued, spent)
  BY <1>1, <1>4, <1>5, PresentedInHand
<1> HIDE DEF spent
<1>9. Kempt(t, Opened(fate), issued, spent)
  <2>1. opens \cup {c.tx} = Opened(fate)
    BY <1>4
  <2> QED BY <1>1, <1>6, <1>8, <2>1, PutDown
<1>10. BooksOK(t, captchaShown, fate, credited)
  <2>1. Kept(account, s)
    BY <1>3 DEF Kept, RefillKept
  <2> QED BY <1>1, <1>3, <1>6, <2>1, KeptBooks
<1>11. ServedOK(t)
  BY <1>6, ServedIsOK
<1> QED BY <1>1, <1>2, <1>7, <1>9, <1>10, <1>11, HandlerKeeps
        DEF IInv, TypeOK

LEMMA CreatesKeeps ==
  ASSUME IInv, NEW c \in posted, ServerCreates(c)
  PROVE  IInv'
<1>1. c \in Confirmations
  BY DEF IInv, TypeOK
<1>2. created' \in [Transactions -> SUBSET Tokens]
  BY <1>1 DEF ServerCreates, IInv, TypeOK, Confirmations, OptedIn
<1>3. /\ posted' \subseteq posted
      /\ UNCHANGED <<env, account, resetting, transactions, issued, credited,
                     fate, spentOn, history>>
  BY DEF ServerCreates
<1>4. TypeOK'
  BY <1>2, <1>3 DEF IInv, TypeOK, history
<1>5. ReconciledWasCredited'
  BY <1>3 DEF IInv, ReconciledWasCredited
<1> QED BY <1>3, <1>4, <1>5 DEF IInv, history

\* The handler of an answer r: it puts the confirmation somewhere, or closes it.
LEMMA AnswerKeeps ==
  ASSUME IInv, NEW r \in account.requests,
         UNCHANGED <<env, resetting, transactions, posted, server, spentOn,
                     history>>,
         NEW t, account' = t, Served(t),
         NEW s, s = NoLongerWaits(account, r),
         \/ \E c \in Confirmations :
              c.tx = r.c.tx /\ c.token = r.c.token /\ Placed(s, t, c)
              /\ UNCHANGED fate
         \/ \E as \in {"sent", "refused"} :
              Left(s, t) /\ fate' = [fate EXCEPT ![r.c.tx] = as]
  PROVE  IInv'
<1> DEFINE tx == r.c.tx
           opens == Opened(fate) \ {tx}
<1>1. /\ account \in Accounts /\ issued \in 0..MaxTokens
      /\ Kempt(account, Opened(fate), issued, spentOn)
      /\ BooksOK(account, captchaShown, fate, credited)
      /\ fate \in [Transactions -> Fates]
  BY IInvFacts
<1>2. /\ s \in Accounts /\ s.requests = account.requests \ {r}
      /\ s.building = account.building /\ s.failed = account.failed
      /\ s.dangling = account.dangling
      /\ s.unblinded = account.unblinded /\ s.payments = account.payments
      /\ s.payout = account.payout /\ s.refill = account.refill
  BY <1>1 DEF Accounts, NoLongerWaits
<1>3. r.c \in Confirmations /\ tx \in Transactions
  BY <1>1 DEF Accounts, Confirmations
<1>4. tx \in Opened(fate) /\ InHand(s, r.c, opens, issued, spentOn)
  BY <1>1, <1>2, DrawnFromRequests
<1>5. BooksOK(s, captchaShown, fate, credited)
  <2>1. Kept(account, s)
    BY <1>2 DEF Kept, RefillKept
  <2> QED BY <1>1, <2>1, KeptBooks
<1>6. ServedOK(t)
  BY ServedIsOK
<1>7. /\ transactions' \in
           [Transactions -> {"none", "unreconciled", "reconciled"}]
      /\ \A x \in Transactions :
           transactions'[x] = "reconciled" => transactions[x] = "reconciled"
      /\ posted' \subseteq Confirmations
      /\ spentOn' \in [Tokens -> SUBSET Transactions]
  BY DEF IInv, TypeOK
<1>8. ASSUME NEW c \in Confirmations, c.tx = tx, c.token = r.c.token,
             Placed(s, t, c), UNCHANGED fate
      PROVE  IInv'
  <2>1. Claim(c) = Claim(r.c)
    BY <1>8 DEF Claim
  <2>2. InHand(s, c, opens, issued, spentOn)
    BY <1>4, <1>8, <2>1 DEF InHand
  <2>3. opens \cup {c.tx} = Opened(fate)
    BY <1>4, <1>8
  <2>4. Kempt(t, Opened(fate), issued, spentOn)
    BY <1>1, <1>8, <2>2, <2>3, PutDown
  <2>5. BooksOK(t, captchaShown, fate, credited)
    BY <1>2, <1>5, <1>8, KeptBooks DEF Placed
  <2> QED BY <1>1, <1>6, <1>7, <1>8, <2>4, <2>5, HandlerKeeps
<1>9. ASSUME NEW as \in {"sent", "refused"}, Left(s, t),
             fate' = [fate EXCEPT ![tx] = as]
      PROVE  IInv'
  <2> DEFINE became == [fate EXCEPT ![tx] = as]
  <2>1. as \in Fates /\ as # "open" /\ fate[tx] = "open"
    BY <1>4 DEF Fates, Opened
  <2>2. became \in [Transactions -> Fates] /\ Opened(became) = opens
    BY <1>1, <1>3, <2>1 DEF Opened
  <2>3. \A x \in Transactions :
          /\ became[x] = "earned" <=> fate[x] = "earned"
          /\ fate[x] = "reset" => became[x] = "reset"
    BY <1>1, <2>1
  <2> HIDE DEF became
  <2>4. Kempt(t, Opened(became), issued, spentOn)
    BY <1>1, <1>4, <1>9, <2>2, LetGo
  <2>5. BooksOK(t, captchaShown, fate, credited) /\ t \in Accounts
    BY <1>2, <1>5, <1>9, KeptBooks DEF Left, Kept
  <2>6. BooksOK(t, captchaShown, became, credited)
    BY <2>3, <2>5, SameEarnings
  <2>7. fate' = became
    BY <1>9 DEF became
  <2> QED BY <1>6, <1>7, <2>2, <2>4, <2>6, <2>7, HandlerKeeps
<1> QED BY <1>8, <1>9

LEMMA CreateAnswerKeeps ==
  ASSUME IInv, NEW r \in account.requests, OnCreateConfirmation(r)
  PROVE  IInv'
<1> DEFINE s == NoLongerWaits(account, r)
           c == [r.c EXCEPT !.wasCreated = TRUE]
<1>1. UNCHANGED <<env, resetting, transactions, posted, server, spentOn,
                  history>>
  BY DEF OnCreateConfirmation
<1>2. account \in Accounts /\ s \in Accounts
  BY IInvFacts DEF Accounts, NoLongerWaits
<1>3. r.c \in Confirmations
  BY <1>2 DEF Accounts
<1>4. c \in Confirmations /\ c.tx = r.c.tx /\ c.token = r.c.token
  BY <1>3 DEF Confirmations
<1>5. \/ account' = Wait(s, "OnFetchPaymentToken", c) /\ UNCHANGED fate
      \/ /\ account' = OnDidSendConfirmation(s)
         /\ fate' = [fate EXCEPT ![r.c.tx] = "sent"]
      \/ /\ account' = OnFailedToSendConfirmation(s, r.c, FALSE)
         /\ fate' = [fate EXCEPT ![r.c.tx] = "refused"]
      \/ /\ account' = OnFailedToSendConfirmation(s, r.c, TRUE)
         /\ UNCHANGED fate
  BY DEF OnCreateConfirmation
<1> HIDE DEF c
<1>6. CASE account' = Wait(s, "OnFetchPaymentToken", c) /\ UNCHANGED fate
  <2> DEFINE t == Wait(s, "OnFetchPaymentToken", c)
  <2>1. Placed(s, t, c) /\ Served(t)
    BY <1>2, <1>4, WaitEffect
  <2> HIDE DEF t, s
  <2> QED BY <1>1, <1>4, <1>6, <2>1, AnswerKeeps DEF t, s
<1>7. CASE /\ account' = OnDidSendConfirmation(s)
           /\ fate' = [fate EXCEPT ![r.c.tx] = "sent"]
  BY <1>1, <1>2, <1>7, SentEffect, AnswerKeeps
<1>8. CASE /\ account' = OnFailedToSendConfirmation(s, r.c, FALSE)
           /\ fate' = [fate EXCEPT ![r.c.tx] = "refused"]
  BY <1>1, <1>2, <1>3, <1>8, FailedToSendEffect, AnswerKeeps
<1>9. CASE /\ account' = OnFailedToSendConfirmation(s, r.c, TRUE)
           /\ UNCHANGED fate
  BY <1>1, <1>2, <1>3, <1>9, FailedToSendEffect, AnswerKeeps
<1> QED BY <1>5, <1>6, <1>7, <1>8, <1>9

LEMMA FetchAnswerKeeps ==
  ASSUME IInv, NEW r \in account.requests, OnFetchPaymentToken(r)
  PROVE  IInv'
<1> DEFINE s == NoLongerWaits(account, r)
           anew == [r.c EXCEPT !.wasCreated = FALSE]
           p == [tx |-> r.c.tx, token |-> r.c.token]
           refused == [fate EXCEPT ![r.c.tx] = "refused"]
           earned == [fate EXCEPT ![r.c.tx] = "earned"]
           opens == Opened(fate) \ {r.c.tx}
<1>1. UNCHANGED <<env, resetting, transactions, posted, server, spentOn,
                  history>>
  BY DEF OnFetchPaymentToken
<1>2. account \in Accounts /\ s \in Accounts
  BY IInvFacts DEF Accounts, NoLongerWaits
<1>3. r.c \in Confirmations
  BY <1>2 DEF Accounts
<1>4. anew \in Confirmations /\ anew.tx = r.c.tx /\ anew.token = r.c.token
  BY <1>3 DEF Confirmations
<1>5. \/ /\ account' = OnFailedToRedeemUnblindedToken(s, anew, TRUE, FALSE)
         /\ UNCHANGED fate
      \/ /\ account' = OnFailedToRedeemUnblindedToken(s, r.c, FALSE, FALSE)
         /\ fate' = refused
      \/ /\ \/ account' = OnFailedToRedeemUnblindedToken(s, r.c, TRUE, FALSE)
            \/ account' = OnFailedToRedeemUnblindedToken(s, r.c, TRUE, TRUE)
         /\ UNCHANGED fate
      \/ /\ created[r.c.tx] = {r.c.token}
         /\ account' = OnDidRedeemUnblindedToken(s, r.c)
         /\ fate' = earned
  BY DEF OnFetchPaymentToken, NotFound
<1> HIDE DEF anew
<1>6. CASE /\ account' = OnFailedToRedeemUnblindedToken(s, anew, TRUE, FALSE)
           /\ UNCHANGED fate
  <2> DEFINE t == OnFailedToRedeemUnblindedToken(s, anew, TRUE, FALSE)
  <2>1. Placed(s, t, anew) /\ Served(t)
    BY <1>2, <1>4, FailedToRedeemEffect
  <2> HIDE DEF t, s
  <2> QED BY <1>1, <1>4, <1>6, <2>1, AnswerKeeps DEF t, s
<1>7. CASE /\ account' = OnFailedToRedeemUnblindedToken(s, r.c, FALSE, FALSE)
           /\ fate' = refused
  <2> DEFINE t == OnFailedToRedeemUnblindedToken(s, r.c, FALSE, FALSE)
  <2>1. Left(s, t) /\ Served(t)
    BY <1>2, <1>3, FailedToRedeemEffect
  <2> HIDE DEF t, s
  <2> QED BY <1>1, <1>7, <2>1, AnswerKeeps DEF t, s
<1>8. CASE /\ \/ account' = OnFailedToRedeemUnblindedToken(s, r.c, TRUE, FALSE)
              \/ account' = OnFailedToRedeemUnblindedToken(s, r.c, TRUE, TRUE)
           /\ UNCHANGED fate
  <2>1. PICK t : account' = t /\ Placed(s, t, r.c) /\ Served(t)
    BY <1>2, <1>3, <1>8, FailedToRedeemEffect
  <2> HIDE DEF s
  <2> QED BY <1>1, <1>3, <1>8, <2>1, AnswerKeeps DEF s
<1>9. CASE /\ created[r.c.tx] = {r.c.token}
           /\ account' = OnDidRedeemUnblindedToken(s, r.c)
           /\ fate' = earned
  <2> DEFINE kept == [s EXCEPT !.payments = @ \cup {p}]
             t == OnDidRedeemUnblindedToken(s, r.c)
  <2>1. /\ issued \in 0..MaxTokens
        /\ Kempt(account, Opened(fate), issued, spentOn)
        /\ BooksOK(account, captchaShown, fate, credited)
        /\ fate \in [Transactions -> Fates]
    BY IInvFacts
  <2>2. /\ s.requests = account.requests \ {r}
        /\ s.building = account.building /\ s.failed = account.failed
        /\ s.dangling = account.dangling
        /\ s.unblinded = account.unblinded /\ s.payments = account.payments
        /\ s.payout = account.payout /\ s.refill = account.refill
    BY <1>2 DEF Accounts, NoLongerWaits
  <2>3. r.c.tx \in Transactions
    BY <1>3 DEF Confirmations
  <2>4. OptedIn(r.c) /\ p \in PaymentTokens
    <3>1. r.c.token \in Tokens
      BY <1>9, <2>3 DEF IInv, TypeOK
    <3> QED BY <2>3, <3>1 DEF OptedIn, Tokens, NoToken, PaymentTokens
  <2> HIDE DEF s
  <2>5. r.c.tx \in Opened(fate) /\ InHand(s, r.c, opens, issued, spentOn)
    BY <1>2, <2>1, <2>2, DrawnFromRequests
  <2>6. fate[r.c.tx] = "open"
    BY <2>5 DEF Opened
  <2>7. p \notin account.payments
    BY <2>1, <2>6, "open" # "earned" DEF BooksOK, EarningsOK
  <2>8. Left(kept, t) /\ Served(t)
    BY <1>2, <1>3, <2>2, <2>4, <2>7, RedeemedEffect
  <2>9. /\ kept \in Accounts /\ kept.payments = s.payments \cup {p}
        /\ kept.failed = s.failed /\ kept.building = s.building
        /\ kept.dangling = s.dangling
        /\ kept.requests = s.requests /\ kept.unblinded = s.unblinded
        /\ kept.payout = s.payout /\ kept.refill = s.refill
    BY <1>2, <2>4 DEF Accounts
  <2> HIDE DEF kept, t
  <2>10. earned \in [Transactions -> Fates] /\ Opened(earned) = opens
    BY <2>1, <2>3, <2>6 DEF Opened, Fates
  <2>11. Kempt(t, Opened(earned), issued, spentOn)
    <3>1. Left(s, s)
      BY <1>2 DEF Left, Kept, RefillKept
    <3>2. Kempt(s, opens, issued, spentOn)
      BY <2>1, <2>5, <3>1, LetGo
    <3>3. Kempt(kept, opens, issued, spentOn)
      BY <2>9, <3>2, SameKempt
    <3>4. Kempt(t, opens, issued, spentOn)
      BY <2>8, <3>3, SameKempt DEF Left, Kept
    <3> QED BY <2>10, <3>4
  <2>12. BooksOK(kept, captchaShown, earned, credited)
    <3>1. RefillOK(kept, captchaShown) /\ PayoutOK(kept)
      BY <2>1, <2>2, <2>9 DEF BooksOK, RefillOK, PayoutOK
    <3>2. /\ \A q \in account.payments : fate[q.tx] = "earned"
          /\ \A tx \in Transactions : fate[tx] = "earned" =>
               tx \in credited \/ \E q \in account.payments : q.tx = tx
          /\ account.payout.credited =>
               \A q \in account.payout.sent : q.tx \in credited
      BY <2>1 DEF BooksOK, EarningsOK
    <3>3. /\ p.tx = r.c.tx /\ \A q \in kept.payments :
               q \in account.payments \/ q = p
          /\ account.payments \subseteq kept.payments /\ p \in kept.payments
      BY <2>2, <2>9
    <3>4. \A q \in kept.payments : earned[q.tx] = "earned"
      BY <2>1, <2>3, <3>2, <3>3
    <3>5. \A tx \in Transactions :
            earned[tx] = "earned" => tx = r.c.tx \/ fate[tx] = "earned"
      BY <2>1, <2>3
    <3>6. \A tx \in Transactions : earned[tx] = "earned" =>
            tx \in credited \/ \E q \in kept.payments : q.tx = tx
      BY <3>2, <3>3, <3>5
    <3>7. EarningsOK(kept, earned, credited)
      BY <2>2, <2>9, <3>2, <3>4, <3>6 DEF EarningsOK
    <3>8. DanglingOK(kept, earned)
      <4>1. \A b \in kept.dangling : b.c.tx \in Transactions
        BY <2>9 DEF Accounts, Confirmations
      <4>2. DanglingOK(account, fate) /\ kept.dangling = account.dangling
        BY <2>1, <2>2, <2>9 DEF BooksOK
      <4>3. \A tx \in Transactions : fate[tx] = "reset" => earned[tx] = "reset"
        BY <2>1, <2>6
      <4> QED BY <4>1, <4>2, <4>3 DEF DanglingOK
    <3> QED BY <3>1, <3>7, <3>8 DEF BooksOK
  <2>13. BooksOK(t, captchaShown, earned, credited)
    BY <2>8, <2>9, <2>12, KeptBooks DEF Left
  <2>14. ServedOK(t)
    BY <2>8, ServedIsOK
  <2>15. account' = t /\ fate' = earned
    BY <1>9 DEF t, s
  <2> HIDE DEF earned
  <2> QED BY <1>1, <2>10, <2>11, <2>13, <2>14, <2>15, HandlerKeeps
          DEF IInv, TypeOK
<1> QED BY <1>5, <1>6, <1>7, <1>8, <1>9

-----------------------------------------------------------------------------
(* The refill.                                                             *)

\* The lists and the payments as they were.
SameButRefill(s, t) ==
  /\ t \in Accounts
  /\ t.failed = s.failed /\ t.building = s.building
  /\ t.dangling = s.dangling
  /\ t.requests = s.requests /\ t.payments = s.payments
  /\ t.payout = s.payout /\ t.retryTimer = s.retryTimer

LEMMA RefillStepKeeps ==
  ASSUME IInv, NEW t, SameButRefill(account, t), RefillStep(t),
         Kempt(t, Opened(fate), issued', spentOn),
         RefillOK(t, captchaShown'),
         issued' \in 0..MaxTokens, captchaShown' \in BOOLEAN
  PROVE  IInv'
<1>1. /\ account' = t
      /\ UNCHANGED <<env, resetting, transactions, posted, created, credited,
                     fate, spentOn, restarts>>
  BY DEF RefillStep
<1>2. TypeOK'
  BY <1>1 DEF IInv, TypeOK, SameButRefill
<1>3. ReconciledWasCredited'
  BY <1>1 DEF IInv, ReconciledWasCredited
<1>4. PayoutOK(t) /\ EarningsOK(t, fate, credited) /\ DanglingOK(t, fate)
  BY DEF IInv, BooksOK, SameButRefill, PayoutOK, EarningsOK, DanglingOK
<1>5. ServedOK(t)
  BY SameServed DEF IInv, SameButRefill
<1> QED BY <1>1, <1>2, <1>3, <1>4, <1>5 DEF IInv, BooksOK

\* A step of the refill that brings no tokens.
LEMMA EmptyRefillKeeps ==
  ASSUME IInv, NEW t, SameButRefill(account, t), RefillStep(t),
         t.unblinded = account.unblinded,
         RefillOK(t, captchaShown'),
         UNCHANGED issued, captchaShown' \in BOOLEAN
  PROVE  IInv'
<1>1. Kempt(t, Opened(fate), issued, spentOn) /\ issued \in 0..MaxTokens
  BY IInvFacts, SameKempt DEF SameButRefill
<1> QED BY <1>1, RefillStepKeeps

\* The refill as the client has it, with another state x of its request.
LEMMA RefillFields ==
  ASSUME NEW s \in Accounts, NEW x \in Refills, NEW t,
         t = [s EXCEPT !.refill = x]
  PROVE  SameButRefill(s, t) /\ t.unblinded = s.unblinded /\ t.refill = x
BY DEF SameButRefill, Accounts

LEMMA FailedRefillEffect ==
  ASSUME IInv, NEW shouldRetry \in BOOLEAN
  PROVE  LET t == OnFailedToRefill(RefillAnswered(account), shouldRetry)
         IN  /\ SameButRefill(account, t) /\ t.unblinded = account.unblinded
             /\ account.refill.asked # "" => RefillOK(t, captchaShown)
<1> DEFINE before == account.refill
           x == IF shouldRetry
                THEN [before EXCEPT !.asked = "", !.timer = TRUE]
                ELSE [before EXCEPT !.asked = "", !.processing = FALSE]
           t == [account EXCEPT !.refill = x]
<1>1. account \in Accounts /\ RefillOK(account, captchaShown)
  BY IInvFacts DEF BooksOK
<1>2. before \in Refills
  BY <1>1 DEF Accounts
<1>3. OnFailedToRefill(RefillAnswered(account), shouldRetry) = t
  BY <1>1 DEF OnFailedToRefill, RefillAnswered, Accounts, Refills
<1>4. x \in Refills
  BY <1>2 DEF Refills
<1>5. /\ x.count = before.count
      /\ x.processing => shouldRetry
      /\ shouldRetry => x.timer
  BY <1>2 DEF Refills
<1> HIDE DEF x
<1>6. SameButRefill(account, t) /\ t.unblinded = account.unblinded
      /\ t.refill = x
  BY <1>1, <1>4, RefillFields
<1>7. before.asked # "" => RefillOK(t, captchaShown)
  BY <1>1, <1>5, <1>6 DEF RefillOK
<1> HIDE DEF t
<1> QED BY <1>3, <1>6, <1>7

LEMMA AskedKeeps ==
  ASSUME IInv, OnRequestSignedTokens
  PROVE  IInv'
<1> DEFINE x == [account.refill EXCEPT !.nonce = TRUE,
                                       !.asked = "GetSignedTokens"]
           t == [account EXCEPT !.refill = x]
<1>1. account \in Accounts /\ RefillOK(account, captchaShown)
  BY IInvFacts DEF BooksOK
<1>2. account.refill \in Refills
  BY <1>1 DEF Accounts
<1>3. [RefillAnswered(account) EXCEPT !.refill.nonce = TRUE,
                                      !.refill.asked = "GetSignedTokens"] = t
  BY <1>1 DEF RefillAnswered, Accounts, Refills
<1>4. /\ account.refill.asked = "RequestSignedTokens"
      /\ UNCHANGED <<issued, captchaShown>>
      /\ \/ RefillStep(t)
         \/ \E shouldRetry \in BOOLEAN :
              RefillStep(OnFailedToRefill(RefillAnswered(account), shouldRetry))
  BY <1>3 DEF OnRequestSignedTokens
<1>5. captchaShown' \in BOOLEAN
  BY <1>4 DEF IInv, TypeOK
<1>6. CASE RefillStep(t)
  <2>1. x \in Refills /\ x.count = account.refill.count /\ x.asked # ""
    BY <1>2 DEF Refills
  <2> HIDE DEF x
  <2>2. SameButRefill(account, t) /\ t.unblinded = account.unblinded
        /\ t.refill = x
    BY <1>1, <2>1, RefillFields
  <2>3. account.refill.asked # ""
    BY <1>4
  <2>4. RefillOK(t, captchaShown)
    BY <1>1, <2>1, <2>2, <2>3 DEF RefillOK
  <2> HIDE DEF t
  <2> QED BY <1>4, <1>5, <1>6, <2>2, <2>4, EmptyRefillKeeps
<1>7. ASSUME NEW shouldRetry \in BOOLEAN,
             RefillStep(OnFailedToRefill(RefillAnswered(account), shouldRetry))
      PROVE  IInv'
  <2> DEFINE f == OnFailedToRefill(RefillAnswered(account), shouldRetry)
  <2>1. account.refill.asked # ""
    BY <1>4
  <2>2. SameButRefill(account, f) /\ f.unblinded = account.unblinded
        /\ RefillOK(f, captchaShown)
    BY <2>1, FailedRefillEffect
  <2> HIDE DEF f
  <2>3. RefillStep(f)
    BY <1>7 DEF f
  <2> QED BY <1>4, <1>5, <2>2, <2>3, EmptyRefillKeeps
<1> QED BY <1>4, <1>6, <1>7

LEMMA TokensArriveKeeps ==
  ASSUME IInv, NEW last, last = issued + account.refill.count,
         last <= MaxTokens, issued' = last, UNCHANGED captchaShown,
         account.refill.asked # "",
         RefillStep(OnDidRefill(RefillAnswered(account), issued + 1 .. last))
  PROVE  IInv'
<1> DEFINE before == account.refill
           count == before.count
           tokens == issued + 1 .. last
           x == [before EXCEPT !.asked = "", !.timer = FALSE,
                               !.processing = FALSE]
           more == account.unblinded \cup tokens
           t == [account EXCEPT !.unblinded = more, !.refill = x]
           m == Cardinality(account.unblinded)
           k == Cardinality(tokens)
<1>1. /\ account \in Accounts /\ issued \in 0..MaxTokens
      /\ Kempt(account, Opened(fate), issued, spentOn)
      /\ RefillOK(account, captchaShown)
  BY IInvFacts DEF BooksOK
<1>2. before \in Refills
  BY <1>1 DEF Accounts
<1>3. OnDidRefill(RefillAnswered(account), tokens) = t
  BY <1>1 DEF OnDidRefill, RefillAnswered, Accounts, Refills
<1>4. /\ x \in Refills /\ x.asked = "" /\ ~x.timer /\ ~x.processing
      /\ count \in 0..MaximumTokens
  BY <1>2 DEF Refills
<1>5. /\ last \in issued..MaxTokens /\ last \in 0..MaxTokens
      /\ tokens \in SUBSET Tokens /\ k = count
  BY <1>1, <1>4, NewTokens
<1>6. account.unblinded \in SUBSET Tokens /\ more \in SUBSET Tokens
  BY <1>1, <1>5 DEF Accounts
<1> HIDE DEF x
<1>7. /\ t \in Accounts /\ t.unblinded = more /\ t.refill = x
      /\ t.failed = account.failed /\ t.building = account.building
      /\ t.dangling = account.dangling
      /\ t.requests = account.requests /\ t.payments = account.payments
      /\ t.payout = account.payout /\ t.retryTimer = account.retryTimer
  BY <1>1, <1>4, <1>6 DEF Accounts
<1> HIDE DEF t
<1>8. Kempt(t, Opened(fate), last, spentOn)
  <2>1. TokensOK(more, Claims(account), last, spentOn)
    BY <1>1, <1>5, TokensIssued DEF Kempt
  <2>2. InQueue(t) = InQueue(account) /\ Waiting(t) = Waiting(account)
        /\ Building(t) = Building(account)
    BY <1>7 DEF InQueue, Waiting, Building
  <2>3. PlacesOK(t) /\ Open(t) = Opened(fate) /\ BuildingOK(t)
        /\ Claims(t) = Claims(account)
    BY <1>1, <1>7, <2>2
       DEF Kempt, PlacesOK, Open, BuildingOK, Claims, Dangling
  <2> QED BY <1>7, <2>1, <2>3 DEF Kempt
<1>9. Cardinality(more) <= MaximumTokens
  <2>1. m + k <= MaximumTokens
    BY <1>1, <1>5 DEF RefillOK
  <2> HIDE DEF tokens
  <2> QED BY <1>5, <1>6, <2>1, MoreTokens, TokensAssumption
<1>10. RefillOK(t, captchaShown)
  BY <1>4, <1>7, <1>9 DEF RefillOK
<1>11. SameButRefill(account, t)
  BY <1>7 DEF SameButRefill
<1>12. captchaShown \in BOOLEAN
  BY DEF IInv, TypeOK
<1>13. RefillStep(t)
  BY <1>3
<1> QED BY <1>5, <1>8, <1>10, <1>11, <1>12, <1>13, RefillStepKeeps

LEMMA GotKeeps ==
  ASSUME IInv, OnGetSignedTokens
  PROVE  IInv'
<1> DEFINE last == issued + account.refill.count
           s == RefillAnswered(account)
<1>1. account \in Accounts /\ RefillOK(account, captchaShown)
  BY IInvFacts DEF BooksOK
<1>2. account.refill.asked # ""
  BY DEF OnGetSignedTokens
<1>3. \/ /\ last <= MaxTokens /\ issued' = last /\ UNCHANGED captchaShown
         /\ RefillStep(OnDidRefill(s, issued + 1 .. last))
      \/ /\ \E shouldRetry \in BOOLEAN :
              RefillStep(OnFailedToRefill(s, shouldRetry))
         /\ UNCHANGED <<issued, captchaShown>>
      \/ /\ RefillStep(s) /\ captchaShown' = TRUE /\ UNCHANGED issued
  BY DEF OnGetSignedTokens
<1>4. CASE /\ last <= MaxTokens /\ issued' = last /\ UNCHANGED captchaShown
           /\ RefillStep(OnDidRefill(s, issued + 1 .. last))
  BY <1>2, <1>4, TokensArriveKeeps
<1>5. ASSUME NEW shouldRetry \in BOOLEAN,
             RefillStep(OnFailedToRefill(s, shouldRetry)),
             UNCHANGED <<issued, captchaShown>>
      PROVE  IInv'
  <2> DEFINE f == OnFailedToRefill(s, shouldRetry)
  <2>1. SameButRefill(account, f) /\ f.unblinded = account.unblinded
        /\ RefillOK(f, captchaShown)
    BY <1>2, FailedRefillEffect
  <2> HIDE DEF f
  <2>2. RefillStep(f)
    BY <1>5 DEF f
  <2>3. captchaShown \in BOOLEAN
    BY DEF IInv, TypeOK
  <2> QED BY <1>5, <2>1, <2>2, <2>3, EmptyRefillKeeps
<1>6. CASE RefillStep(s) /\ captchaShown' = TRUE /\ UNCHANGED issued
  <2> DEFINE x == [account.refill EXCEPT !.asked = ""]
  <2>1. account.refill \in Refills
    BY <1>1 DEF Accounts
  <2>2. x \in Refills /\ x.asked = "" /\ x.count = account.refill.count
        /\ x.timer = account.refill.timer
    BY <2>1 DEF Refills
  <2>3. s = [account EXCEPT !.refill = x]
    BY <1>1 DEF RefillAnswered, Accounts, Refills
  <2> HIDE DEF x, s
  <2>4. SameButRefill(account, s) /\ s.unblinded = account.unblinded
        /\ s.refill = x
    BY <1>1, <2>2, <2>3, RefillFields
  <2>5. RefillOK(s, TRUE)
    BY <1>1, <2>2, <2>4 DEF RefillOK
  <2> QED BY <1>6, <2>4, <2>5, EmptyRefillKeeps
<1> QED BY <1>3, <1>4, <1>5, <1>6

LEMMA RetryRefillKeeps ==
  ASSUME IInv, OnRetryRefill
  PROVE  IInv'
<1> DEFINE before == account.refill
           x == [before EXCEPT !.timer = FALSE]
           s == [account EXCEPT !.refill = x]
           y == [before EXCEPT !.timer = FALSE, !.asked = "GetSignedTokens"]
           t == [account EXCEPT !.refill = y]
           u == RequestSignedTokens(s)
<1>1. account \in Accounts /\ RefillOK(account, captchaShown)
  BY IInvFacts DEF BooksOK
<1>2. before \in Refills
  BY <1>1 DEF Accounts
<1>3. /\ s = [account EXCEPT !.refill.timer = FALSE]
      /\ t = [s EXCEPT !.refill.asked = "GetSignedTokens"]
  BY <1>1 DEF Accounts, Refills
<1>4. /\ before.timer /\ UNCHANGED <<issued, captchaShown>>
      /\ RefillStep(t) \/ RefillStep(u)
  BY <1>3 DEF OnRetryRefill
<1>5. captchaShown \in BOOLEAN
  BY DEF IInv, TypeOK
<1>6. CASE RefillStep(t)
  <2>1. y \in Refills /\ y.asked # "" /\ y.count = before.count
    BY <1>2 DEF Refills
  <2> HIDE DEF y
  <2>2. SameButRefill(account, t) /\ t.unblinded = account.unblinded
        /\ t.refill = y
    BY <1>1, <2>1, RefillFields
  <2>3. RefillOK(t, captchaShown)
    BY <1>1, <1>4, <2>1, <2>2 DEF RefillOK
  <2> HIDE DEF t
  <2> QED BY <1>4, <1>5, <1>6, <2>2, <2>3, EmptyRefillKeeps
<1>7. CASE RefillStep(u)
  <2>1. x \in Refills
    BY <1>2 DEF Refills
  <2> HIDE DEF x
  <2>2. SameButRefill(account, s) /\ s.unblinded = account.unblinded
    BY <1>1, <2>1, RefillFields
  <2>3. Cardinality(account.unblinded) <= MaximumTokens
    BY <1>1 DEF RefillOK
  <2>4. s \in Accounts /\ Cardinality(s.unblinded) <= MaximumTokens
    BY <2>2, <2>3 DEF SameButRefill
  <2> HIDE DEF s
  <2>5. /\ SameLists(s, u) /\ u.retryTimer = s.retryTimer
        /\ u.refill.asked # ""
        /\ u.refill.count = MaximumTokens - Cardinality(u.unblinded)
    BY <2>4, RequestAsks
  <2> HIDE DEF u
  <2>6. SameButRefill(account, u) /\ u.unblinded = account.unblinded
    BY <2>2, <2>5 DEF SameButRefill, SameLists
  <2>7. Cardinality(u.unblinded) \in Nat /\ MaximumTokens \in Nat
    BY <2>6, TokensFinite, TokensAssumption DEF SameButRefill, Accounts
  <2>8. Cardinality(u.unblinded) + u.refill.count <= MaximumTokens
    BY <2>5, <2>7, RoomTaken
  <2>9. RefillOK(u, captchaShown)
    BY <2>3, <2>5, <2>6, <2>8 DEF RefillOK
  <2> QED BY <1>4, <1>5, <1>7, <2>6, <2>9, EmptyRefillKeeps
<1> QED BY <1>4, <1>6, <1>7

-----------------------------------------------------------------------------
(* The redemption of payment tokens.                                       *)

\* The confirmations, their tokens and the refill as they were.
SameButPayout(s, t) ==
  /\ t \in Accounts
  /\ t.failed = s.failed /\ t.building = s.building
  /\ t.dangling = s.dangling
  /\ t.requests = s.requests /\ t.unblinded = s.unblinded
  /\ t.retryTimer = s.retryTimer /\ t.refill = s.refill

\* Nothing is under way, but the wallet is known.
Between(s) ==
  LET p == s.payout
  IN  /\ ~p.credited /\ ~p.processing /\ ~p.timer /\ ~p.retryTimer
      /\ p.sent = {} /\ p.wallet # 0

LEMMA PayoutFields ==
  ASSUME NEW s \in Accounts, NEW x \in Payouts, NEW t,
         t = [s EXCEPT !.payout = x]
  PROVE  SameButPayout(s, t) /\ t.payments = s.payments /\ t.payout = x
BY DEF SameButPayout, Accounts

\* From there the timer is started.
LEMMA ScheduleEffect ==
  ASSUME NEW s \in Accounts, Between(s)
  PROVE  LET t == ScheduleNextTokenRedemption(s)
         IN  /\ SameButPayout(s, t) /\ t.payments = s.payments
             /\ PayoutOK(t) /\ ~t.payout.credited
<1> DEFINE x == [s.payout EXCEPT !.wallet = s.payout.wallet, !.timer = TRUE]
           t == [s EXCEPT !.payout = x]
<1>1. s.payout \in Payouts
  BY DEF Accounts
<1>2. ScheduleNextTokenRedemption(s) = t
  BY <1>1 DEF ScheduleNextTokenRedemption, MaybeRedeemAfterDelay, Between,
              Accounts, Payouts
<1>3. /\ x \in Payouts /\ x.timer /\ x.wallet = s.payout.wallet
      /\ x.credited = s.payout.credited /\ x.sent = s.payout.sent
      /\ x.processing = s.payout.processing
      /\ x.retryTimer = s.payout.retryTimer
  BY <1>1 DEF Payouts
<1> HIDE DEF x
<1>4. SameButPayout(s, t) /\ t.payments = s.payments /\ t.payout = x
  BY <1>3, PayoutFields
<1> HIDE DEF t
<1>5. PayoutOK(t) /\ ~t.payout.credited
  BY <1>3, <1>4 DEF PayoutOK, Between
<1> QED BY <1>2, <1>4, <1>5

LEMMA RedeemPaymentsEffect ==
  ASSUME NEW s \in Accounts, Between(s)
  PROVE  LET t == RedeemPayments(s)
         IN  /\ SameButPayout(s, t) /\ t.payments = s.payments
             /\ PayoutOK(t) /\ ~t.payout.credited
<1> DEFINE x == [s.payout EXCEPT !.processing = TRUE, !.sent = s.payments,
                                 !.credited = FALSE]
           t == [s EXCEPT !.payout = x]
<1>1. s.payout \in Payouts
  BY DEF Accounts
<1>2. CASE s.payments = {}
  BY <1>2, ScheduleEffect DEF RedeemPayments
<1>3. CASE s.payments # {}
  <2>1. RedeemPayments(s) = t
    BY <1>1, <1>3 DEF RedeemPayments, Accounts, Payouts
  <2>2. /\ x \in Payouts /\ x.timer = s.payout.timer
        /\ x.wallet = s.payout.wallet /\ ~x.credited
        /\ x.sent = s.payments /\ x.retryTimer = s.payout.retryTimer
    BY <1>1 DEF Payouts, Accounts
  <2> HIDE DEF x
  <2>3. SameButPayout(s, t) /\ t.payments = s.payments /\ t.payout = x
    BY <2>2, PayoutFields
  <2> HIDE DEF t
  <2>4. PayoutOK(t) /\ ~t.payout.credited
    BY <1>3, <2>2, <2>3 DEF PayoutOK, Between
  <2> QED BY <2>1, <2>3, <2>4
<1> QED BY <1>2, <1>3

LEMMA PayoutStepKeeps ==
  ASSUME IInv, NEW t, SameButPayout(account, t), PayoutStep(t),
         PayoutOK(t), EarningsOK(t, fate, credited'),
         credited' \subseteq Transactions, credited \subseteq credited',
         transactions' \in
           [Transactions -> {"none", "unreconciled", "reconciled"}],
         \A tx \in Transactions : transactions'[tx] = "reconciled" =>
           transactions[tx] = "reconciled" \/ tx \in credited'
  PROVE  IInv'
<1>1. /\ account' = t
      /\ UNCHANGED <<env, resetting, posted, issued, created, fate, spentOn,
                     history>>
  BY DEF PayoutStep
<1>2. TypeOK'
  BY <1>1 DEF IInv, TypeOK, SameButPayout, history
<1>3. ReconciledWasCredited'
  BY <1>1 DEF IInv, ReconciledWasCredited
<1>4. Kempt(t, Opened(fate), issued, spentOn)
  BY IInvFacts, SameKempt DEF SameButPayout
<1>5. ServedOK(t) /\ RefillOK(t, captchaShown) /\ DanglingOK(t, fate)
  <2>1. ServedOK(t)
    BY IInvFacts, SameServed DEF SameButPayout
  <2>2. RefillOK(account, captchaShown) /\ DanglingOK(account, fate)
    BY IInvFacts DEF BooksOK
  <2> QED BY <2>1, <2>2 DEF SameButPayout, RefillOK, DanglingOK
<1> QED BY <1>1, <1>2, <1>3, <1>4, <1>5 DEF IInv, BooksOK, history

\* A step after which nothing is credited, with the payments as they were.
LEMMA NothingCreditedKeeps ==
  ASSUME IInv, NEW t, SameButPayout(account, t), PayoutStep(t),
         PayoutOK(t), t.payments = account.payments, ~t.payout.credited,
         UNCHANGED <<transactions, credited>>
  PROVE  IInv'
<1>1. EarningsOK(t, fate, credited)
  BY IInvFacts DEF BooksOK, EarningsOK
<1>2. /\ credited \subseteq Transactions
      /\ transactions \in
           [Transactions -> {"none", "unreconciled", "reconciled"}]
  BY DEF IInv, TypeOK
<1> QED BY <1>1, <1>2, PayoutStepKeeps

LEMMA RedeemTimerKeeps ==
  ASSUME IInv, RedeemTimerElapsed
  PROVE  IInv'
<1> DEFINE x == [account.payout EXCEPT !.timer = FALSE]
           s == [account EXCEPT !.payout = x]
           t == RedeemPayments(s)
<1>1. account \in Accounts /\ PayoutOK(account)
  BY IInvFacts DEF BooksOK
<1>2. account.payout \in Payouts
  BY <1>1 DEF Accounts
<1>3. s = [account EXCEPT !.payout.timer = FALSE]
  BY <1>1 DEF Accounts, Payouts
<1>4. /\ account.payout.timer /\ PayoutStep(t)
      /\ UNCHANGED <<transactions, credited>>
  BY <1>3 DEF RedeemTimerElapsed
<1>5. /\ x \in Payouts /\ ~x.timer /\ x.sent = account.payout.sent
      /\ x.wallet = account.payout.wallet
      /\ x.credited = account.payout.credited
      /\ x.processing = account.payout.processing
      /\ x.retryTimer = account.payout.retryTimer
  BY <1>2 DEF Payouts
<1> HIDE DEF x
<1>6. SameButPayout(account, s) /\ s.payments = account.payments
      /\ s.payout = x
  BY <1>1, <1>5, PayoutFields
<1> HIDE DEF s
<1>7. Between(s) /\ s \in Accounts
  BY <1>1, <1>4, <1>5, <1>6 DEF PayoutOK, Between, SameButPayout
<1>8. /\ SameButPayout(s, t) /\ t.payments = s.payments
      /\ PayoutOK(t) /\ ~t.payout.credited
  BY <1>7, RedeemPaymentsEffect
<1> HIDE DEF t
<1>9. SameButPayout(account, t) /\ t.payments = account.payments
  BY <1>6, <1>8 DEF SameButPayout
<1> QED BY <1>4, <1>8, <1>9, NothingCreditedKeeps

LEMMA RetryPayoutKeeps ==
  ASSUME IInv, OnRetryPayout
  PROVE  IInv'
<1> DEFINE x == [account.payout EXCEPT !.retryTimer = FALSE,
                                       !.processing = FALSE]
           s == [account EXCEPT !.payout = x]
           t == RedeemPayments(s)
<1>1. account \in Accounts /\ PayoutOK(account)
  BY IInvFacts DEF BooksOK
<1>2. account.payout \in Payouts
  BY <1>1 DEF Accounts
<1>3. s = [account EXCEPT !.payout.retryTimer = FALSE,
                          !.payout.processing = FALSE]
  BY <1>1 DEF Accounts, Payouts
<1>4. /\ account.payout.retryTimer /\ PayoutStep(t)
      /\ UNCHANGED <<transactions, credited>>
  BY <1>3 DEF OnRetryPayout
<1>5. /\ x \in Payouts /\ x.timer = account.payout.timer
      /\ x.sent = account.payout.sent
      /\ x.wallet = account.payout.wallet
      /\ x.credited = account.payout.credited
      /\ ~x.processing /\ ~x.retryTimer
  BY <1>2 DEF Payouts
<1> HIDE DEF x
<1>6. SameButPayout(account, s) /\ s.payments = account.payments
      /\ s.payout = x
  BY <1>1, <1>5, PayoutFields
<1> HIDE DEF s
<1>7. Between(s) /\ s \in Accounts
  BY <1>1, <1>4, <1>5, <1>6 DEF PayoutOK, Between, SameButPayout
<1>8. /\ SameButPayout(s, t) /\ t.payments = s.payments
      /\ PayoutOK(t) /\ ~t.payout.credited
  BY <1>7, RedeemPaymentsEffect
<1> HIDE DEF t
<1>9. SameButPayout(account, t) /\ t.payments = account.payments
  BY <1>6, <1>8 DEF SameButPayout
<1> QED BY <1>4, <1>8, <1>9, NothingCreditedKeeps

LEMMA CreditsKeeps ==
  ASSUME IInv, ServerCredits
  PROVE  IInv'
<1> DEFINE x == [account.payout EXCEPT !.credited = TRUE]
           t == [account EXCEPT !.payout = x]
           paid == credited \cup {p.tx : p \in account.payout.sent}
<1>1. /\ account \in Accounts /\ PayoutOK(account)
      /\ EarningsOK(account, fate, credited)
  BY IInvFacts DEF BooksOK
<1>2. account.payout \in Payouts
  BY <1>1 DEF Accounts
<1>3. t = [account EXCEPT !.payout.credited = TRUE]
  BY <1>1 DEF Accounts, Payouts
<1>4. /\ account.payout.sent # {} /\ PayoutStep(t) /\ credited' = paid
      /\ UNCHANGED transactions
  BY <1>3 DEF ServerCredits
<1>5. /\ x \in Payouts /\ x.timer = account.payout.timer
      /\ x.sent = account.payout.sent
      /\ x.wallet = account.payout.wallet
      /\ x.processing = account.payout.processing
      /\ x.retryTimer = account.payout.retryTimer
  BY <1>2 DEF Payouts
<1> HIDE DEF x
<1>6. SameButPayout(account, t) /\ t.payments = account.payments
      /\ t.payout = x
  BY <1>1, <1>5, PayoutFields
<1> HIDE DEF t
<1>7. PayoutOK(t)
  BY <1>1, <1>4, <1>5, <1>6 DEF PayoutOK
<1>8. EarningsOK(t, fate, paid)
  BY <1>1, <1>5, <1>6 DEF EarningsOK
<1>9. /\ credited \subseteq Transactions
      /\ transactions \in
           [Transactions -> {"none", "unreconciled", "reconciled"}]
  BY DEF IInv, TypeOK
<1>10. paid \subseteq Transactions
  BY <1>2, <1>9 DEF Payouts, PaymentTokens
<1> QED BY <1>4, <1>6, <1>7, <1>8, <1>9, <1>10, PayoutStepKeeps

LEMMA RedeemedKeeps ==
  ASSUME IInv, OnRedeemPayments
  PROVE  IInv'
<1> DEFINE tokens == account.payout.sent
           x == [account.payout EXCEPT !.sent = {}, !.credited = FALSE,
                                       !.processing = FALSE,
                                       !.retryTimer = FALSE]
           left == account.payments \ tokens
           s == [account EXCEPT !.payout = x, !.payments = left]
           t == ScheduleNextTokenRedemption(s)
<1>1. /\ account \in Accounts /\ PayoutOK(account)
      /\ EarningsOK(account, fate, credited)
  BY IInvFacts DEF BooksOK
<1>2. account.payout \in Payouts
  BY <1>1 DEF Accounts
<1>3. s = RemoveUnblindedPaymentTokens(
            [PayoutAnswered(account) EXCEPT !.payout.processing = FALSE,
                                            !.payout.retryTimer = FALSE],
            tokens)
  BY <1>1 DEF RemoveUnblindedPaymentTokens, PayoutAnswered, Accounts, Payouts
<1>4. /\ account.payout.credited /\ PayoutStep(t)
      /\ transactions' = Reconcile(tokens) /\ UNCHANGED credited
  BY <1>3 DEF OnRedeemPayments
<1>5. /\ x \in Payouts /\ x.timer = account.payout.timer /\ x.sent = {}
      /\ x.wallet = account.payout.wallet /\ ~x.credited
      /\ ~x.processing /\ ~x.retryTimer
  BY <1>2 DEF Payouts
<1> HIDE DEF x
<1>6. /\ SameButPayout(account, s) /\ s.payments = left /\ s.payout = x
  BY <1>1, <1>5 DEF SameButPayout, Accounts
<1> HIDE DEF s
<1>7. Between(s) /\ s \in Accounts
  BY <1>1, <1>4, <1>5, <1>6 DEF PayoutOK, Between, SameButPayout
<1>8. /\ SameButPayout(s, t) /\ t.payments = left
      /\ PayoutOK(t) /\ ~t.payout.credited
  BY <1>6, <1>7, ScheduleEffect
<1> HIDE DEF t
<1>9. SameButPayout(account, t)
  BY <1>6, <1>8 DEF SameButPayout
<1>10. \A p \in tokens : p.tx \in credited
  BY <1>1, <1>4 DEF EarningsOK
<1>11. EarningsOK(t, fate, credited)
  BY <1>1, <1>8, <1>10 DEF EarningsOK
<1>12. /\ credited \subseteq Transactions
       /\ transactions \in
            [Transactions -> {"none", "unreconciled", "reconciled"}]
  BY DEF IInv, TypeOK
<1>13. /\ transactions' \in
            [Transactions -> {"none", "unreconciled", "reconciled"}]
       /\ \A tx \in Transactions : transactions'[tx] = "reconciled" =>
            transactions[tx] = "reconciled" \/ tx \in credited'
  BY <1>4, <1>10, <1>12 DEF Reconcile
<1> QED BY <1>4, <1>8, <1>9, <1>11, <1>12, <1>13, PayoutStepKeeps

LEMMA RedeemFailedKeeps ==
  ASSUME IInv, OnRedeemPaymentsFailed
  PROVE  IInv'
<1> DEFINE x == [account.payout EXCEPT !.sent = {}, !.credited = FALSE,
                                       !.retryTimer = TRUE]
           t == [account EXCEPT !.payout = x]
<1>1. account \in Accounts /\ PayoutOK(account)
  BY IInvFacts DEF BooksOK
<1>2. account.payout \in Payouts
  BY <1>1 DEF Accounts
<1>3. t = [PayoutAnswered(account) EXCEPT !.payout.retryTimer = TRUE]
  BY <1>1 DEF PayoutAnswered, Accounts, Payouts
<1>4. /\ account.payout.sent # {} /\ PayoutStep(t)
      /\ UNCHANGED <<transactions, credited>>
  BY <1>3 DEF OnRedeemPaymentsFailed
<1>5. /\ x \in Payouts /\ x.timer = account.payout.timer /\ x.sent = {}
      /\ x.wallet = account.payout.wallet /\ ~x.credited /\ x.retryTimer
  BY <1>2 DEF Payouts
<1> HIDE DEF x
<1>6. SameButPayout(account, t) /\ t.payments = account.payments
      /\ t.payout = x
  BY <1>1, <1>5, PayoutFields
<1> HIDE DEF t
<1>7. PayoutOK(t) /\ ~t.payout.credited
  BY <1>1, <1>4, <1>5, <1>6 DEF PayoutOK
<1> QED BY <1>4, <1>6, <1>7, NothingCreditedKeeps

-----------------------------------------------------------------------------
(* The account: issuers, the switch, the wallet, a start.                  *)

\* A step that leaves confirmations and payments alone.
LEMMA TopUpKeeps ==
  ASSUME IInv, NEW s \in Accounts, SameLists(account, s),
         s.refill = account.refill, s.retryTimer = account.retryTimer,
         NEW t, t = s \/ t = TopUpUnblindedTokens(s), AccountStep(t),
         resetting' \in BOOLEAN, UNCHANGED <<transactions, fate, restarts>>
  PROVE  IInv'
<1>1. /\ account' = t
      /\ UNCHANGED <<env, posted, server, spentOn, captchaShown>>
  BY DEF AccountStep
<1>2. /\ account \in Accounts /\ ServedOK(account)
      /\ Kempt(account, Opened(fate), issued, spentOn)
      /\ BooksOK(account, captchaShown, fate, credited)
  BY IInvFacts
<1>3. SameLists(s, t) /\ RefillKept(s, t) /\ t.retryTimer = s.retryTimer
  <2>1. CASE t = s
    BY <2>1 DEF SameLists, RefillKept
  <2> QED BY <2>1, TopUpEffect
<1>4. SameLists(account, t) /\ RefillKept(account, t)
      /\ t.retryTimer = account.retryTimer
  BY <1>3 DEF SameLists, RefillKept
<1>5. Kept(account, t)
  BY <1>4 DEF SameLists, Kept
<1>6. BooksOK(t, captchaShown, fate, credited)
  BY <1>2, <1>5, KeptBooks
<1>7. Kempt(t, Opened(fate), issued, spentOn) /\ ServedOK(t)
  BY <1>2, <1>4, SameKempt, SameServed DEF SameLists
<1>8. TypeOK'
  BY <1>1, <1>4 DEF IInv, TypeOK, server, SameLists
<1>9. ReconciledWasCredited'
  BY <1>1 DEF IInv, ReconciledWasCredited, server
<1> QED BY <1>1, <1>6, <1>7, <1>8, <1>9 DEF IInv, server

LEMMA IssuersKeeps ==
  ASSUME IInv, OnDidFetchIssuers
  PROVE  IInv'
<1> DEFINE s == [account EXCEPT !.issuers = TRUE]
           t == TopUpUnblindedTokens(s)
<1>1. account \in Accounts /\ resetting \in BOOLEAN
  BY IInvFacts DEF IInv, TypeOK
<1>2. /\ s \in Accounts /\ SameLists(account, s)
      /\ s.refill = account.refill /\ s.retryTimer = account.retryTimer
  BY <1>1 DEF Accounts, SameLists
<1>3. AccountStep(t) /\ UNCHANGED <<resetting, transactions, fate, restarts>>
  BY DEF OnDidFetchIssuers
<1> HIDE DEF s
<1> QED BY <1>1, <1>2, <1>3, TopUpKeeps

LEMMA SwitchKeeps ==
  ASSUME IInv, SetEnabled \/ OnExternalWalletConnected
  PROVE  IInv'
<1> DEFINE switched == [account EXCEPT !.enabled = ~@, !.notified = TRUE]
           connected == [account EXCEPT !.migrate = TRUE, !.notified = TRUE]
<1>1. account \in Accounts /\ resetting \in BOOLEAN
  BY IInvFacts DEF IInv, TypeOK
<1>2. \A s \in {switched, connected} :
        /\ s \in Accounts /\ SameLists(account, s)
        /\ s.refill = account.refill /\ s.retryTimer = account.retryTimer
  BY <1>1 DEF Accounts, SameLists
<1>3. PICK s \in {switched, connected} :
        AccountStep(s) /\ UNCHANGED <<resetting, transactions, fate, restarts>>
  BY DEF SetEnabled, OnExternalWalletConnected
<1> HIDE DEF switched, connected
<1> QED BY <1>1, <1>2, <1>3, TopUpKeeps

LEMMA WalletKeeps ==
  ASSUME IInv, NEW wallet \in {1, 2}, SetWallet(wallet)
  PROVE  IInv'
<1> DEFINE s == [account EXCEPT !.wallet = wallet]
           t == TopUpUnblindedTokens(s)
<1>1. account \in Accounts /\ resetting \in BOOLEAN
  BY IInvFacts DEF IInv, TypeOK
<1>2. /\ s \in Accounts /\ SameLists(account, s)
      /\ s.refill = account.refill /\ s.retryTimer = account.retryTimer
  BY <1>1 DEF Accounts, SameLists, Wallets
<1>3. /\ \/ AccountStep(t) /\ UNCHANGED resetting
         \/ AccountStep(s) /\ resetting' = TRUE
      /\ UNCHANGED <<transactions, fate, restarts>>
  BY DEF SetWallet
<1>4. resetting' \in BOOLEAN
  BY <1>1, <1>3
<1> HIDE DEF s
<1> QED BY <1>2, <1>3, <1>4, TopUpKeeps

LEMMA QueuedTxs ==
  ASSUME NEW s
  PROVE  Queued(s) = TxsOf(InQueue(s))
BY DEF Queued, TxsOf, InQueue

LEMMA NoneQueued ==
  ASSUME NEW s, s.failed = <<>>
  PROVE  InQueue(s) = {} /\ TxsOf(InQueue(s)) = {}
<1>1. DOMAIN s.failed = {}
  OBVIOUS
<1> QED BY <1>1 DEF InQueue, TxsOf

LEMMA ResetKeeps ==
  ASSUME IInv, OnResetRewards
  PROVE  IInv'
<1> DEFINE s == [account EXCEPT !.failed = <<>>, !.payments = {},
                                !.unblinded = {}]
           t == TopUpUnblindedTokens(s)
           gone == Removed(account)
           became == [tx \in Transactions |->
                        IF tx \in gone THEN "reset" ELSE fate[tx]]
           opens == Opened(fate) \ Queued(account)
<1>1. /\ account \in Accounts /\ issued \in 0..MaxTokens
      /\ Kempt(account, Opened(fate), issued, spentOn)
      /\ BooksOK(account, captchaShown, fate, credited)
      /\ fate \in [Transactions -> Fates]
  BY IInvFacts
<1>2. /\ account' = t /\ resetting' = FALSE /\ fate' = became
      /\ transactions' = [tx \in Transactions |-> "none"]
      /\ UNCHANGED <<env, posted, server, spentOn, captchaShown, restarts>>
  BY DEF OnResetRewards, AccountStep
<1>0. gone = Queued(account) \cup {p.tx : p \in account.payments}
  BY DEF Removed
<1> HIDE DEF gone
<1>3. <<>> \in Seq(Confirmations)
  OBVIOUS
<1>4. /\ s \in Accounts /\ s.failed = <<>> /\ s.payments = {}
      /\ s.unblinded = {} /\ s.building = account.building
      /\ s.dangling = account.dangling
      /\ s.requests = account.requests /\ s.payout = account.payout
      /\ s.refill = account.refill
  BY <1>1, <1>3 DEF Accounts
<1> HIDE DEF s
<1>5. /\ t \in Accounts /\ t.failed = s.failed /\ t.payments = s.payments
      /\ t.unblinded = s.unblinded /\ t.building = s.building
      /\ t.dangling = s.dangling
      /\ t.requests = s.requests /\ Kept(s, t)
  BY <1>4, TopUpEffect DEF SameLists, Kept
<1> HIDE DEF t
<1>6. Kempt(s, opens, issued, spentOn)
  <2>1. InQueue(s) = {} /\ TxsOf(InQueue(s)) = {}
    BY <1>4, NoneQueued
  <2>2. Waiting(s) = Waiting(account) /\ Building(s) = Building(account)
    BY <1>4 DEF Waiting, Building
  <2>3. PlacesOK(s) /\ BuildingOK(s)
    BY <1>1, <1>4, <2>1, <2>2 DEF Kempt, PlacesOK, BuildingOK
  <2>4. Open(s) = Open(account) \ TxsOf(InQueue(account))
    BY <1>1, <2>1, <2>2 DEF Kempt, PlacesOK, Open
  <2>5. Open(s) = opens
    BY <1>1, <2>4, QueuedTxs DEF Kempt
  <2>6. Claims(s) \subseteq Claims(account)
    BY <1>4, <2>1, <2>2 DEF Claims, Dangling
  <2>7. TokensOK(account.unblinded, Claims(account), issued, spentOn)
    BY <1>1 DEF Kempt
  <2>8. TokensOK(s.unblinded, Claims(s), issued, spentOn)
    BY <1>1, <1>4, <2>6, <2>7, TokensMono
  <2> QED BY <1>4, <2>3, <2>5, <2>8 DEF Kempt
<1>7. /\ \A p \in account.payments : fate[p.tx] = "earned"
      /\ \A tx \in Transactions : fate[tx] = "earned" =>
           tx \in credited \/ \E p \in account.payments : p.tx = tx
  BY <1>1 DEF BooksOK, EarningsOK
<1>8. /\ became \in [Transactions -> Fates] /\ Opened(became) = opens
  <2>1. "reset" \in Fates /\ "reset" # "open" /\ "earned" # "open"
    BY DEF Fates
  <2>2. became \in [Transactions -> Fates]
    BY <1>1, <2>1
  <2>3. \A tx \in Transactions :
          became[tx] = "open" <=> fate[tx] = "open" /\ tx \notin Queued(account)
    BY <1>0, <1>7, <2>1
  <2> HIDE DEF became
  <2> QED BY <2>2, <2>3 DEF Opened
<1>9. BooksOK(s, captchaShown, became, credited)
  <2>1. PayoutOK(s)
    BY <1>1, <1>4 DEF BooksOK, PayoutOK
  <2>2. RefillOK(s, captchaShown)
    <3>1. Kept(account, [account EXCEPT !.unblinded = {}])
      BY <1>1 DEF Kept, RefillKept, Accounts
    <3>2. RefillOK([account EXCEPT !.unblinded = {}], captchaShown)
      BY <1>1, <3>1, KeptBooks DEF BooksOK
    <3>3. /\ [account EXCEPT !.unblinded = {}].unblinded = {}
          /\ [account EXCEPT !.unblinded = {}].refill = account.refill
      BY <1>1 DEF Accounts
    <3> QED BY <1>4, <3>2, <3>3 DEF RefillOK
  <2>3. \A tx \in Transactions :
          became[tx] = "earned" => tx \notin gone /\ fate[tx] = "earned"
    OBVIOUS
  <2>4. \A tx \in Transactions : became[tx] = "earned" => tx \in credited
    BY <1>0, <1>7, <2>3
  <2>5. account.payout.credited =>
          \A p \in account.payout.sent : p.tx \in credited
    BY <1>1 DEF BooksOK, EarningsOK
  <2>6. EarningsOK(s, became, credited)
    BY <1>4, <2>4, <2>5 DEF EarningsOK
  <2>7. DanglingOK(s, became)
    <3>1. \A b \in s.dangling : b.c.tx \in Transactions
      BY <1>4 DEF Accounts, Confirmations
    <3> QED BY <1>1, <1>4, <3>1 DEF BooksOK, DanglingOK
  <2> QED BY <2>1, <2>2, <2>6, <2>7 DEF BooksOK
<1> HIDE DEF became
<1>10. BooksOK(t, captchaShown, became, credited)
  BY <1>4, <1>5, <1>9, KeptBooks
<1>11. Kempt(t, Opened(became), issued, spentOn)
  BY <1>5, <1>6, <1>8, SameKempt
<1>12. ServedOK(t)
  BY <1>4, <1>5, ServedIsOK DEF Served
<1>13. TypeOK'
  BY <1>2, <1>5, <1>8 DEF IInv, TypeOK, server
<1>14. ReconciledWasCredited'
  BY <1>2 DEF ReconciledWasCredited
<1> QED BY <1>2, <1>10, <1>11, <1>12, <1>13, <1>14 DEF IInv, server

\* The queue is looked at and the timer of the payments started.
SameButTimers(s, t) ==
  /\ t \in Accounts
  /\ t.failed = s.failed /\ t.building = s.building
  /\ t.dangling = s.dangling
  /\ t.requests = s.requests /\ t.unblinded = s.unblinded
  /\ t.refill = s.refill /\ t.payments = s.payments

LEMMA ClearingEffect ==
  ASSUME NEW s \in Accounts, PayoutOK(s), s.payout.sent = {}
  PROVE  LET t == ProcessClearingCycle(s)
         IN  /\ SameButTimers(s, t)
             /\ t.retryTimer \/ t.failed = <<>>
             /\ PayoutOK(t) /\ t.payout.sent = {}
<1> DEFINE u == ProcessRetryQueue(s)
           x == [s.payout EXCEPT !.wallet = s.wallet, !.timer = TRUE]
           v == [u EXCEPT !.payout = x]
           t == ProcessClearingCycle(s)
<1>1. /\ SameButTimer(s, u) /\ u \in Accounts
      /\ u.retryTimer \/ u.failed = <<>>
      /\ u.payout = s.payout
  BY TimerEffect DEF SameButTimer, SameLists
<1>2. /\ s.wallet \in Wallets /\ u.wallet = s.wallet /\ u.enabled = s.enabled
      /\ s.payout \in Payouts
  BY DEF Accounts, ProcessRetryQueue
<1>3. \/ t = u
      \/ /\ s.wallet # 0 /\ ~u.payout.processing /\ ~u.payout.timer
         /\ ~u.payout.retryTimer
         /\ t = [u EXCEPT !.payout.wallet = s.wallet, !.payout.timer = TRUE]
  BY <1>2 DEF ProcessClearingCycle, MaybeRedeemAfterDelay
<1> HIDE DEF u
<1>4. [u EXCEPT !.payout.wallet = s.wallet, !.payout.timer = TRUE] = v
  BY <1>1, <1>2 DEF Accounts, Payouts
<1> SUFFICES /\ SameButTimers(s, t)
             /\ t.retryTimer \/ t.failed = <<>>
             /\ PayoutOK(t) /\ t.payout.sent = {}
  OBVIOUS
<1> HIDE DEF t
<1>5. CASE t = u
  BY <1>1, <1>5 DEF SameButTimer, SameLists, SameButTimers, PayoutOK
<1>6. CASE /\ s.wallet # 0 /\ ~u.payout.processing /\ ~u.payout.timer
           /\ ~u.payout.retryTimer /\ t = v
  <2>1. /\ x \in Payouts /\ x.timer /\ x.wallet # 0
        /\ x.credited = s.payout.credited
        /\ x.sent = {} /\ ~x.retryTimer /\ ~x.processing
    BY <1>1, <1>2, <1>6 DEF Payouts
  <2> HIDE DEF x
  <2>2. /\ SameButPayout(u, v) /\ v.payments = u.payments /\ v.payout = x
    BY <1>1, <2>1, PayoutFields
  <2> HIDE DEF v
  <2>3. PayoutOK(v) /\ v.payout.sent = {}
    BY <2>1, <2>2 DEF PayoutOK
  <2> QED BY <1>1, <1>6, <2>2, <2>3
          DEF SameButTimer, SameLists, SameButPayout, SameButTimers
<1> QED BY <1>3, <1>4, <1>5, <1>6

\* What a reset leaves behind.
Emptied(t, dangling) ==
  /\ t \in Accounts
  /\ t.failed = <<>> /\ t.building = {} /\ t.requests = {}
  /\ t.unblinded = {} /\ t.payments = {} /\ t.dangling = dangling
  /\ t.refill = IdleRefill /\ PayoutOK(t) /\ t.payout.sent = {}

LEMMA IdleObjects ==
  IdleRefill \in Refills /\ IdlePayout \in Payouts
BY TokensAssumption DEF IdleRefill, IdlePayout, Refills, Payouts, Wallets

LEMMA ResetEffect ==
  ASSUME NEW s \in Accounts, ShouldResetIssuersAndConfirmations(s)
  PROVE  Emptied(MaybeResetIssuersAndConfirmations(s),
                 s.dangling \cup s.building)
<1> DEFINE u == [s EXCEPT !.retryTimer = FALSE, !.building = {},
                          !.requests = {}, !.dangling = @ \cup s.building,
                          !.orphaned = TRUE, !.refill = IdleRefill,
                          !.payout = IdlePayout, !.failed = <<>>,
                          !.payments = {}, !.unblinded = {},
                          !.issuers = FALSE, !.migrate = FALSE]
<1>1. MaybeResetIssuersAndConfirmations(s) = ProcessClearingCycle(u)
  BY DEF MaybeResetIssuersAndConfirmations
<1>2. <<>> \in Seq(Confirmations)
  OBVIOUS
<1>3. /\ u \in Accounts /\ u.failed = <<>> /\ u.building = {}
      /\ u.requests = {} /\ u.unblinded = {} /\ u.payments = {}
      /\ u.dangling = s.dangling \cup s.building
      /\ u.refill = IdleRefill /\ u.payout = IdlePayout
  BY <1>2, IdleObjects DEF Accounts
<1> HIDE DEF u
<1>4. PayoutOK(u) /\ u.payout.sent = {}
  BY <1>3 DEF PayoutOK, IdlePayout
<1> QED BY <1>1, <1>3, <1>4, ClearingEffect DEF SameButTimers, Emptied

LEMMA RefillIsIdle ==
  /\ IdleRefill.asked = "" /\ IdleRefill.timer = FALSE
  /\ IdleRefill.processing = FALSE
BY DEF IdleRefill


LEMMA ProcessedEmptied ==
  ASSUME NEW s, NEW dangling, Emptied(s, dangling)
  PROVE  Emptied(ProcessClearingCycle(s), dangling)
BY ClearingEffect DEF Emptied, SameButTimers

\* A step of the account after which no confirmation, no token and no payment
\* token is left.
LEMMA EmptiedKeeps ==
  ASSUME IInv, NEW t, NEW dangling, Emptied(t, dangling), AccountStep(t),
         dangling \subseteq account.dangling \cup account.building,
         resetting' \in BOOLEAN, restarts' \in 0..MaxRestarts,
         UNCHANGED transactions,
         NEW became \in [Transactions -> Fates], fate' = became,
         \A tx \in Transactions :
           /\ became[tx] # "open"
           /\ became[tx] = "earned" =>
                fate[tx] = "earned" /\ tx \notin Removed(account),
         \A b \in dangling : became[b.c.tx] = "reset"
  PROVE  IInv'
<1>1. /\ account \in Accounts /\ issued \in 0..MaxTokens
      /\ Kempt(account, Opened(fate), issued, spentOn)
      /\ BooksOK(account, captchaShown, fate, credited)
      /\ fate \in [Transactions -> Fates]
  BY IInvFacts
<1>2. /\ account' = t
      /\ UNCHANGED <<env, posted, server, spentOn, captchaShown>>
  BY DEF AccountStep
<1>3. /\ t \in Accounts /\ t.failed = <<>> /\ t.building = {}
      /\ t.requests = {} /\ t.unblinded = {} /\ t.payments = {}
      /\ t.dangling = dangling
      /\ t.refill = IdleRefill /\ PayoutOK(t) /\ t.payout.sent = {}
  BY DEF Emptied
<1>4. InQueue(t) = {} /\ TxsOf(InQueue(t)) = {} /\ Waiting(t) = {}
      /\ Building(t) = {} /\ TxsOf({}) = {}
  BY <1>3, NoneQueued DEF Waiting, Building, TxsOf
<1>5. Kempt(t, Opened(became), issued, spentOn)
  <2>1. PlacesOK(t) /\ BuildingOK(t)
    <3>1. \A i \in DOMAIN t.failed : FALSE
      BY <1>3
    <3> QED BY <1>3, <1>4, <3>1 DEF PlacesOK, BuildingOK
  <2>2. Open(t) = {} /\ Opened(became) = {}
    BY <1>4 DEF Open, Opened
  <2>3. Claims(t) \subseteq Claims(account)
    BY <1>3, <1>4 DEF Claims, Dangling, Building
  <2>4. TokensOK(account.unblinded, Claims(account), issued, spentOn)
    BY <1>1 DEF Kempt
  <2>5. TokensOK(t.unblinded, Claims(t), issued, spentOn)
    BY <1>1, <1>3, <2>3, <2>4, TokensMono
  <2> QED BY <1>3, <2>1, <2>2, <2>5 DEF Kempt
<1>6. ServedOK(t)
  BY <1>4 DEF ServedOK
<1>7. RefillOK(t, captchaShown)
  <2>1. Cardinality(t.unblinded) = 0
    BY <1>3, FS_EmptySet
  <2>2. t.refill.asked = "" /\ ~t.refill.timer /\ ~t.refill.processing
    BY <1>3, RefillIsIdle
  <2>3. 0 <= MaximumTokens
    BY TokensAssumption
  <2> QED BY <2>1, <2>2, <2>3 DEF RefillOK
<1>8. EarningsOK(t, became, credited)
  <2>1. \A tx \in Transactions : fate[tx] = "earned" =>
          tx \in credited \/ tx \in Removed(account)
    BY <1>1 DEF BooksOK, EarningsOK, Removed
  <2> QED BY <1>3, <2>1 DEF EarningsOK
<1>9. DanglingOK(t, became)
  <2>1. \A b1, b2 \in account.dangling \cup account.building :
          b1.c.tx = b2.c.tx => b1 = b2
    <3>1. /\ \A b1, b2 \in account.dangling : b1.c.tx = b2.c.tx => b1 = b2
          /\ \A b1, b2 \in account.building : b1.c.tx = b2.c.tx => b1 = b2
      BY <1>1 DEF Kempt, PlacesOK, BooksOK, DanglingOK
    <3>2. \A b \in account.dangling : fate[b.c.tx] = "reset"
      BY <1>1 DEF BooksOK, DanglingOK
    <3>3. \A b \in account.building : fate[b.c.tx] = "open"
      BY <1>1 DEF Kempt, Open, Opened, TxsOf, Building
    <3> QED BY <3>1, <3>2, <3>3
  <2>2. \A b \in account.dangling \cup account.building :
          b.c.tx \in Conversions
    BY <1>1 DEF Kempt, BuildingOK, BooksOK, DanglingOK
  <2> QED BY <1>3, <2>1, <2>2 DEF DanglingOK
<1>10. TypeOK'
  BY <1>2, <1>3 DEF IInv, TypeOK, server
<1>11. ReconciledWasCredited'
  BY <1>2 DEF IInv, ReconciledWasCredited, server
<1> QED BY <1>2, <1>3, <1>5, <1>6, <1>7, <1>8, <1>9, <1>10, <1>11
        DEF IInv, BooksOK, server

LEMMA NoOpenUnaccounted ==
  ASSUME NEW opens, NEW n, NEW spent, NEW s, Kempt(s, opens, n, spent)
  PROVE  opens = Queued(s) \cup Interrupted(s)
<1>1. Interrupted(s) = TxsOf(Waiting(s)) \cup TxsOf(Building(s))
  BY DEF Interrupted, TxsOf, Waiting, Building
<1> QED BY <1>1, QueuedTxs DEF Kempt, Open

LEMMA PrefKeeps ==
  ASSUME IInv, OnPrefDidChange
  PROVE  IInv'
<1> DEFINE s == [account EXCEPT !.notified = FALSE]
           t == MaybeResetIssuersAndConfirmations(s)
           gone == Removed(account) \cup Interrupted(account)
           became == [tx \in Transactions |->
                        IF /\ ShouldResetIssuersAndConfirmations(account)
                           /\ tx \in gone
                        THEN "reset" ELSE fate[tx]]
<1>1. /\ account \in Accounts /\ resetting \in BOOLEAN
      /\ restarts \in 0..MaxRestarts
      /\ Kempt(account, Opened(fate), issued, spentOn)
      /\ BooksOK(account, captchaShown, fate, credited)
      /\ fate \in [Transactions -> Fates]
  BY IInvFacts DEF IInv, TypeOK
<1>2. /\ s \in Accounts /\ SameLists(account, s)
      /\ s.refill = account.refill /\ s.retryTimer = account.retryTimer
      /\ s.enabled = account.enabled /\ s.migrate = account.migrate
      /\ s.dangling = account.dangling /\ s.building = account.building
  BY <1>1 DEF Accounts, SameLists
<1>3. /\ AccountStep(t) /\ fate' = became
      /\ UNCHANGED <<resetting, transactions, restarts>>
  BY DEF OnPrefDidChange
<1> HIDE DEF s
<1>4. CASE ShouldResetIssuersAndConfirmations(account)
  <2>1. Emptied(t, account.dangling \cup account.building)
    BY <1>2, <1>4, ResetEffect DEF ShouldResetIssuersAndConfirmations
  <2> HIDE DEF t, gone
  <2>2. became \in [Transactions -> Fates]
    BY <1>1 DEF Fates
  <2>3. \A tx \in Transactions :
          /\ became[tx] # "open"
          /\ became[tx] = "earned" =>
               fate[tx] = "earned" /\ tx \notin Removed(account)
    <3>1. \A tx \in Transactions : fate[tx] = "open" => tx \in gone
      BY <1>1, NoOpenUnaccounted DEF Opened, gone, Removed
    <3>2. Removed(account) \subseteq gone
      BY DEF gone
    <3> QED BY <1>4, <3>1, <3>2
  <2>4. \A b \in account.dangling \cup account.building :
          became[b.c.tx] = "reset"
    <3>1. \A b \in account.dangling \cup account.building :
            b.c.tx \in Transactions
      BY <1>1 DEF Accounts, Confirmations
    <3>2. \A b \in account.dangling : fate[b.c.tx] = "reset"
      BY <1>1 DEF BooksOK, DanglingOK
    <3>3. \A b \in account.building : b.c.tx \in gone
      BY DEF gone, Interrupted
    <3> QED BY <1>4, <3>1, <3>2, <3>3
  <2> HIDE DEF became
  <2>5. resetting' \in BOOLEAN /\ restarts' \in 0..MaxRestarts
    BY <1>1, <1>3
  <2>6. AccountStep(t) /\ fate' = became /\ UNCHANGED transactions
    BY <1>3
  <2> QED BY <2>1, <2>2, <2>3, <2>4, <2>5, <2>6, EmptiedKeeps
<1>5. CASE ~ShouldResetIssuersAndConfirmations(account)
  <2>1. t = s
    BY <1>2, <1>5 DEF ShouldResetIssuersAndConfirmations,
                      MaybeResetIssuersAndConfirmations
  <2>2. became = fate
    BY <1>1, <1>5
  <2> HIDE DEF became, t
  <2> QED BY <1>1, <1>2, <1>3, <2>1, <2>2, TopUpKeeps
<1> QED BY <1>4, <1>5

LEMMA RestartedKeeps ==
  ASSUME IInv, Restarted, restarts' \in 0..MaxRestarts
  PROVE  IInv'
<1> DEFINE s == Saved(account)
           t == Process(s)
           resets == ShouldResetIssuersAndConfirmations(account)
           became == [tx \in Transactions |->
             CASE fate[tx] = "open" /\ tx \notin Queued(account) -> "lost"
               [] resets /\ tx \in Removed(account) -> "reset"
               [] OTHER -> fate[tx]]
           opens == Queued(account)
<1>1. /\ account \in Accounts /\ issued \in 0..MaxTokens
      /\ Kempt(account, Opened(fate), issued, spentOn)
      /\ BooksOK(account, captchaShown, fate, credited)
      /\ fate \in [Transactions -> Fates]
  BY IInvFacts
<1>2. /\ account' = t /\ AccountStep(t) /\ resetting' = FALSE /\ fate' = became
      /\ UNCHANGED <<env, posted, server, spentOn, captchaShown, transactions>>
  BY DEF Restarted, AccountStep
<1>3. "lost" \in Fates /\ "reset" \in Fates
  BY DEF Fates
<1>4. /\ s \in Accounts /\ s.failed = account.failed /\ s.building = {}
      /\ s.dangling = {} /\ s.enabled = account.enabled
      /\ s.requests = {} /\ s.unblinded = account.unblinded
      /\ s.payments = account.payments /\ s.refill = IdleRefill
      /\ s.payout = IdlePayout /\ s.migrate = account.migrate
  BY <1>1, IdleObjects DEF Accounts, Saved
<1> HIDE DEF s
<1>5. CASE resets
  <2>1. Emptied(MaybeResetIssuersAndConfirmations(s), {})
    BY <1>4, <1>5, ResetEffect DEF ShouldResetIssuersAndConfirmations
  <2>2. Emptied(t, {})
    BY <2>1, ProcessedEmptied DEF Process
  <2> HIDE DEF t
  <2>3. became \in [Transactions -> Fates]
    BY <1>1, <1>3
  <2>4. \A tx \in Transactions :
          /\ became[tx] # "open"
          /\ became[tx] = "earned" =>
               fate[tx] = "earned" /\ tx \notin Removed(account)
    <3>1. Queued(account) \subseteq Removed(account)
      BY DEF Removed
    <3> QED BY <1>5, <3>1
  <2> HIDE DEF became
  <2>5. /\ AccountStep(t) /\ fate' = became /\ UNCHANGED transactions
        /\ resetting' \in BOOLEAN
    BY <1>2
  <2>6. /\ {} \subseteq account.dangling \cup account.building
        /\ \A b \in {} : became[b.c.tx] = "reset"
    OBVIOUS
  <2> QED BY <2>2, <2>3, <2>4, <2>5, <2>6, EmptiedKeeps
<1>6. CASE ~resets
  <2>1. PayoutOK(s) /\ s.payout.sent = {}
    BY <1>4 DEF PayoutOK, IdlePayout
  <2>2. t = ProcessClearingCycle(s)
    BY <1>4, <1>6 DEF Process, MaybeResetIssuersAndConfirmations,
                      ShouldResetIssuersAndConfirmations
  <2>3. /\ SameButTimers(s, t)
        /\ t.retryTimer \/ t.failed = <<>>
        /\ PayoutOK(t) /\ t.payout.sent = {} /\ ~t.payout.credited
    <3>1. /\ SameButTimers(s, t)
          /\ t.retryTimer \/ t.failed = <<>>
          /\ PayoutOK(t) /\ t.payout.sent = {}
      BY <1>4, <2>1, <2>2, ClearingEffect
    <3> QED BY <3>1 DEF PayoutOK
  <2> HIDE DEF t
  <2>4. /\ t \in Accounts
        /\ t.failed = account.failed /\ t.building = {} /\ t.requests = {}
        /\ t.dangling = {} /\ t.unblinded = account.unblinded
        /\ t.refill = IdleRefill /\ t.payments = account.payments
    BY <1>4, <2>3 DEF SameButTimers
  <2>5. Kempt(t, opens, issued, spentOn)
    <3>1. /\ InQueue(t) = InQueue(account) /\ Waiting(t) = {}
          /\ Building(t) = {} /\ Dangling(t) = {}
      BY <2>4 DEF InQueue, Waiting, Building, Dangling
    <3>2. PlacesOK(t) /\ BuildingOK(t)
      <4>1. TxsOf({}) = {}
        BY DEF TxsOf
      <4> QED BY <1>1, <2>4, <3>1, <4>1 DEF Kempt, PlacesOK, BuildingOK
    <3>3. Open(t) = opens
      BY <3>1, QueuedTxs DEF Open, TxsOf
    <3>4. Claims(t) \subseteq Claims(account)
      BY <3>1 DEF Claims
    <3>5. TokensOK(account.unblinded, Claims(account), issued, spentOn)
      BY <1>1 DEF Kempt
    <3>6. TokensOK(t.unblinded, Claims(t), issued, spentOn)
      BY <1>1, <2>4, <3>4, <3>5, TokensMono
    <3> QED BY <2>4, <3>2, <3>3, <3>6 DEF Kempt
  <2>6. /\ became \in [Transactions -> Fates] /\ Opened(became) = opens
        /\ \A tx \in Transactions :
             /\ became[tx] = "earned" <=> fate[tx] = "earned"
             /\ fate[tx] = "reset" => became[tx] = "reset"
    <3>1. \A tx \in Transactions :
            became[tx] = IF fate[tx] = "open" /\ tx \notin opens
                         THEN "lost" ELSE fate[tx]
      BY <1>6
    <3>2. became \in [Transactions -> Fates]
      BY <1>1, <1>3
    <3> HIDE DEF became
    <3>3. opens \subseteq Opened(fate)
      BY <1>1, QueuedTxs DEF Kempt, Open
    <3>4. Opened(became) = opens
      BY <3>1, <3>3 DEF Opened
    <3> QED BY <3>1, <3>2, <3>4
  <2> HIDE DEF became
  <2>7. EarningsOK(t, fate, credited) /\ DanglingOK(t, fate)
    BY <1>1, <2>3, <2>4 DEF BooksOK, EarningsOK, DanglingOK
  <2>8. RefillOK(t, captchaShown)
    BY <1>1, <2>4, RefillIsIdle DEF BooksOK, RefillOK
  <2>9. BooksOK(t, captchaShown, became, credited)
    BY <2>3, <2>4, <2>6, <2>7, <2>8, SameEarnings DEF BooksOK
  <2>10. ServedOK(t)
    BY <2>3, ServedIsOK DEF Served
  <2>11. TypeOK'
    BY <1>2, <2>4, <2>6 DEF IInv, TypeOK, server
  <2>12. ReconciledWasCredited'
    BY <1>2 DEF IInv, ReconciledWasCredited, server
  <2> QED BY <1>2, <2>5, <2>6, <2>9, <2>10, <2>11, <2>12 DEF IInv, server
<1> QED BY <1>5, <1>6

LEMMA RestartKeeps ==
  ASSUME IInv,
         \/ Restart \/ OnRetryWithoutWork \/ AnswerToDestroyed
         \/ Restarted /\ UNCHANGED restarts
  PROVE  IInv'
<1>1. restarts \in 0..MaxRestarts
  BY DEF IInv, TypeOK
<1>2. restarts' \in 0..MaxRestarts
  BY <1>1, BoundsAssumption DEF Restart, OnRetryWithoutWork, AnswerToDestroyed
<1> QED BY <1>2, RestartedKeeps
        DEF Restart, OnRetryWithoutWork, AnswerToDestroyed

\* The callback of a confirmation that a reset has removed.
LEMMA TooLateKeeps ==
  ASSUME IInv, NEW b \in account.dangling, OnUserDataBuiltTooLate(b)
  PROVE  IInv'
<1> DEFINE s == [account EXCEPT !.dangling = @ \ {b}]
           tx == b.c.tx
           c == CreateConfirmation(s, tx)
           mine == RemoveUnblindedToken(s, c)
<1>1. /\ account \in Accounts /\ issued \in 0..MaxTokens
      /\ Kempt(account, Opened(fate), issued, spentOn)
      /\ ServedOK(account)
      /\ BooksOK(account, captchaShown, fate, credited)
      /\ fate \in [Transactions -> Fates]
  BY IInvFacts
<1>2. /\ s \in Accounts /\ s.dangling = account.dangling \ {b}
      /\ s.failed = account.failed /\ s.requests = account.requests
      /\ s.building = account.building
      /\ s.unblinded = account.unblinded /\ s.payments = account.payments
      /\ s.payout = account.payout /\ s.refill = account.refill
      /\ s.retryTimer = account.retryTimer
  BY <1>1 DEF Accounts
<1>3. /\ b.c \in Confirmations /\ tx \in Transactions
      /\ tx \in Conversions /\ fate[tx] = "reset"
      /\ \A d \in s.dangling : d.c.tx \in Transactions /\ d.c.tx # tx
  BY <1>1, <1>2 DEF Accounts, Confirmations, BooksOK, DanglingOK
<1>4. \/ Restarted /\ UNCHANGED restarts
      \/ /\ \/ /\ account' = AppendNewConfirmation(s, b.c)
               /\ fate' = [fate EXCEPT ![tx] = "open"]
               /\ UNCHANGED <<posted, spentOn>>
            \/ /\ CanCreate(s) /\ account' = mine
               /\ Post(Posts(mine, c)) /\ UNCHANGED fate
            \/ account' = s /\ UNCHANGED <<posted, spentOn, fate>>
         /\ UNCHANGED <<env, resetting, transactions, server, history>>
  BY DEF OnUserDataBuiltTooLate
<1> HIDE DEF s
<1>5. /\ InHand(s, b.c, Opened(fate), issued, spentOn)
      /\ Kempt(s, Opened(fate), issued, spentOn)
  <2>1. /\ InQueue(s) = InQueue(account) /\ Waiting(s) = Waiting(account)
        /\ Building(s) = Building(account)
    BY <1>2 DEF InQueue, Waiting, Building
  <2>2. PlacesOK(s) /\ Open(s) = Opened(fate) /\ BuildingOK(s)
    BY <1>1, <1>2, <2>1 DEF Kempt, PlacesOK, Open, BuildingOK
  <2>3. Claims(s) \cup {Claim(b.c)} \subseteq Claims(account)
    BY <1>2, <2>1 DEF Claims, Dangling
  <2>4. TokensOK(account.unblinded, Claims(account), issued, spentOn)
    BY <1>1 DEF Kempt
  <2>5. /\ TokensOK(s.unblinded, Claims(s) \cup {Claim(b.c)}, issued, spentOn)
        /\ TokensOK(s.unblinded, Claims(s), issued, spentOn)
    BY <1>1, <1>2, <2>3, <2>4, TokensMono
  <2>6. tx \notin Opened(fate)
    BY <1>3 DEF Opened
  <2> QED BY <1>2, <1>3, <2>2, <2>5, <2>6 DEF InHand, Kempt
<1>6. ServedOK(s) /\ BooksOK(s, captchaShown, fate, credited)
  <2>1. ServedOK(s)
    BY <1>1, <1>2, SameServed
  <2>2. RefillOK(s, captchaShown) /\ PayoutOK(s)
        /\ EarningsOK(s, fate, credited) /\ DanglingOK(s, fate)
    BY <1>1, <1>2 DEF BooksOK, RefillOK, PayoutOK, EarningsOK, DanglingOK
  <2> QED BY <2>1, <2>2 DEF BooksOK
<1>7. /\ transactions \in
           [Transactions -> {"none", "unreconciled", "reconciled"}]
      /\ posted \subseteq Confirmations
      /\ spentOn \in [Tokens -> SUBSET Transactions]
  BY DEF IInv, TypeOK
<1>8. CASE Restarted /\ UNCHANGED restarts
  BY <1>8, RestartKeeps
<1>9. CASE /\ account' = AppendNewConfirmation(s, b.c)
           /\ fate' = [fate EXCEPT ![tx] = "open"]
           /\ UNCHANGED <<posted, spentOn>>
           /\ UNCHANGED <<env, resetting, transactions, server, history>>
  <2> DEFINE t == AppendNewConfirmation(s, b.c)
             became == [fate EXCEPT ![tx] = "open"]
  <2>1. Requeued(s, t, b.c)
    BY <1>2, <1>3, AppendNewEffect
  <2> HIDE DEF t
  <2>2. Placed(s, t, b.c) /\ Kept(s, t) /\ t \in Accounts
    BY <2>1 DEF Requeued, Placed, Kept
  <2>3. /\ became \in [Transactions -> Fates]
        /\ Opened(fate) \cup {tx} = Opened(became)
    BY <1>1, <1>3, OpenedChanges DEF Fates
  <2>4. Kempt(t, Opened(became), issued, spentOn)
    <3>1. Kempt(t, Opened(fate) \cup {tx}, issued, spentOn)
      BY <1>1, <1>5, <2>2, PutDown
    <3> QED BY <2>3, <3>1
  <2>5. BooksOK(t, captchaShown, fate, credited)
    BY <1>2, <1>6, <2>2, KeptBooks
  <2>6. BooksOK(t, captchaShown, became, credited)
    <3>1. t.dangling = s.dangling
      BY <2>2 DEF Kept
    <3>2. \A x \in Transactions :
            /\ became[x] = "earned" <=> fate[x] = "earned"
            /\ x # tx => became[x] = fate[x]
      BY <1>1, <1>3
    <3> HIDE DEF became
    <3>3. DanglingOK(t, became)
      BY <1>3, <2>5, <3>1, <3>2 DEF BooksOK, DanglingOK
    <3>4. \A p \in t.payments : p.tx \in Transactions
      BY <2>2 DEF Accounts, PaymentTokens
    <3>5. EarningsOK(t, became, credited)
      BY <2>5, <3>2, <3>4 DEF BooksOK, EarningsOK
    <3> QED BY <2>5, <3>3, <3>5 DEF BooksOK
  <2>7. ServedOK(t)
    <3>1. PICK d \in Confirmations : Takes(s, t, b.c, d) /\ Puts(s, t, d)
      BY <2>2 DEF Placed
    <3>2. d.tx \in Conversions
      BY <1>3, <3>1 DEF Takes
    <3>3. \A x \in InQueue(t) : x \in InQueue(s) \/ x = d
      <4>1. CASE t.failed = s.failed
        BY <4>1 DEF InQueue
      <4>2. CASE t.failed = Append(s.failed, d)
        <5>1. s.failed \in Seq(Confirmations)
          BY <1>2 DEF Accounts
        <5> QED BY <4>2, <5>1 DEF InQueue
      <4> QED BY <3>1, <4>1, <4>2 DEF Puts
    <3> QED BY <1>6, <2>1, <3>2, <3>3 DEF ServedOK, Requeued
  <2> HIDE DEF became
  <2> QED BY <1>7, <1>9, <2>3, <2>4, <2>6, <2>7, HandlerKeeps DEF t, became
<1>10. CASE /\ CanCreate(s) /\ account' = mine
            /\ Post(Posts(mine, c)) /\ UNCHANGED fate
            /\ UNCHANGED <<env, resetting, transactions, server, history>>
  <2> DEFINE cs == Posts(mine, c)
             spent == Presented(spentOn, cs)
  <2>1. c \in Confirmations /\ InHand(mine, c, Opened(fate), issued, spentOn)
    <3>1. tx \notin Opened(fate)
      BY <1>3 DEF Opened
    <3> QED BY <1>1, <1>2, <1>3, <1>5, <1>10, <3>1, NewInHand, CreateEffect
  <2>2. cs \in SUBSET {c}
    BY DEF Posts
  <2>3. /\ mine \in Accounts /\ Kept(s, mine)
        /\ mine.failed = s.failed /\ mine.requests = s.requests
        /\ mine.retryTimer = s.retryTimer
    BY <1>2, RemoveEffect DEF Kept, RefillKept
  <2> HIDE DEF c, mine, cs
  <2>4. /\ posted' \subseteq Confirmations /\ spentOn' = spent
        /\ spentOn' \in [Tokens -> SUBSET Transactions]
    BY <1>10, <2>1, <2>2, PostEffect DEF cs, IInv
  <2>5. InHand(mine, c, Opened(fate), issued, spent)
    BY <1>1, <2>1, <2>2, PresentedInHand
  <2>6. Left(mine, mine)
    BY <2>3 DEF Left, Kept, RefillKept
  <2> HIDE DEF spent
  <2>7. Kempt(mine, Opened(fate), issued, spent)
    BY <1>1, <2>5, <2>6, LetGo
  <2>8. BooksOK(mine, captchaShown, fate, credited) /\ ServedOK(mine)
    BY <1>2, <1>6, <2>3, KeptBooks, SameServed
  <2> QED BY <1>1, <1>7, <1>10, <2>4, <2>7, <2>8, HandlerKeeps
<1>11. CASE /\ account' = s /\ UNCHANGED <<posted, spentOn, fate>>
            /\ UNCHANGED <<env, resetting, transactions, server, history>>
  BY <1>1, <1>5, <1>6, <1>7, <1>11, HandlerKeeps
<1> QED BY <1>4, <1>8, <1>9, <1>10, <1>11

-----------------------------------------------------------------------------
(* The invariant.                                                          *)

LEMMA InitInv ==
  ASSUME Init
  PROVE  IInv
<1>1. PICK enabled \in {"AdsOnOff" \notin env, TRUE},
           issuers \in {"Issuers" \notin env, TRUE}, wallet \in {0, 1},
           n \in 0..MaximumTokens :
        /\ account = Process(Loaded(enabled, issuers, wallet, 1..n))
        /\ issued = n
  BY DEF Init
<1> DEFINE s == Loaded(enabled, issuers, wallet, 1..n)
           t == Process(s)
<1>2. /\ IdleRefill \in Refills /\ IdlePayout \in Payouts
      /\ <<>> \in Seq(Confirmations) /\ wallet \in Wallets
  BY IdleObjects DEF Wallets
<1>3. n \in Nat /\ n \in 0..MaxTokens /\ 1..n \in SUBSET Tokens
      /\ n <= MaximumTokens
  BY TokensAssumption DEF Tokens
<1>4. s \in Accounts /\ s.failed = <<>> /\ s.building = {}
      /\ s.requests = {} /\ s.unblinded = 1..n /\ s.payments = {}
      /\ s.refill = IdleRefill /\ s.payout = IdlePayout
      /\ s.dangling = {} /\ ~s.migrate
  BY <1>2, <1>3 DEF Accounts, Loaded
<1> HIDE DEF s
<1>5. /\ t \in Accounts
      /\ t.failed = <<>> /\ t.building = {} /\ t.requests = {}
      /\ t.dangling = {}
      /\ t.unblinded = 1..n /\ t.refill = IdleRefill /\ t.payments = {}
      /\ PayoutOK(t) /\ ~t.payout.credited
  <2>1. PayoutOK(s) /\ s.payout.sent = {}
    BY <1>4 DEF PayoutOK, IdlePayout
  <2>2. t = ProcessClearingCycle(s)
    BY <1>4 DEF Process, MaybeResetIssuersAndConfirmations,
                ShouldResetIssuersAndConfirmations
  <2>3. /\ SameButTimers(s, t) /\ PayoutOK(t) /\ t.payout.sent = {}
    BY <1>4, <2>1, <2>2, ClearingEffect
  <2> QED BY <1>4, <2>3 DEF SameButTimers, PayoutOK
<1> HIDE DEF t
<1>6. account = t /\ issued = n
  BY <1>1 DEF s, t
<1>7. /\ env \in Surroundings /\ resetting = FALSE
      /\ transactions = [tx \in Transactions |-> "none"]
      /\ posted = {} /\ created = [tx \in Transactions |-> {}]
      /\ credited = {} /\ fate = [tx \in Transactions |-> "none"]
      /\ spentOn = [x \in Tokens |-> {}]
      /\ captchaShown = FALSE /\ restarts = 0
  BY DEF Init
<1>8. TypeOK
  <2>1. /\ account \in Accounts /\ issued \in 0..MaxTokens
        /\ restarts \in 0..MaxRestarts
    BY <1>3, <1>5, <1>6, <1>7, BoundsAssumption
  <2>2. "none" \in Fates
    BY DEF Fates
  <2> QED BY <1>7, <2>1, <2>2 DEF TypeOK
<1>9. InQueue(t) = {} /\ TxsOf(InQueue(t)) = {} /\ Waiting(t) = {}
      /\ Building(t) = {} /\ Dangling(t) = {}
  BY <1>5, NoneQueued DEF Waiting, Building, Dangling
<1>10. Kempt(t, Opened(fate), n, spentOn)
  <2>1. PlacesOK(t) /\ BuildingOK(t)
    <3>1. \A i \in DOMAIN t.failed : FALSE
      BY <1>5
    <3> QED BY <1>5, <1>9, <3>1 DEF PlacesOK, BuildingOK
  <2>2. Open(t) = {} /\ Claims(t) = {}
    BY <1>9 DEF Open, Claims, TxsOf
  <2>3. Opened(fate) = {}
    BY <1>7 DEF Opened
  <2>4. TokensOK(1..n, {}, n, spentOn)
    BY <1>7 DEF TokensOK
  <2> QED BY <1>5, <2>1, <2>2, <2>3, <2>4 DEF Kempt
<1>11. ServedOK(t)
  BY <1>9 DEF ServedOK
<1>12. EarningsOK(t, fate, credited) /\ DanglingOK(t, fate)
  BY <1>5, <1>7 DEF EarningsOK, DanglingOK
<1>13. RefillOK(t, captchaShown)
  <2>1. Cardinality(t.unblinded) = n
    <3>1. Cardinality(1..n) = IF 1 > n THEN 0 ELSE n - 1 + 1
      BY <1>3, FS_Interval
    <3> QED BY <1>3, <1>5, <3>1
  <2>2. /\ t.refill.asked = "" /\ t.refill.timer = FALSE
        /\ t.refill.processing = FALSE
    BY <1>5, RefillIsIdle
  <2> QED BY <1>3, <2>1, <2>2 DEF RefillOK
<1>14. ReconciledWasCredited
  BY <1>7 DEF ReconciledWasCredited
<1> QED BY <1>5, <1>6, <1>8, <1>10, <1>11, <1>12, <1>13, <1>14
        DEF IInv, BooksOK

LEMMA NextInv ==
  ASSUME IInv, [Next]_vars
  PROVE  IInv'
<1>1. CASE UNCHANGED vars
  BY <1>1 DEF vars, server, history, IInv, TypeOK, ReconciledWasCredited
<1>2. CASE Next
  <2>1. \A tx \in Transactions : ProcessDeposit(tx) => IInv'
    BY DepositKeeps
  <2>2. \A b \in account.building : OnUserDataBuilt(b) => IInv'
    BY DataBuiltKeeps
  <2>3. \A c \in posted : ServerCreates(c) => IInv'
    BY CreatesKeeps
  <2>4. \A r \in account.requests : Answered(r) => IInv'
    BY CreateAnswerKeeps, FetchAnswerKeeps DEF Answered
  <2>5. \A wallet \in {1, 2} : SetWallet(wallet) => IInv'
    BY WalletKeeps
  <2>6. OnRetry \/ OnRetryWithoutWork \/ AnswerToDestroyed \/ Restart => IInv'
    BY RetryKeeps, RestartKeeps
  <2>11. \A b \in account.dangling : OnUserDataBuiltTooLate(b) => IInv'
    BY TooLateKeeps
  <2>12. OnExternalWalletConnected \/ OnPrefDidChange => IInv'
    BY SwitchKeeps, PrefKeeps
  <2>7. OnRequestSignedTokens \/ OnGetSignedTokens \/ OnRetryRefill => IInv'
    BY AskedKeeps, GotKeeps, RetryRefillKeeps
  <2>8. RedeemTimerElapsed \/ OnRetryPayout \/ ServerCredits => IInv'
    BY RedeemTimerKeeps, RetryPayoutKeeps, CreditsKeeps
  <2>9. OnRedeemPayments \/ OnRedeemPaymentsFailed => IInv'
    BY RedeemedKeeps, RedeemFailedKeeps
  <2>10. OnDidFetchIssuers \/ SetEnabled \/ OnResetRewards => IInv'
    BY IssuersKeeps, SwitchKeeps, ResetKeeps
  <2> QED BY <1>2, <2>1, <2>2, <2>3, <2>4, <2>5, <2>6, <2>7, <2>8, <2>9,
             <2>10, <2>11, <2>12 DEF Next
<1> QED BY <1>1, <1>2

(***************************************************************************)
(* The inductive invariant holds in every reachable state.                 *)
(***************************************************************************)
THEOREM Invariance == Spec => []IInv
<1>1. Init => IInv
  BY InitInv
<1>2. IInv /\ [Next]_vars => IInv'
  BY NextInv
<1> QED BY <1>1, <1>2, PTL DEF Spec

(***************************************************************************)
(* The account, the statement, the server and the history keep their       *)
(* types.                                                                  *)
(***************************************************************************)
THEOREM TypeCorrect == Spec => []TypeOK
<1>1. IInv => TypeOK
  BY DEF IInv
<1> QED BY <1>1, Invariance, PTL

-----------------------------------------------------------------------------
(* What the account promises.                                              *)

LEMMA PlacesOfQueue ==
  ASSUME NEW q, NEW tx,
         \A i, j \in DOMAIN q : q[i].tx = q[j].tx => i = j
  PROVE  LET here == {<<"failed", i>> : i \in {j \in DOMAIN q : q[j].tx = tx}}
         IN  \A x, y \in here : x = y
OBVIOUS

LEMMA OnePlace ==
  ASSUME NEW q, NEW w, NEW b, \A x, y \in q \cup w \cup b : x = y
  PROVE  Cardinality(q \cup w \cup b) =
           IF q \cup w \cup b = {} THEN 0 ELSE 1
<1>1. CASE q \cup w \cup b = {}
  BY <1>1, FS_EmptySet
<1>2. CASE q \cup w \cup b # {}
  <2>1. PICK x : q \cup w \cup b = {x}
    BY <1>2
  <2> QED BY <1>2, <2>1, FS_Singleton
<1> QED BY <1>1, <1>2

(***************************************************************************)
(* A confirmation that is neither paid nor given up is in exactly one      *)
(* place, and a transaction whose confirmation is settled is in none,      *)
(* through every retry, rebuilding and restart of confirmations.cc and     *)
(* through the replacement of the objects that callbacks are bound to      *)
(* (account.cc:233); a reset gives up what it finds in the places.         *)
(***************************************************************************)
THEOREM OpenInOnePlace == Spec => []OpenIsInOnePlace
<1>1. ASSUME IInv PROVE OpenIsInOnePlace
  <2> SUFFICES ASSUME NEW tx \in Transactions
               PROVE  Cardinality(Places(tx)) =
                        IF fate[tx] = "open" THEN 1 ELSE 0
    BY DEF OpenIsInOnePlace
  <2> DEFINE q == {<<"failed", i>> : i \in {j \in DOMAIN account.failed :
                                              account.failed[j].tx = tx}}
             w == {r \in account.requests : r.c.tx = tx}
             b == {c \in account.building : c.c.tx = tx}
  <2>1. PlacesOK(account) /\ Open(account) = Opened(fate)
    BY <1>1 DEF IInv, Kempt
  <2>2. /\ q # {} <=> tx \in TxsOf(InQueue(account))
        /\ w # {} <=> tx \in TxsOf(Waiting(account))
        /\ b # {} <=> tx \in TxsOf(Building(account))
    <3>1. q # {} <=> tx \in TxsOf(InQueue(account))
      BY DEF TxsOf, InQueue
    <3>2. w # {} <=> tx \in TxsOf(Waiting(account))
      BY DEF TxsOf, Waiting
    <3>3. b # {} <=> tx \in TxsOf(Building(account))
      BY DEF TxsOf, Building
    <3> QED BY <3>1, <3>2, <3>3
  <2>3. /\ \A x, y \in q : x = y
        /\ \A x, y \in w : x = y
        /\ \A x, y \in b : x = y
    <3>1. \A x, y \in q : x = y
      BY <2>1, PlacesOfQueue DEF PlacesOK
    <3>2. (\A x, y \in w : x = y) /\ (\A x, y \in b : x = y)
      BY <2>1 DEF PlacesOK
    <3> QED BY <3>1, <3>2
  <2>4. Places(tx) = q \cup w \cup b
    BY DEF Places
  <2>5. fate[tx] = "open" <=> q # {} \/ w # {} \/ b # {}
    BY <2>1, <2>2 DEF Open, Opened
  <2> HIDE DEF q, w, b
  <2>6. (q = {} \/ w = {}) /\ (q = {} \/ b = {}) /\ (w = {} \/ b = {})
    BY <2>1, <2>2 DEF PlacesOK
  <2>7. \A x, y \in q \cup w \cup b : x = y
    BY <2>3, <2>6
  <2>8. Cardinality(Places(tx)) = IF q \cup w \cup b = {} THEN 0 ELSE 1
    BY <2>4, <2>7, OnePlace
  <2>9. q \cup w \cup b = {} <=> fate[tx] # "open"
    BY <2>5
  <2> QED BY <2>8, <2>9
<1> QED BY <1>1, Invariance, PTL

(***************************************************************************)
(* An unblinded token is presented for one transaction only, and one that  *)
(* is still in hand was never presented (confirmation_util.cc).            *)
(***************************************************************************)
THEOREM SpentOnce == Spec => []TokensAreSpentOnce
<1>1. ASSUME IInv PROVE TokensAreSpentOnce
  <2> SUFFICES ASSUME NEW t \in Tokens
               PROVE  /\ Cardinality(spentOn[t]) <= 1
                      /\ t \in account.unblinded => spentOn[t] = {}
    BY DEF TokensAreSpentOnce
  <2> DEFINE spent == spentOn[t]
  <2>1. /\ \A tx1, tx2 \in spent : tx1 = tx2
        /\ t \in account.unblinded => spent = {}
    BY <1>1 DEF IInv, Kempt, TokensOK
  <2> HIDE DEF spent
  <2>2. Cardinality(spent) <= 1
    <3>1. CASE spent = {}
      BY <3>1, FS_EmptySet
    <3>2. CASE spent # {}
      <4>1. PICK x : spent = {x}
        BY <2>1, <3>2
      <4> QED BY <4>1, FS_Singleton
    <3> QED BY <3>1, <3>2
  <2> QED BY <2>1, <2>2 DEF spent
<1> QED BY <1>1, Invariance, PTL

(***************************************************************************)
(* While a confirmation of a viewed ad is in the queue, a timer or an      *)
(* answer brings the account back to it (confirmations.cc).                *)
(***************************************************************************)
THEOREM QueueServed == Spec => []QueueIsServed
<1>1. ASSUME IInv PROVE QueueIsServed
  BY <1>1 DEF IInv, ServedOK, QueueIsServed, Queued, InQueue
<1> QED BY <1>1, Invariance, PTL

(***************************************************************************)
(* A payment token that was obtained is kept until the server has credited *)
(* it (redeem_unblinded_payment_tokens.cc), or a reset removes it: the one *)
(* for another wallet or the one for a verified user (account.cc:233).     *)
(***************************************************************************)
THEOREM EarningsKept == Spec => []EarningsAreKept
<1>1. ASSUME IInv PROVE EarningsAreKept
  BY <1>1 DEF IInv, BooksOK, EarningsOK, EarningsAreKept
<1> QED BY <1>1, Invariance, PTL

(***************************************************************************)
(* The statement calls nothing reconciled that the server has not credited *)
(* (transactions_database_table.cc).                                       *)
(***************************************************************************)
THEOREM ReconciledCredited == Spec => []ReconciledWasCredited
<1>1. IInv => ReconciledWasCredited
  BY DEF IInv
<1> QED BY <1>1, Invariance, PTL

(***************************************************************************)
(* Redeeming payment tokens never stops once it has begun, and is one      *)
(* thing at a time, as DCHECK(!is_processing_) wants                       *)
(* (redeem_unblinded_payment_tokens.cc).                                   *)
(***************************************************************************)
THEOREM PayoutOnward == Spec => []PayoutGoesOn
<1>1. ASSUME IInv PROVE PayoutGoesOn
  <2> DEFINE p == account.payout
             on == {w \in 1..3 : \/ w = 1 /\ p.timer
                                 \/ w = 2 /\ p.retryTimer
                                 \/ w = 3 /\ p.sent # {}}
  <2>1. PayoutOK(account)
    BY <1>1 DEF IInv, BooksOK
  <2> SUFFICES ASSUME p.wallet # 0
               PROVE  Cardinality(on) = 1 /\ (p.timer => ~p.processing)
    BY DEF PayoutGoesOn
  <2>2. /\ p.timer => ~p.retryTimer /\ p.sent = {} /\ ~p.processing
        /\ p.retryTimer => p.sent = {}
        /\ p.sent # {} \/ p.timer \/ p.retryTimer
    BY <2>1 DEF PayoutOK
  <2>3. \E x : on = {x}
    <3>1. CASE p.timer
      <4>1. on = {1}
        BY <2>2, <3>1
      <4> QED BY <4>1
    <3>2. CASE p.retryTimer
      <4>1. on = {2}
        BY <2>2, <3>2
      <4> QED BY <4>1
    <3>3. CASE ~p.timer /\ ~p.retryTimer
      <4>1. on = {3}
        BY <2>2, <3>3
      <4> QED BY <4>1
    <3> QED BY <3>1, <3>2, <3>3
  <2> HIDE DEF on
  <2> QED BY <2>2, <2>3, FS_Singleton
<1> QED BY <1>1, Invariance, PTL

(***************************************************************************)
(* A refill that has begun waits for an answer or its timer, unless it     *)
(* ended in a captcha (refill_unblinded_tokens.cc).                        *)
(***************************************************************************)
THEOREM RefillOnward == Spec => []RefillGoesOn
<1>1. ASSUME IInv PROVE RefillGoesOn
  BY <1>1 DEF IInv, BooksOK, RefillOK, RefillGoesOn
<1> QED BY <1>1, Invariance, PTL
=============================================================================
