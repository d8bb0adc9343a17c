---------------------------- MODULE EthTxManager ----------------------------
(***************************************************************************)
(* The life of an Ethereum transaction in the wallet (eth_tx_manager.cc),  *)
(* together with everything it interleaves with: the keyring being locked, *)
(* the user switching networks, the block tracker and the pending          *)
(* transaction tracker, JSON-RPC requests answered late, wrongly or never, *)
(* the browser restarting, and the chains themselves.                      *)
(*                                                                         *)
(* The browser runs all of this on one sequence, so a handler is one       *)
(* action; what interleaves is the time between a request and its          *)
(* callback.  Transaction records live in prefs under the network that is  *)
(* selected when they are READ or WRITTEN, not the one a request was made  *)
(* on.                                                                     *)
(***************************************************************************)
EXTENDS EthPendingTxTracker, NonceTracker, TxManager

CONSTANTS Chains,        \* networks the user can select
          DefaultChain,  \* the network selected after a wallet reset
          Accounts,      \* the wallet's addresses
          HwAccounts,    \* those whose key is on a hardware device
          NoChain,       \* no chain id of its own: a legacy transaction
          NoSig, NoHash, \* not signed, no transaction hash yet
          PaymentIds,    \* bound: the ids new payments may get
          MaxNonce,      \* bound on nonces
          MaxVer,        \* bound on edits and gas bumps of one request
          MaxNotices,    \* bound on keyring notices under way
          Env            \* what the surroundings do beyond the plain case

ASSUME ChainsAssumption == DefaultChain \in Chains /\ NoChain \notin Chains
ASSUME BoundsAssumption ==
  MaxNonce \in Nat /\ MaxVer \in Nat /\ MaxNotices \in Nat
ASSUME PaymentIdsAssumption == PaymentIds \subseteq TxIds
ASSUME NoNonceAssumption == NoNonce \notin Nat
ASSUME AccountsAssumption == HwAccounts \subseteq Accounts

\* The elements of Env.  "LateCall": a user's call crosses a lock on its way;
\* "LateReject": the panel rejects from a list that is out of date;
\* "ReApprove": the panel's button comes back while the first approval still
\* waits for its nonce; "Lag": a node answers with an old transaction count;
\* "RpcError": requests fail, or succeed without the wallet learning of it;
\* "Foreign": the same account is used from another wallet.
EnvChoices == {"SwitchChain", "Lock", "LateCall", "Restart", "Reset", "Speedup",
               "Retry", "SignOnly", "SetNonce", "Edit", "Reject", "LateReject",
               "ReApprove", "RpcError", "Lag", "Revert", "Foreign", "Eip1559"}
ASSUME EnvAssumption == Env \subseteq EnvChoices

VARIABLES
  chain,          \* the selected Ethereum network
  txs,            \* the transaction prefs: network -> store
  used,           \* transaction ids handed out so far
  locked,         \* KeyringService::IsLocked(default keyring)
  notices,        \* keyring notifications under way to the manager
  running,        \* the block tracker's timer
  blockRpc,       \* a block number request is in flight
  knownNoPending, \* known_no_pending_tx_
  nonceMap,       \* EthPendingTxTracker::network_nonce_map_
  dropCounter,    \* EthPendingTxTracker::dropped_blocks_counter_
  nonceRpc,       \* transaction count requests of the nonce tracker
  sendRpc,        \* transactions being published
  receiptRpc,     \* receipt requests of the pending transaction tracker
  countRpc,       \* its transaction count requests
  gasRpc,         \* copies waiting for a gas estimate, to speed up or cancel
  device,         \* the signature a hardware device has been asked for
  pool,           \* chain -> transactions its nodes have accepted
  mined,          \* chain -> transactions it has executed
  reverted,       \* chain -> those of them that failed
  count,          \* chain -> account -> transaction count
  approved        \* history: what the user has approved, and for which chain

prefsVars   == <<chain, txs, used>>
keyringVars == <<locked, notices>>
trackerVars == <<running, knownNoPending, nonceMap, dropCounter, receiptRpc,
                 countRpc>>
rpcVars     == <<blockRpc, nonceRpc, sendRpc, gasRpc, device>>
networkVars == <<pool, mined, reverted, count>>
vars == <<prefsVars, keyringVars, trackerVars, rpcVars, networkVars, approved>>

-----------------------------------------------------------------------------
(* Transactions and records.                                               *)

Nonces == 0 .. MaxNonce
OptNonces == Nonces \cup {NoNonce}

\* What a transaction does: the payment it belongs to (the id of the record
\* it started as; a speedup, a cancellation and a retry keep the payment of
\* the transaction they replace), the version of its gas and data, whether
\* it was turned into a cancellation, and the paying account.
Contents == [req : TxIds, ver : 0 .. MaxVer, cancel : BOOLEAN, from : Accounts]

\* A signature commits to the contents, the nonce and the chain id.
Signatures == [what : Contents, nonce : OptNonces, chain : Chains]

\* EthTransaction, and Eip1559Transaction with a chain id of its own.
Txs == [what : Contents, chainId : Chains \cup {NoChain}, nonce : OptNonces,
        sig : Signatures \cup {NoSig}]

\* EthTxMeta.  The hash of a transaction is the transaction itself.
Metas == [id : TxIds, tx : Txs, status : Status, hash : Txs \cup {NoHash},
          signOnly : BOOLEAN, createdTime : Nat, confirmedTime : Nat]

ASSUME NoSigAssumption == NoSig \notin Signatures
ASSUME NoHashAssumption == NoHash \notin Txs
ASSUME NoTxAssumption == NoTx \notin Metas

\* The chain id a signature made while c is selected commits to.
SigningChain(tx, c) == IF tx.chainId = NoChain THEN c ELSE tx.chainId

SignatureOf(tx, c) ==
  [what |-> tx.what, nonce |-> tx.nonce, chain |-> SigningChain(tx, c)]

\* Nodes of chain c recover the sender from the signature: it must be a
\* signature of exactly this transaction, for this chain.
ValidOn(tx, c) ==
  tx.sig = [what |-> tx.what, nonce |-> tx.nonce, chain |-> c]

\* The browser has just started: the wallet is locked and the manager's
\* constructor has found nothing to run for.
Fresh ==
  /\ locked = TRUE /\ notices = <<>>
  /\ running = FALSE /\ blockRpc = FALSE /\ knownNoPending = FALSE
  /\ nonceMap = [a \in Accounts |-> NoNonce]
  /\ dropCounter = [hash \in {} |-> 0]
  /\ receiptRpc = {} /\ countRpc = {}
  /\ nonceRpc = {} /\ sendRpc = {} /\ gasRpc = {} /\ device = {}

Init ==
  /\ chain = DefaultChain
  /\ txs = [c \in Chains |-> EmptyStore]
  /\ used = {}
  /\ Fresh
  /\ pool = [c \in Chains |-> {}]
  /\ mined = [c \in Chains |-> {}]
  /\ reverted = [c \in Chains |-> {}]
  /\ count = [c \in Chains |-> [a \in Accounts |-> 0]]
  /\ approved = {}

-----------------------------------------------------------------------------
(* The store of the selected network.                                      *)

Store == txs[chain]
Found(id) == Store[id] # NoTx
HasStatus(id, status) == Found(id) /\ Store[id].status = status

Save(meta) == txs' = [txs EXCEPT ![chain] = AddOrUpdateTx(Store, meta)]

\* The wrong way: what was pending at the last update decides on the timer.
UpdatePendingWithStaleFlag(store, isRunning) ==
  /\ txs' = [txs EXCEPT ![chain] = DropNonceTaken(store)]
  /\ receiptRpc' = receiptRpc \cup
       {[id |-> id, net |-> chain, hash |-> store[id].hash] :
          id \in PendingIds(store) \ NonceTakenIds(store)}
  /\ knownNoPending' = (PendingIds(store) = {})
  /\ running' = CheckIfBlockTrackerShouldRun(locked, isRunning, knownNoPending)
  /\ UNCHANGED <<nonceMap, dropCounter, countRpc>>

\* EthTxManager::UpdatePendingTransactions on the given store, with the
\* timer running or not.
UpdatePendingTransactions(store, isRunning) ==
  /\ txs' = [txs EXCEPT ![chain] = DropNonceTaken(store)]
  /\ receiptRpc' = receiptRpc \cup
       {[id |-> id, net |-> chain, hash |-> store[id].hash] :
          id \in PendingIds(store) \ NonceTakenIds(store)}
  /\ knownNoPending' = (PendingIds(store) = {})
  /\ running' = CheckIfBlockTrackerShouldRun(locked, isRunning,
                                             PendingIds(store) = {})
  /\ UNCHANGED <<nonceMap, dropCounter, countRpc>>

-----------------------------------------------------------------------------
(* Adding: ContinueAddUnapprovedTransaction.  The gas requests before it   *)
(* change nothing, and the record goes to the network selected when they   *)
(* are answered.                                                           *)

NewMeta(id, tx, signOnly) ==
  [id |-> id,
   tx |-> tx,
   status |-> "Unapproved", hash |-> NoHash, signOnly |-> signOnly,
   createdTime |-> Cardinality(used) + 1, confirmedTime |-> 0]

ContinueAddUnapprovedTransaction(id, tx, signOnly) ==
  /\ id \notin used
  /\ used' = used \cup {id}
  /\ Save(NewMeta(id, tx, signOnly))

AddUnapprovedTransaction(id, from, signOnly, chainId) ==
  /\ id \in PaymentIds
  /\ signOnly => "SignOnly" \in Env
  /\ chainId # NoChain => "Eip1559" \in Env
  /\ ContinueAddUnapprovedTransaction(
       id,
       [what |-> [req |-> id, ver |-> 0, cancel |-> FALSE, from |-> from],
        chainId |-> chainId, nonce |-> NoNonce, sig |-> NoSig],
       signOnly)
  /\ UNCHANGED <<chain, keyringVars, trackerVars, rpcVars, networkVars,
                 approved>>

\* The wrong way: a copy takes a nonce of its own.
CopyWithoutNonce(tx, id) ==
  IF tx.nonce = NoNonce
  THEN [tx EXCEPT !.what.req = id]
  ELSE [tx EXCEPT !.nonce = NoNonce]

\* A copy without a nonce has never been signed for the chain and starts a
\* payment of its own; a copy with one stays bound to its payment.
CopyOf(tx, id) ==
  IF tx.nonce = NoNonce THEN [tx EXCEPT !.what.req = id] ELSE tx

RetryTransaction(id, newId) ==
  /\ "Retry" \in Env
  /\ HasStatus(id, "Error")
  /\ ContinueAddUnapprovedTransaction(newId, CopyOf(Store[id].tx, newId), FALSE)
  /\ UNCHANGED <<chain, keyringVars, trackerVars, rpcVars, networkVars,
                 approved>>

\* The copy is taken when the user asks; its gas is raised when the answer
\* arrives, whatever has become of the original meanwhile.
SpeedupOrCancelTransaction(id, cancel) ==
  /\ "Speedup" \in Env
  /\ HasStatus(id, "Submitted")
  /\ gasRpc' = gasRpc \cup
       {[Store[id].tx EXCEPT !.what.cancel = @ \/ cancel]}
  /\ UNCHANGED <<prefsVars, keyringVars, trackerVars, blockRpc, nonceRpc,
                 sendRpc, device, networkVars, approved>>

ContinueSpeedupOrCancelTransaction(tx, newId) ==
  /\ tx.what.ver < MaxVer
  /\ gasRpc' = gasRpc \ {tx}
  /\ LET raised == [tx EXCEPT !.what.ver = @ + 1]
     IN  ContinueAddUnapprovedTransaction(newId, CopyOf(raised, newId), FALSE)
  /\ UNCHANGED <<chain, keyringVars, trackerVars, blockRpc, nonceRpc, sendRpc,
                 device, networkVars, approved>>

GasEstimateFails(tx) ==
  /\ "RpcError" \in Env
  /\ gasRpc' = gasRpc \ {tx}
  /\ UNCHANGED <<prefsVars, keyringVars, trackerVars, blockRpc, nonceRpc,
                 sendRpc, device, networkVars, approved>>

-----------------------------------------------------------------------------
(* Editing and rejecting an unapproved transaction.                        *)

SetGasOrDataForUnapprovedTransaction(id) ==
  /\ "Edit" \in Env
  /\ HasStatus(id, "Unapproved")
  /\ Store[id].tx.what.ver < MaxVer
  /\ Save([Store[id] EXCEPT !.tx.what.ver = @ + 1])
  /\ UNCHANGED <<chain, used, keyringVars, trackerVars, rpcVars, networkVars,
                 approved>>

SetNonceForUnapprovedTransaction(id, nonce) ==
  /\ "SetNonce" \in Env
  /\ HasStatus(id, "Unapproved")
  /\ Save([Store[id] EXCEPT !.tx.nonce = nonce])
  /\ UNCHANGED <<chain, used, keyringVars, trackerVars, rpcVars, networkVars,
                 approved>>

\* The handler takes any status.  The panel lists unapproved transactions, those
\* whose approval waits for a nonce among them.
RejectTransaction(id) ==
  /\ "Reject" \in Env /\ Found(id)
  /\ HasStatus(id, "Unapproved") \/ "LateReject" \in Env
  /\ Save([Store[id] EXCEPT !.status = "Rejected"])
  /\ UNCHANGED <<chain, used, keyringVars, trackerVars, rpcVars, networkVars,
                 approved>>

-----------------------------------------------------------------------------
(* Approving with a key of the wallet.                                     *)

PublishTransaction(id, tx) ==
  sendRpc' = sendRpc \cup
    {[id |-> id, net |-> chain, tx |-> tx, state |-> "sent"]}

\* The wrong way: signing for the network selected when the nonce arrives.
SignForSelectedNow(tx, c) ==
  IF locked THEN tx ELSE [tx EXCEPT !.sig = SignatureOf(tx, chain)]

\* SignTransactionByDefaultKeyring: without a keyring the transaction is
\* left as it is, with the signature it may have been copied with.
SignTransactionByDefaultKeyring(tx, c) ==
  IF locked THEN tx ELSE [tx EXCEPT !.sig = SignatureOf(tx, c)]

\* The rest of OnGetNextNonce once there is a nonce.  meta is the record as
\* it was when the user approved, c the network selected then.
SignAndPublish(meta, c, nonce) ==
  LET tx   == SignTransactionByDefaultKeyring([meta.tx EXCEPT !.nonce = nonce],
                                              c)
      done == [meta EXCEPT !.tx = tx, !.status = "Approved"]
  IN  \/ /\ tx.sig = NoSig
         /\ Save(done)
         /\ UNCHANGED <<trackerVars, sendRpc>>
      \/ /\ tx.sig # NoSig /\ meta.signOnly
         /\ UpdatePendingTransactions(
              AddOrUpdateTx(Store, [done EXCEPT !.status = "Signed",
                                                !.hash = tx]),
              running)
         /\ UNCHANGED sendRpc
      \/ /\ tx.sig # NoSig /\ ~meta.signOnly
         /\ Save(done)
         /\ PublishTransaction(meta.id, tx)
         /\ UNCHANGED trackerVars

QueueLength == Cardinality(IdsByStatus(Store, {"Unapproved"}))

\* The wrong way: a button that is never disabled.
PanelAlwaysOffers(id) ==
  /\ HasStatus(id, "Unapproved")
  /\ ~locked \/ "LateCall" \in Env

\* The panel disables its button once pressed, until the length of the queue
\* of unapproved transactions is another one; it is not shown for a locked
\* wallet.  The handler checks none of this.
PanelOffersApproval(id) ==
  /\ HasStatus(id, "Unapproved")
  /\ ~locked \/ "LateCall" \in Env
  /\ \A r \in nonceRpc :
       r.meta.id = id => "ReApprove" \in Env /\ r.queue # QueueLength

NonceRequest(id, isHardware) ==
  [meta |-> Store[id], chain |-> chain, hw |-> isHardware,
   queue |-> QueueLength]

ApproveTransaction(id) ==
  /\ PanelOffersApproval(id)
  /\ Store[id].tx.what.from \notin HwAccounts
  /\ approved' = approved \cup
       {[what |-> Store[id].tx.what,
         chain |-> SigningChain(Store[id].tx, chain)]}
  /\ \/ /\ Store[id].tx.nonce = NoNonce
        /\ nonceRpc' = nonceRpc \cup {NonceRequest(id, FALSE)}
        /\ UNCHANGED <<txs, trackerVars, sendRpc>>
     \/ /\ Store[id].tx.nonce # NoNonce
        /\ SignAndPublish(Store[id], chain, Store[id].tx.nonce)
        /\ UNCHANGED nonceRpc
  /\ UNCHANGED <<chain, used, keyringVars, blockRpc, gasRpc, device,
                 networkVars>>

\* The nonces of an account's transactions of one status, in id order.
NoncesInOrder(status, from) ==
  LET ids == {id \in IdsByStatus(Store, {status}) :
                Store[id].tx.what.from = from /\ Store[id].tx.nonce # NoNonce}
      sorted == InOrder(ids)
  IN  [i \in DOMAIN sorted |-> Store[sorted[i]].tx.nonce]

NextNonce(from, networkNonce) ==
  GetFinalNonce(networkNonce, NoncesInOrder("Confirmed", from),
                NoncesInOrder("Submitted", from))

\* What a node of the network may answer to eth_getTransactionCount.
TransactionCounts(net, from) ==
  IF "Lag" \in Env THEN 0 .. count[net][from] ELSE {count[net][from]}

\* The wrong way: signing the record as it is when the nonce arrives.
OnGetNextNonceRereading(r) ==
  /\ ~r.hw /\ Found(r.meta.id)
  /\ nonceRpc' = nonceRpc \ {r}
  /\ \E n \in TransactionCounts(r.chain, r.meta.tx.what.from),
        nonce \in Nonces :
       /\ nonce = NextNonce(r.meta.tx.what.from, n)
       /\ SignAndPublish(Store[r.meta.id], r.chain, nonce)
  /\ UNCHANGED <<chain, used, keyringVars, blockRpc, gasRpc, device,
                 networkVars, approved>>

\* EthNonceTracker::OnGetNetworkNonce, then OnGetNextNonce.  The local part
\* of the nonce comes from the network selected now.
OnGetNextNonce(r) ==
  /\ ~r.hw
  /\ nonceRpc' = nonceRpc \ {r}
  /\ \E n \in TransactionCounts(r.chain, r.meta.tx.what.from),
        nonce \in Nonces :
       /\ nonce = NextNonce(r.meta.tx.what.from, n)
       /\ SignAndPublish(r.meta, r.chain, nonce)
  /\ UNCHANGED <<chain, used, keyringVars, blockRpc, gasRpc, device,
                 networkVars, approved>>

\* The failure path of OnGetNextNonce and OnGetNextNonceForHardware: the
\* copy taken at the request is written back as failed.
GetNextNonceFails(r) ==
  /\ "RpcError" \in Env
  /\ nonceRpc' = nonceRpc \ {r}
  /\ Save([r.meta EXCEPT !.status = "Error"])
  /\ UNCHANGED <<chain, used, keyringVars, trackerVars, blockRpc, sendRpc,
                 gasRpc, device, networkVars, approved>>

\* The record is looked up again, in the network selected now.
OnPublishTransaction(r) ==
  /\ sendRpc' = sendRpc \ {r}
  /\ \/ /\ ~Found(r.id)
        /\ r.state # "sent"
        /\ UNCHANGED <<txs, trackerVars>>
     \/ /\ Found(r.id) /\ r.state = "accepted"
        /\ UpdatePendingTransactions(
             AddOrUpdateTx(Store, [Store[r.id] EXCEPT !.status = "Submitted",
                                                      !.hash = r.tx]),
             running)
     \/ /\ Found(r.id)
        /\ r.state = "refused" \/ (r.state = "accepted" /\ "RpcError" \in Env)
        /\ Save([Store[r.id] EXCEPT !.status = "Error"])
        /\ UNCHANGED trackerVars
  /\ UNCHANGED <<chain, used, keyringVars, blockRpc, nonceRpc, gasRpc, device,
                 networkVars, approved>>

-----------------------------------------------------------------------------
(* Approving with a hardware device: the panel asks for a nonce, has the   *)
(* device sign the message, and hands the signature over.                  *)

GetNonceForHardwareTransaction(id) ==
  /\ PanelOffersApproval(id)
  /\ Store[id].tx.what.from \in HwAccounts
  /\ Store[id].tx.nonce = NoNonce
  /\ nonceRpc' = nonceRpc \cup {NonceRequest(id, TRUE)}
  /\ UNCHANGED <<prefsVars, keyringVars, trackerVars, blockRpc, sendRpc,
                 gasRpc, device, networkVars, approved>>

OnGetNextNonceForHardware(r) ==
  /\ r.hw
  /\ nonceRpc' = nonceRpc \ {r}
  /\ \E n \in TransactionCounts(r.chain, r.meta.tx.what.from),
        nonce \in Nonces :
       /\ nonce = NextNonce(r.meta.tx.what.from, n)
       /\ Save([r.meta EXCEPT !.tx.nonce = nonce])
  /\ UNCHANGED <<chain, used, keyringVars, trackerVars, blockRpc, sendRpc,
                 gasRpc, device, networkVars, approved>>

\* The device shows the message of the record as it is now; its user's
\* consent is the approval.  One message at a time.
GetTransactionMessageToSign(id) ==
  /\ HasStatus(id, "Unapproved")
  /\ Store[id].tx.what.from \in HwAccounts
  /\ Store[id].tx.nonce # NoNonce
  /\ device = {}
  /\ LET sig == SignatureOf(Store[id].tx, chain)
     IN  /\ device' = {[id |-> id, sig |-> sig]}
         /\ approved' = approved \cup {[what |-> sig.what, chain |-> sig.chain]}
  /\ UNCHANGED <<prefsVars, keyringVars, trackerVars, blockRpc, nonceRpc,
                 sendRpc, gasRpc, networkVars>>

\* The signature is put on the record found now, which is published even
\* when it was to be signed only.
ProcessHardwareSignature(d) ==
  /\ device' = device \ {d}
  /\ \/ ~Found(d.id) /\ UNCHANGED <<txs, sendRpc>>
     \/ /\ Found(d.id)
        /\ LET tx == [Store[d.id].tx EXCEPT !.sig = d.sig]
           IN  /\ Save([Store[d.id] EXCEPT !.tx = tx, !.status = "Approved"])
               /\ PublishTransaction(d.id, tx)
     \/ /\ Found(d.id) /\ "RpcError" \in Env   \* v, r or s does not decode
        /\ Save([Store[d.id] EXCEPT !.status = "Error"])
        /\ UNCHANGED sendRpc
  /\ UNCHANGED <<chain, used, keyringVars, trackerVars, blockRpc, nonceRpc,
                 gasRpc, networkVars, approved>>

-----------------------------------------------------------------------------
(* The block tracker and the pending transaction tracker.                  *)

GetBlockNumber ==
  /\ running /\ ~blockRpc
  /\ blockRpc' = TRUE
  /\ UNCHANGED <<prefsVars, keyringVars, trackerVars, nonceRpc, sendRpc,
                 gasRpc, device, networkVars, approved>>

\* EthBlockTracker::OnGetBlockNumber with a number it has not just seen,
\* then EthTxManager::OnNewBlock.  Stopping the timer does not take back a
\* request that is under way.
OnNewBlock ==
  /\ blockRpc
  /\ blockRpc' = FALSE
  /\ UpdatePendingTransactions(Store, running)
  /\ UNCHANGED <<chain, used, keyringVars, nonceRpc, sendRpc, gasRpc, device,
                 networkVars, approved>>

\* The same block again, or no answer.
OnSameBlock ==
  /\ blockRpc
  /\ blockRpc' = FALSE
  /\ UNCHANGED <<prefsVars, keyringVars, trackerVars, nonceRpc, sendRpc,
                 gasRpc, device, networkVars, approved>>

\* Confirmation times are only compared: the clock ticks once per
\* confirmation, up to a bound.
Ticks == 1 .. 2 * Cardinality(TxIds)

IsNow(t, id) ==
  LET others == {o \in TxIds \ {id} : Found(o)}
  IN  /\ \A o \in others : Store[o].confirmedTime < t
      /\ t = 1 \/ \E o \in others : Store[o].confirmedTime = t - 1

\* Wrong readings of a receipt: none counts as success, and its status is
\* not looked at.
NotKnownFailed(r) == r.hash \notin reverted[r.net]
HasReceipt(r) == r.hash \in mined[r.net]

\* TransactionReceipt.status.
ReceiptSucceeded(r) == r.hash \in mined[r.net] \ reverted[r.net]
ReceiptFailed(r) == r.hash \in reverted[r.net]

\* EthPendingTxTracker::OnGetTxReceipt with a receipt.  The record is looked
\* up in the network selected now and its status is not looked at.
OnGetTxReceipt(r) ==
  /\ receiptRpc' = receiptRpc \ {r}
  /\ \/ /\ ReceiptSucceeded(r) \/ ReceiptFailed(r)
        /\ ~Found(r.id)
        /\ UNCHANGED <<txs, nonceMap, dropCounter, countRpc>>
     \/ /\ ReceiptSucceeded(r) /\ Found(r.id)
        /\ \E t \in Ticks :
             /\ IsNow(t, r.id)
             /\ Save([Store[r.id] EXCEPT !.status = "Confirmed",
                                         !.confirmedTime = t])
        /\ UNCHANGED <<nonceMap, dropCounter, countRpc>>
     \/ /\ ReceiptFailed(r) /\ Found(r.id)
        /\ LET meta == Store[r.id]
               from == meta.tx.what.from
           IN  /\ txs' = IF ShouldTxDropped(nonceMap, dropCounter, meta)
                         THEN [txs EXCEPT ![chain] = DeleteTx(Store, r.id)]
                         ELSE txs
               /\ dropCounter' = CounterAfter(nonceMap, dropCounter, meta)
               /\ nonceMap' = [nonceMap EXCEPT ![from] = NoNonce]
               /\ countRpc' = IF nonceMap[from] = NoNonce
                              THEN countRpc \cup
                                     {[from |-> from, net |-> chain]}
                              ELSE countRpc
  /\ UNCHANGED <<chain, used, keyringVars, running, knownNoPending, rpcVars,
                 networkVars, approved>>

\* Not mined yet (the node answers null), or no answer.
NoTxReceipt(r) ==
  /\ r.hash \notin mined[r.net] \/ "RpcError" \in Env
  /\ receiptRpc' = receiptRpc \ {r}
  /\ UNCHANGED <<prefsVars, keyringVars, running, knownNoPending, nonceMap,
                 dropCounter, countRpc, rpcVars, networkVars, approved>>

\* EthPendingTxTracker::OnGetNetworkNonce: remembered by account alone.
OnGetNetworkNonce(q) ==
  /\ countRpc' = countRpc \ {q}
  /\ \/ \E n \in TransactionCounts(q.net, q.from) :
          nonceMap' = [nonceMap EXCEPT ![q.from] = n]
     \/ "RpcError" \in Env /\ UNCHANGED nonceMap
  /\ UNCHANGED <<prefsVars, keyringVars, running, knownNoPending, dropCounter,
                 receiptRpc, rpcVars, networkVars, approved>>

-----------------------------------------------------------------------------
(* The keyring, the selected network, and the browser.                     *)

\* KeyringService::Lock, by the user or by the auto-lock timer.
Lock ==
  /\ "Lock" \in Env
  /\ ~locked /\ Len(notices) < MaxNotices
  /\ locked' = TRUE
  /\ notices' = Append(notices, "Locked")
  /\ UNCHANGED <<prefsVars, trackerVars, rpcVars, networkVars, approved>>

\* KeyringService::Unlock, or a wallet created over a locked or reset one.
Unlock(notice) ==
  /\ notice = "KeyringCreated" => "Reset" \in Env
  /\ locked /\ Len(notices) < MaxNotices
  /\ locked' = FALSE
  /\ notices' = Append(notices, notice)
  /\ UNCHANGED <<prefsVars, trackerVars, rpcVars, networkVars, approved>>

\* TxManager::Locked, Unlocked, KeyringCreated, KeyringReset.
OnKeyringNotice ==
  /\ notices # <<>>
  /\ notices' = Tail(notices)
  /\ LET isRunning == IF ChecksTracker(Head(notices))
                      THEN CheckIfBlockTrackerShouldRun(locked, running,
                                                        knownNoPending)
                      ELSE running
     IN  \/ /\ UpdatesPending(Head(notices))
            /\ UpdatePendingTransactions(Store, isRunning)
         \/ /\ ~UpdatesPending(Head(notices))
            /\ running' = isRunning
            /\ UNCHANGED <<txs, knownNoPending, nonceMap, dropCounter,
                           receiptRpc, countRpc>>
  /\ UNCHANGED <<chain, used, locked, rpcVars, networkVars, approved>>

\* JsonRpcService::SetNetwork: nothing tells the transaction manager.
SetNetwork(c) ==
  /\ "SwitchChain" \in Env
  /\ c # chain
  /\ chain' = c
  /\ UNCHANGED <<txs, used, keyringVars, trackerVars, rpcVars, networkVars,
                 approved>>

\* BraveWalletService::Reset.  Callbacks of requests under way stay bound.
Reset ==
  /\ "Reset" \in Env
  /\ Len(notices) < MaxNotices
  /\ txs' = [c \in Chains |-> EmptyStore]
  /\ running' = FALSE /\ knownNoPending' = FALSE
  /\ nonceMap' = [a \in Accounts |-> NoNonce]
  /\ dropCounter' = [hash \in {} |-> 0]
  /\ chain' = DefaultChain
  /\ locked' = TRUE
  /\ notices' = Append(notices, "KeyringReset")
  /\ UNCHANGED <<used, receiptRpc, countRpc, rpcVars, networkVars, approved>>

\* The browser is closed with requests under way and started again: prefs
\* are all that is left.
Restart ==
  /\ "Restart" \in Env
  /\ locked' = TRUE /\ notices' = <<>>
  /\ running' = FALSE /\ blockRpc' = FALSE /\ knownNoPending' = FALSE
  /\ nonceMap' = [a \in Accounts |-> NoNonce]
  /\ dropCounter' = [hash \in {} |-> 0]
  /\ receiptRpc' = {} /\ countRpc' = {}
  /\ nonceRpc' = {} /\ sendRpc' = {} /\ gasRpc' = {} /\ device' = {}
  /\ UNCHANGED <<prefsVars, networkVars, approved>>

-----------------------------------------------------------------------------
(* The chains and their nodes (external).                                  *)

\* A node accepts a transaction that is validly signed for its chain and
\* whose nonce is not consumed; replacing one with the same nonce is a
\* matter of gas, so a second one may be accepted too.
NodeAccepts(r) ==
  /\ r.state = "sent"
  /\ ValidOn(r.tx, r.net)
  /\ r.tx.nonce \in Nonces /\ r.tx.nonce >= count[r.net][r.tx.what.from]
  /\ sendRpc' = (sendRpc \ {r}) \cup {[r EXCEPT !.state = "accepted"]}
  /\ pool' = [pool EXCEPT ![r.net] = @ \cup {r.tx}]
  /\ UNCHANGED <<prefsVars, keyringVars, trackerVars, blockRpc, nonceRpc,
                 gasRpc, device, mined, reverted, count, approved>>

NodeRefuses(r) ==
  /\ r.state = "sent"
  /\ \/ ~ValidOn(r.tx, r.net)
     \/ /\ r.tx.nonce \in Nonces
        /\ r.tx.nonce < count[r.net][r.tx.what.from]
     \/ "RpcError" \in Env
  /\ sendRpc' = (sendRpc \ {r}) \cup {[r EXCEPT !.state = "refused"]}
  /\ UNCHANGED <<prefsVars, keyringVars, trackerVars, blockRpc, nonceRpc,
                 gasRpc, device, networkVars, approved>>

\* The page that asked for the signature submits the transaction itself.
DappSubmits(id) ==
  /\ HasStatus(id, "Signed")
  /\ LET tx == Store[id].hash
     IN  /\ ValidOn(tx, tx.sig.chain)
         /\ pool' = [pool EXCEPT ![tx.sig.chain] = @ \cup {tx}]
  /\ UNCHANGED <<prefsVars, keyringVars, trackerVars, rpcVars, mined, reverted,
                 count, approved>>

\* A block includes an accepted transaction whose turn it is.
Mine(c, tx, reverts) ==
  /\ reverts => "Revert" \in Env
  /\ tx \notin mined[c]
  /\ tx.nonce = count[c][tx.what.from]
  /\ mined' = [mined EXCEPT ![c] = @ \cup {tx}]
  /\ reverted' = IF reverts
                 THEN [reverted EXCEPT ![c] = @ \cup {tx}]
                 ELSE reverted
  /\ count' = [count EXCEPT ![c][tx.what.from] = @ + 1]
  /\ UNCHANGED <<prefsVars, keyringVars, trackerVars, rpcVars, pool, approved>>

\* The account's next nonce is used from another wallet.
MineForeign(c, a) ==
  /\ "Foreign" \in Env
  /\ count[c][a] < MaxNonce
  /\ count' = [count EXCEPT ![c][a] = @ + 1]
  /\ UNCHANGED <<prefsVars, keyringVars, trackerVars, rpcVars, pool, mined,
                 reverted, approved>>

-----------------------------------------------------------------------------
UserStep ==
  \/ \E id \in TxIds, from \in Accounts, signOnly \in BOOLEAN,
        chainId \in Chains \cup {NoChain} :
        AddUnapprovedTransaction(id, from, signOnly, chainId)
  \/ \E id, newId \in TxIds : RetryTransaction(id, newId)
  \/ \E id \in TxIds, cancel \in BOOLEAN :
        SpeedupOrCancelTransaction(id, cancel)
  \/ \E id \in TxIds : SetGasOrDataForUnapprovedTransaction(id)
  \/ \E id \in TxIds, nonce \in OptNonces :
        SetNonceForUnapprovedTransaction(id, nonce)
  \/ \E id \in TxIds : RejectTransaction(id)
  \/ \E id \in TxIds : ApproveTransaction(id)
  \/ \E id \in TxIds : GetNonceForHardwareTransaction(id)
  \/ \E id \in TxIds : GetTransactionMessageToSign(id)
  \/ Lock
  \/ \E notice \in {"Unlocked", "KeyringCreated"} : Unlock(notice)
  \/ \E c \in Chains : SetNetwork(c)
  \/ Reset
  \/ Restart

Callback ==
  \/ \E tx \in gasRpc, newId \in TxIds :
        ContinueSpeedupOrCancelTransaction(tx, newId)
  \/ \E tx \in gasRpc : GasEstimateFails(tx)
  \/ \E r \in nonceRpc : OnGetNextNonce(r)
  \/ \E r \in nonceRpc : OnGetNextNonceForHardware(r)
  \/ \E r \in nonceRpc : GetNextNonceFails(r)
  \/ \E d \in device : ProcessHardwareSignature(d)
  \/ \E r \in sendRpc : OnPublishTransaction(r)
  \/ GetBlockNumber
  \/ OnNewBlock
  \/ OnSameBlock
  \/ \E r \in receiptRpc : OnGetTxReceipt(r)
  \/ \E r \in receiptRpc : NoTxReceipt(r)
  \/ \E q \in countRpc : OnGetNetworkNonce(q)
  \/ OnKeyringNotice

NetworkStep ==
  \/ \E r \in sendRpc : NodeAccepts(r)
  \/ \E r \in sendRpc : NodeRefuses(r)
  \/ \E id \in TxIds : DappSubmits(id)
  \/ \E c \in Chains : \E tx \in pool[c], reverts \in BOOLEAN :
        Mine(c, tx, reverts)
  \/ \E c \in Chains, a \in Accounts : MineForeign(c, a)

Next == UserStep \/ Callback \/ NetworkStep

Spec == Init /\ [][Next]_vars

(***************************************************************************)
(* Fairness, for a node that answers and a user who comes back: requests   *)
(* are answered, the mojo pipe delivers, the timer fires while it runs and *)
(* chains go on producing blocks, so that a poll finds a new one again and *)
(* again even if a lock stops the timer in between; a locked wallet is     *)
(* unlocked some time.  Nothing obliges the user to act otherwise, nor a   *)
(* page to submit what it had signed.                                      *)
(***************************************************************************)
Fairness ==
  /\ WF_vars(\E r \in sendRpc : NodeAccepts(r) \/ NodeRefuses(r))
  /\ WF_vars(\E r \in sendRpc : OnPublishTransaction(r))
  /\ WF_vars(\E r \in receiptRpc : OnGetTxReceipt(r))
  /\ WF_vars(\E q \in countRpc : OnGetNetworkNonce(q))
  /\ WF_vars(\E c \in Chains : \E tx \in pool[c] : Mine(c, tx, FALSE))
  /\ SF_vars(GetBlockNumber)
  /\ SF_vars(OnNewBlock)
  /\ WF_vars(OnKeyringNotice)
  /\ WF_vars(Unlock("Unlocked"))

FairSpec == Spec /\ Fairness
=============================================================================
