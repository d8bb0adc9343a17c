----------------------- MODULE EthTxManagerProperties -----------------------
(***************************************************************************)
(* What the Ethereum transaction manager should guarantee.  Each property  *)
(* names the surroundings it needs: the runs choose Env accordingly.       *)
(***************************************************************************)
EXTENDS EthTxManager

Stores == [TxIds -> Metas \cup {NoTx}]
NonceRequests == [meta : Metas, chain : Chains, hw : BOOLEAN, queue : Nat]
SendRequests == [id : TxIds, net : Chains, tx : Txs,
                 state : {"sent", "accepted", "refused"}]
ReceiptRequests == [id : TxIds, net : Chains, hash : Txs \cup {NoHash}]
CountRequests == [from : Accounts, net : Chains]
DeviceRequests == [id : TxIds, sig : Signatures]
Approvals == [what : Contents, chain : Chains]

\* Every variable stays within its domain: among others, a request under way
\* always carries a well-formed copy of a record, a nonce is never one the
\* bound excludes, and no record is stored with the status "Dropped".
TypeOK ==
  /\ chain \in Chains
  /\ txs \in [Chains -> Stores]
  /\ used \subseteq TxIds
  /\ locked \in BOOLEAN /\ notices \in Seq(KeyringNotices)
  /\ running \in BOOLEAN /\ blockRpc \in BOOLEAN /\ knownNoPending \in BOOLEAN
  /\ nonceMap \in [Accounts -> Nat \cup {NoNonce}]
  /\ DOMAIN dropCounter \subseteq Txs \cup {NoHash}
  /\ \A hash \in DOMAIN dropCounter : dropCounter[hash] \in 1 .. DroppedBlocks
  /\ nonceRpc \subseteq NonceRequests
  /\ sendRpc \subseteq SendRequests
  /\ receiptRpc \subseteq ReceiptRequests
  /\ countRpc \subseteq CountRequests
  /\ gasRpc \subseteq Txs
  /\ device \subseteq DeviceRequests
  /\ pool \in [Chains -> SUBSET Txs]
  /\ mined \in [Chains -> SUBSET Txs]
  /\ reverted \in [Chains -> SUBSET Txs]
  /\ count \in [Chains -> [Accounts -> Nat]]
  /\ approved \subseteq Approvals

IsPending(meta) == meta # NoTx /\ meta.status \in {"Submitted", "Signed"}

(***************************************************************************)
(* Whatever a node has accepted from the wallet is something the user has  *)
(* approved: these contents, for this chain.  It has to survive the record *)
(* being edited, rejected, wiped or moved to another network's store while *)
(* the nonce request of ApproveTransaction is under way, and signatures    *)
(* that speedups, cancellations and retries copy along.                    *)
(***************************************************************************)
SentWasApproved ==
  \A c \in Chains : \A tx \in pool[c] :
    [what |-> tx.what, chain |-> c] \in approved

\* What the user approved when approving something that is signed as sig.
ApprovalOf(sig) == [what |-> sig.what, chain |-> sig.chain]

Authorized(tx) == tx.sig # NoSig => ApprovalOf(tx.sig) \in approved

AuthorizedRecord(meta) ==
  /\ Authorized(meta.tx)
  /\ meta.hash # NoHash => Authorized(meta.hash)
  /\ meta.status = "Signed" => meta.hash # NoHash

(***************************************************************************)
(* No signature the user has not asked for exists anywhere: not in a       *)
(* record of any network, in the copy an answer will be written back from, *)
(* in a copy waiting for its gas price, on the device or on its way to a   *)
(* node; and what waits for its nonce has been approved.  Why nodes only   *)
(* ever get what SentWasApproved says.                                     *)
(***************************************************************************)
SignaturesAuthorized ==
  /\ \A c \in Chains, id \in TxIds :
       txs[c][id] # NoTx => AuthorizedRecord(txs[c][id])
  /\ \A r \in nonceRpc :
       /\ AuthorizedRecord(r.meta)
       /\ ~r.hw => [what  |-> r.meta.tx.what,
                    chain |-> SigningChain(r.meta.tx, r.chain)] \in approved
  /\ \A r \in sendRpc : Authorized(r.tx)
  /\ \A tx \in gasRpc : Authorized(tx)
  /\ \A d \in device : ApprovalOf(d.sig) \in approved

(***************************************************************************)
(* A payment is executed at most once on a network, however often it is    *)
(* sped up, cancelled, retried after an error that may have come too late, *)
(* or interrupted by a restart: all its transactions carry one nonce.      *)
(* Needs a user who does not set nonces by hand, one network, and a panel  *)
(* that sends one approval per record.                                     *)
(***************************************************************************)
PaidAtMostOnce ==
  \A c \in Chains : \A t1, t2 \in mined[c] :
    t1.what.req = t2.what.req => t1 = t2

(***************************************************************************)
(* A record shown as confirmed belongs to a payment some chain has         *)
(* executed: receipts answered late, for a record since replaced, wiped or *)
(* looked up in another network's store, never confirm anything else       *)
(* (OnGetTxReceipt does not look at the status it overwrites).             *)
(***************************************************************************)
ConfirmedWasMined ==
  \A c \in Chains : \A id \in TxIds :
    txs[c][id] # NoTx /\ txs[c][id].status = "Confirmed" =>
      \E net \in Chains : \E tx \in mined[net] :
        tx.what.req = txs[c][id].tx.what.req

(***************************************************************************)
(* On one network, a record shown as confirmed is a transaction the chain  *)
(* has executed successfully: one that reverted is never shown so, however *)
(* the receipt, the cached network nonce and the dropped-blocks counter    *)
(* interleave.                                                             *)
(***************************************************************************)
ConfirmedSucceeded ==
  \A c \in Chains : \A id \in TxIds :
    txs[c][id] # NoTx /\ txs[c][id].status = "Confirmed" =>
      txs[c][id].hash \in mined[c] \ reverted[c]

(***************************************************************************)
(* The wallet does not lose sight of a transaction that can still be       *)
(* executed: as long as its nonce is open, some record holds exactly this  *)
(* transaction.  Needs one account, since IsNonceTaken compares nonces     *)
(* across accounts, no wallet reset, no late rejection, after which the    *)
(* record may be retired, and the conditions of PaidAtMostOnce.            *)
(***************************************************************************)
LiveTxHasRecord ==
  \A c \in Chains : \A tx \in pool[c] :
    tx.nonce >= count[c][tx.what.from] =>
      \E id \in TxIds : txs[c][id] # NoTx /\ txs[c][id].tx = tx

(***************************************************************************)
(* The block tracker runs while there is something to wait for: with the   *)
(* wallet unlocked, every keyring notice handled and a submitted or signed *)
(* transaction in the store, CheckIfBlockTrackerShouldRun has left the     *)
(* timer on.  Needs one network: SetNetwork does not restart it.           *)
(***************************************************************************)
TrackerRuns ==
  ~locked /\ notices = <<>> /\ (\E id \in TxIds : IsPending(Store[id])) =>
    running

(***************************************************************************)
(* Once confirmed, a record stays confirmed until it is retired or the     *)
(* wallet is reset: no late answer to an earlier request takes it back.    *)
(* Needs a user who rejects only what waits for approval, since            *)
(* RejectTransaction does not look at the status, and the conditions of    *)
(* PaidAtMostOnce.                                                         *)
(***************************************************************************)
ConfirmedIsFinal ==
  [][\A c \in Chains : \A id \in TxIds :
       txs[c][id] # NoTx /\ txs[c][id].status = "Confirmed" =>
         txs'[c][id] = NoTx \/ txs'[c][id].status = "Confirmed"]_vars

(***************************************************************************)
(* DropTransaction gives up only on what the chain has decided: a pending  *)
(* record that disappears has a nonce the chain has consumed.              *)
(***************************************************************************)
DroppedOnlyWhenDecided ==
  [][\A c \in Chains : \A id \in TxIds :
       IsPending(txs[c][id]) /\ txs'[c][id] = NoTx =>
         txs[c][id].tx.nonce < count[c][txs[c][id].tx.what.from]]_vars

(***************************************************************************)
(* The user eventually learns what became of a submitted transaction: it   *)
(* is confirmed, or dropped because another one with its nonce was.  The   *)
(* receipts arrive one block behind, the drop a block later still, and     *)
(* locking stops the polling in between.  Needs answers that are not lost  *)
(* (see RpcError) and transactions that do not revert: IsNonceTaken sees   *)
(* confirmed records only.                                                 *)
(***************************************************************************)
SubmittedIsResolved ==
  \A id \in TxIds : HasStatus(id, "Submitted") ~> ~HasStatus(id, "Submitted")

(***************************************************************************)
(* On its one network the manager implements the wallet of WalletPayments: *)
(* every step is one of its steps or changes nothing it speaks of.  The    *)
(* versions it speaks of are the transactions' contents; a payment has     *)
(* been executed as often as its transactions were mined.                  *)
(***************************************************************************)
ContentsOf(transactions) == {tx.what : tx \in transactions}

ExecutionsOn(c) ==
  [p \in TxIds |-> Cardinality({tx \in mined[c] : tx.what.req = p})]

Wallet == INSTANCE WalletPayments WITH
  Payments   <- TxIds,
  Versions   <- Contents,
  PaymentOf  <- [what \in Contents |-> what.req],
  consented  <- {a.what : a \in approved},
  offered    <- ContentsOf(pool[DefaultChain]),
  executions <- ExecutionsOn(DefaultChain)

ImplementsWallet == Wallet!Spec

-----------------------------------------------------------------------------
(* What the code says of itself, where it does otherwise.                  *)

\* The confirmation panel disables its button "to prevent being clicked again
\* and submitting the same transaction".
ApprovedPaidAtMostOnce == PaidAtMostOnce
=============================================================================
