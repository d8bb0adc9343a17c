------------------------- MODULE EthTxManagerProofs -------------------------
(***************************************************************************)
(* TypeOK, SignaturesAuthorized and SentWasApproved hold in every          *)
(* reachable state, for every value of the constants: any networks,        *)
(* accounts, bounds and surroundings.  One inductive invariant, IInv,      *)
(* carries the three; it says where signed transactions may be.            *)
(***************************************************************************)
EXTENDS EthTxManagerProperties, FiniteSetTheorems, TLAPS

\* Transactions whose signature, if any, is covered by the approvals A, and
\* the records and requests made of them.
GoodTxs(A) == {tx \in Txs : tx.sig # NoSig => ApprovalOf(tx.sig) \in A}

GoodMetas(A) ==
  {meta \in Metas :
     /\ meta.tx \in GoodTxs(A)
     /\ meta.hash \in GoodTxs(A) \cup {NoHash}
     /\ meta.status = "Signed" => meta.hash # NoHash}

GoodStores(A) == [TxIds -> GoodMetas(A) \cup {NoTx}]

GoodNonceRequests(A) ==
  {r \in NonceRequests :
     /\ r.meta \in GoodMetas(A)
     /\ ~r.hw => [what  |-> r.meta.tx.what,
                  chain |-> SigningChain(r.meta.tx, r.chain)] \in A}

GoodSendRequests(A) == {r \in SendRequests : r.tx \in GoodTxs(A)}

GoodDeviceRequests(A) == {d \in DeviceRequests : ApprovalOf(d.sig) \in A}

PrefsOK ==
  /\ chain \in Chains
  /\ txs \in [Chains -> GoodStores(approved)]
  /\ used \subseteq TxIds

KeyringOK == locked \in BOOLEAN /\ notices \in Seq(KeyringNotices)

TrackerOK ==
  /\ running \in BOOLEAN /\ knownNoPending \in BOOLEAN
  /\ nonceMap \in [Accounts -> Nat \cup {NoNonce}]
  /\ DOMAIN dropCounter \subseteq Txs \cup {NoHash}
  /\ \A hash \in DOMAIN dropCounter : dropCounter[hash] \in 1 .. DroppedBlocks
  /\ receiptRpc \subseteq ReceiptRequests
  /\ countRpc \subseteq CountRequests

RpcOK ==
  /\ blockRpc \in BOOLEAN
  /\ nonceRpc \subseteq GoodNonceRequests(approved)
  /\ sendRpc \subseteq GoodSendRequests(approved)
  /\ gasRpc \subseteq GoodTxs(approved)
  /\ device \subseteq GoodDeviceRequests(approved)

NetworkOK ==
  /\ pool \in [Chains -> SUBSET Txs]
  /\ mined \in [Chains -> SUBSET Txs]
  /\ reverted \in [Chains -> SUBSET Txs]
  /\ count \in [Chains -> [Accounts -> Nat]]

\* The inductive invariant.
IInv ==
  /\ PrefsOK
  /\ KeyringOK
  /\ TrackerOK
  /\ RpcOK
  /\ NetworkOK
  /\ approved \subseteq Approvals
  /\ SentWasApproved

-----------------------------------------------------------------------------
(* The store.                                                              *)

LEMMA DeleteTxType ==
  ASSUME NEW A, NEW store \in GoodStores(A), NEW id \in TxIds
  PROVE  DeleteTx(store, id) \in GoodStores(A)
BY DEF DeleteTx, GoodStores

LEMMA RetireTxType ==
  ASSUME NEW A, NEW store \in GoodStores(A), NEW status, NEW maxNum
  PROVE  RetireTxByStatus(store, status, maxNum) \in GoodStores(A)
BY DEF RetireTxByStatus, GoodStores

LEMMA AddOrUpdateTxType ==
  ASSUME NEW A, NEW store \in GoodStores(A), NEW meta \in GoodMetas(A)
  PROVE  AddOrUpdateTx(store, meta) \in GoodStores(A)
<1>1. meta.id \in TxIds
  BY DEF GoodMetas, Metas
<1>2. [store EXCEPT ![meta.id] = meta] \in GoodStores(A)
  BY <1>1 DEF GoodStores
<1> QED
  BY <1>2, RetireTxType DEF AddOrUpdateTx

LEMMA DropNonceTakenType ==
  ASSUME NEW A, NEW store \in GoodStores(A)
  PROVE  DropNonceTaken(store) \in GoodStores(A)
BY DEF DropNonceTaken, GoodStores

\* A store has finitely many records.
LEMMA CardinalityOfIds ==
  ASSUME NEW S, S \subseteq TxIds
  PROVE  Cardinality(S) \in Nat
BY TxIdsAssumption, FS_Subset, FS_CardinalityType

LEMMA StoreType ==
  ASSUME NEW A, chain \in Chains, txs \in [Chains -> GoodStores(A)]
  PROVE  Store \in GoodStores(A)
BY DEF Store

LEMMA FoundType ==
  ASSUME NEW A, chain \in Chains, txs \in [Chains -> GoodStores(A)],
         NEW id \in TxIds, Found(id)
  PROVE  Store[id] \in GoodMetas(A)
BY StoreType DEF Found, GoodStores

\* Whatever good record is saved, the prefs stay good.
LEMMA SaveType ==
  ASSUME NEW A, chain \in Chains, txs \in [Chains -> GoodStores(A)],
         NEW meta \in GoodMetas(A), Save(meta)
  PROVE  txs' \in [Chains -> GoodStores(A)]
<1>1. AddOrUpdateTx(Store, meta) \in GoodStores(A)
  BY StoreType, AddOrUpdateTxType
<1> QED
  BY <1>1 DEF Save

LEMMA PendingHash ==
  ASSUME NEW A, NEW store \in GoodStores(A), NEW id \in PendingIds(store)
  PROVE  id \in TxIds /\ store[id].hash \in Txs \cup {NoHash}
BY DEF PendingIds, IdsByStatus, GoodStores, GoodMetas, GoodTxs

LEMMA UpdatePendingType ==
  ASSUME NEW A, chain \in Chains, txs \in [Chains -> GoodStores(A)],
         KeyringOK, TrackerOK,
         NEW store \in GoodStores(A), NEW isRunning \in BOOLEAN,
         UpdatePendingTransactions(store, isRunning)
  PROVE  txs' \in [Chains -> GoodStores(A)] /\ TrackerOK'
<1>1. txs' \in [Chains -> GoodStores(A)]
  BY DropNonceTakenType DEF UpdatePendingTransactions
<1>2. running' \in BOOLEAN /\ knownNoPending' \in BOOLEAN
  BY DEF UpdatePendingTransactions, CheckIfBlockTrackerShouldRun, KeyringOK
<1>3. receiptRpc' \subseteq ReceiptRequests
  BY PendingHash DEF UpdatePendingTransactions, TrackerOK, ReceiptRequests
<1> QED
  BY <1>1, <1>2, <1>3 DEF UpdatePendingTransactions, TrackerOK

-----------------------------------------------------------------------------
(* Transactions and records.                                               *)

LEMMA TxEdits ==
  ASSUME NEW A, NEW tx \in GoodTxs(A)
  PROVE  /\ \A id \in TxIds : [tx EXCEPT !.what.req = id] \in GoodTxs(A)
         /\ \A b \in BOOLEAN : [tx EXCEPT !.what.cancel = b] \in GoodTxs(A)
         /\ tx.what.ver < MaxVer =>
              [tx EXCEPT !.what.ver = @ + 1] \in GoodTxs(A)
         /\ \A n \in OptNonces : [tx EXCEPT !.nonce = n] \in GoodTxs(A)
         /\ \A s \in Signatures :
              ApprovalOf(s) \in A => [tx EXCEPT !.sig = s] \in GoodTxs(A)
<1> USE DEF GoodTxs, Txs
<1>1. tx.what \in Contents
  OBVIOUS
<1>2. \A w \in Contents : [tx EXCEPT !.what = w] \in GoodTxs(A)
  OBVIOUS
<1>3. \A id \in TxIds : [tx.what EXCEPT !.req = id] \in Contents
  BY <1>1 DEF Contents
<1>4. \A b \in BOOLEAN : [tx.what EXCEPT !.cancel = b] \in Contents
  BY <1>1 DEF Contents
<1>5. tx.what.ver < MaxVer => [tx.what EXCEPT !.ver = @ + 1] \in Contents
  BY <1>1, BoundsAssumption DEF Contents
<1>6. \A n \in OptNonces : [tx EXCEPT !.nonce = n] \in GoodTxs(A)
  OBVIOUS
<1>7. \A s \in Signatures :
        ApprovalOf(s) \in A => [tx EXCEPT !.sig = s] \in GoodTxs(A)
  BY NoSigAssumption
<1> QED
  BY <1>2, <1>3, <1>4, <1>5, <1>6, <1>7

LEMMA SignatureOfType ==
  ASSUME NEW tx \in Txs, NEW c \in Chains
  PROVE  /\ SigningChain(tx, c) \in Chains
         /\ SignatureOf(tx, c) \in Signatures
         /\ ApprovalOf(SignatureOf(tx, c)) =
              [what |-> tx.what, chain |-> SigningChain(tx, c)]
BY DEF SignatureOf, SigningChain, Signatures, Txs, ApprovalOf

LEMMA MetaEdits ==
  ASSUME NEW A, NEW meta \in GoodMetas(A)
  PROVE  /\ \A s \in Status \ {"Signed"} :
              [meta EXCEPT !.status = s] \in GoodMetas(A)
         /\ \A tx \in GoodTxs(A) : [meta EXCEPT !.tx = tx] \in GoodMetas(A)
         /\ \A s \in Status : \A tx \in GoodTxs(A) :
              [meta EXCEPT !.status = s, !.hash = tx] \in GoodMetas(A)
         /\ \A t \in Nat : [meta EXCEPT !.status = "Confirmed",
                                        !.confirmedTime = t] \in GoodMetas(A)
<1> USE DEF GoodMetas, Metas
<1>1. \A s \in Status \ {"Signed"} : [meta EXCEPT !.status = s] \in GoodMetas(A)
  OBVIOUS
<1>2. \A tx \in GoodTxs(A) : [meta EXCEPT !.tx = tx] \in GoodMetas(A)
  BY DEF GoodTxs
<1>3. \A s \in Status : \A tx \in GoodTxs(A) :
        [meta EXCEPT !.status = s, !.hash = tx] \in GoodMetas(A)
  BY NoHashAssumption DEF GoodTxs
<1>4. \A t \in Nat : [meta EXCEPT !.status = "Confirmed",
                                  !.confirmedTime = t] \in GoodMetas(A)
  BY DEF Status
<1> QED
  BY <1>1, <1>2, <1>3, <1>4

\* What is good stays good when the user approves more.
LEMMA GoodMonotone ==
  ASSUME NEW A, NEW B, A \subseteq B
  PROVE  /\ GoodTxs(A) \subseteq GoodTxs(B)
         /\ GoodMetas(A) \subseteq GoodMetas(B)
         /\ GoodStores(A) \subseteq GoodStores(B)
         /\ GoodNonceRequests(A) \subseteq GoodNonceRequests(B)
         /\ GoodSendRequests(A) \subseteq GoodSendRequests(B)
         /\ GoodDeviceRequests(A) \subseteq GoodDeviceRequests(B)
<1>1. GoodTxs(A) \subseteq GoodTxs(B)
  BY DEF GoodTxs
<1>2. GoodMetas(A) \subseteq GoodMetas(B)
  BY <1>1 DEF GoodMetas
<1>3. GoodStores(A) \subseteq GoodStores(B)
  BY <1>2 DEF GoodStores
<1>4. GoodNonceRequests(A) \subseteq GoodNonceRequests(B)
  BY <1>2 DEF GoodNonceRequests
<1>5. GoodSendRequests(A) \subseteq GoodSendRequests(B)
  BY <1>1 DEF GoodSendRequests
<1>6. GoodDeviceRequests(A) \subseteq GoodDeviceRequests(B)
  BY DEF GoodDeviceRequests
<1> QED
  BY <1>1, <1>2, <1>3, <1>4, <1>5, <1>6

\* A node accepts only signatures, hence only what is approved.
LEMMA ValidIsApproved ==
  ASSUME NEW A, NEW tx \in GoodTxs(A), NEW c \in Chains, ValidOn(tx, c)
  PROVE  [what |-> tx.what, chain |-> c] \in A
<1>1. tx.sig \in Signatures
  BY DEF ValidOn, Signatures, GoodTxs, Txs
<1> QED
  BY <1>1, NoSigAssumption DEF ValidOn, GoodTxs, ApprovalOf

LEMMA NonceRequestType ==
  ASSUME NEW A, chain \in Chains, txs \in [Chains -> GoodStores(A)],
         NEW id \in TxIds, Found(id), NEW isHardware \in BOOLEAN,
         ~isHardware => [what  |-> Store[id].tx.what,
                         chain |-> SigningChain(Store[id].tx, chain)] \in A
  PROVE  NonceRequest(id, isHardware) \in GoodNonceRequests(A)
<1>1. Store[id] \in GoodMetas(A)
  BY FoundType
<1>2. QueueLength \in Nat
  BY CardinalityOfIds DEF QueueLength, IdsByStatus
<1> QED
  BY <1>1, <1>2 DEF NonceRequest, GoodNonceRequests, NonceRequests, GoodMetas

LEMMA CountsAreNat ==
  ASSUME NetworkOK, NEW net \in Chains, NEW from \in Accounts
  PROVE  TransactionCounts(net, from) \subseteq Nat
BY DEF NetworkOK, TransactionCounts

-----------------------------------------------------------------------------
(* Steps that several actions share.                                       *)

LEMMA ContinueAddType ==
  ASSUME IInv, NEW id \in TxIds, NEW tx \in GoodTxs(approved),
         NEW signOnly \in BOOLEAN,
         ContinueAddUnapprovedTransaction(id, tx, signOnly)
  PROVE  /\ txs' \in [Chains -> GoodStores(approved)]
         /\ used' \subseteq TxIds
<1>1. Cardinality(used) + 1 \in Nat
  BY CardinalityOfIds DEF IInv, PrefsOK
<1>2. NewMeta(id, tx, signOnly) \in GoodMetas(approved)
  BY <1>1 DEF NewMeta, GoodMetas, Metas, Status, GoodTxs
<1>3. txs' \in [Chains -> GoodStores(approved)]
  BY <1>2, SaveType DEF ContinueAddUnapprovedTransaction, IInv, PrefsOK
<1> QED
  BY <1>3 DEF ContinueAddUnapprovedTransaction, IInv, PrefsOK

LEMMA CopyOfType ==
  ASSUME NEW A, NEW tx \in GoodTxs(A), NEW id \in TxIds
  PROVE  CopyOf(tx, id) \in GoodTxs(A)
BY TxEdits DEF CopyOf

LEMMA PublishType ==
  ASSUME NEW A, chain \in Chains, sendRpc \subseteq GoodSendRequests(A),
         NEW id \in TxIds, NEW tx \in GoodTxs(A), PublishTransaction(id, tx)
  PROVE  sendRpc' \subseteq GoodSendRequests(A)
BY DEF PublishTransaction, GoodSendRequests, SendRequests, GoodTxs

\* Signing and publishing is within the approvals A when they cover the copy.
LEMMA SignAndPublishType ==
  ASSUME NEW A, chain \in Chains, txs \in [Chains -> GoodStores(A)],
         KeyringOK, TrackerOK, sendRpc \subseteq GoodSendRequests(A),
         NEW meta \in GoodMetas(A), NEW c \in Chains, NEW nonce \in OptNonces,
         [what |-> meta.tx.what, chain |-> SigningChain(meta.tx, c)] \in A,
         SignAndPublish(meta, c, nonce)
  PROVE  /\ txs' \in [Chains -> GoodStores(A)]
         /\ TrackerOK'
         /\ sendRpc' \subseteq GoodSendRequests(A)
<1> DEFINE numbered == [meta.tx EXCEPT !.nonce = nonce]
           tx   == SignTransactionByDefaultKeyring(numbered, c)
           done == [meta EXCEPT !.tx = tx, !.status = "Approved"]
           sgnd == [done EXCEPT !.status = "Signed", !.hash = tx]
<1>1. meta.tx \in GoodTxs(A) /\ meta.tx \in Txs /\ meta.id \in TxIds
  BY DEF GoodMetas, GoodTxs, Metas
<1>2. /\ numbered \in GoodTxs(A)
      /\ numbered \in Txs
      /\ numbered.what = meta.tx.what
      /\ SigningChain(numbered, c) = SigningChain(meta.tx, c)
  BY <1>1, TxEdits DEF GoodTxs, Txs, SigningChain
<1>3. /\ SignatureOf(numbered, c) \in Signatures
      /\ ApprovalOf(SignatureOf(numbered, c)) \in A
  BY <1>2, SignatureOfType
<1>4. tx \in GoodTxs(A)
  BY <1>2, <1>3, TxEdits DEF SignTransactionByDefaultKeyring
<1>5. [meta EXCEPT !.tx = tx] \in GoodMetas(A)
  BY <1>4, MetaEdits
<1>6. done = [[meta EXCEPT !.tx = tx] EXCEPT !.status = "Approved"]
  OBVIOUS
<1>7. done \in GoodMetas(A)
  BY <1>5, <1>6, MetaEdits DEF Status
<1>8. sgnd \in GoodMetas(A)
  BY <1>4, <1>7, MetaEdits DEF Status
<1> HIDE DEF tx, done, sgnd
<1>9. CASE Save(done) /\ UNCHANGED <<trackerVars, sendRpc>>
  BY <1>7, <1>9, SaveType DEF trackerVars, TrackerOK
<1>10. CASE /\ UpdatePendingTransactions(AddOrUpdateTx(Store, sgnd), running)
            /\ UNCHANGED sendRpc
  <2>1. AddOrUpdateTx(Store, sgnd) \in GoodStores(A)
    BY <1>8, StoreType, AddOrUpdateTxType
  <2>2. running \in BOOLEAN
    BY DEF TrackerOK
  <2> QED
    BY <1>10, <2>1, <2>2, UpdatePendingType
<1>11. CASE /\ Save(done) /\ PublishTransaction(meta.id, tx)
            /\ UNCHANGED trackerVars
  <2>1. txs' \in [Chains -> GoodStores(A)]
    BY <1>7, <1>11, SaveType
  <2>2. sendRpc' \subseteq GoodSendRequests(A)
    BY <1>1, <1>4, <1>11, PublishType
  <2> QED
    BY <1>11, <2>1, <2>2 DEF trackerVars, TrackerOK
<1> QED
  BY <1>9, <1>10, <1>11 DEF SignAndPublish, tx, done, sgnd

-----------------------------------------------------------------------------
(* The user's steps.                                                       *)

\* A browser that has just started is in order.
LEMMA FreshOK ==
  ASSUME Fresh
  PROVE  /\ KeyringOK
         /\ TrackerOK
         /\ RpcOK
<1>1. <<>> \in Seq(KeyringNotices)
  OBVIOUS
<1>2. KeyringOK
  BY <1>1 DEF Fresh, KeyringOK
<1>3. TrackerOK
  BY DEF Fresh, TrackerOK
<1>4. RpcOK
  BY DEF Fresh, RpcOK
<1> QED
  BY <1>2, <1>3, <1>4

LEMMA EmptyStoreType ==
  ASSUME NEW A
  PROVE  EmptyStore \in GoodStores(A)
BY DEF EmptyStore, GoodStores

LEMMA InitInv == Init => IInv
<1> SUFFICES ASSUME Init PROVE IInv
  OBVIOUS
<1>1. KeyringOK /\ TrackerOK /\ RpcOK
  BY FreshOK DEF Init
<1>2. PrefsOK
  BY ChainsAssumption, EmptyStoreType DEF Init, PrefsOK
<1>3. NetworkOK
  BY DEF Init, NetworkOK
<1>4. SentWasApproved
  BY DEF Init, SentWasApproved
<1> QED
  BY <1>1, <1>2, <1>3, <1>4 DEF Init, IInv

LEMMA AddStep ==
  ASSUME IInv, NEW id \in TxIds, NEW from \in Accounts,
         NEW signOnly \in BOOLEAN, NEW chainId \in Chains \cup {NoChain},
         AddUnapprovedTransaction(id, from, signOnly, chainId)
  PROVE  IInv'
<1> DEFINE tx == [what |-> [req |-> id, ver |-> 0, cancel |-> FALSE,
                            from |-> from],
                  chainId |-> chainId, nonce |-> NoNonce, sig |-> NoSig]
<1>1. tx \in GoodTxs(approved)
  BY BoundsAssumption DEF GoodTxs, Txs, Contents, OptNonces
<1>2. txs' \in [Chains -> GoodStores(approved)] /\ used' \subseteq TxIds
  BY <1>1, ContinueAddType DEF AddUnapprovedTransaction
<1> HIDE DEF tx
<1> QED
  BY <1>2
  DEF AddUnapprovedTransaction, IInv, PrefsOK, KeyringOK,
    TrackerOK, RpcOK, NetworkOK, SentWasApproved, prefsVars, keyringVars,
    trackerVars, rpcVars, networkVars

LEMMA RetryStep ==
  ASSUME IInv, NEW id \in TxIds, NEW newId \in TxIds,
         RetryTransaction(id, newId)
  PROVE  IInv'
<1>1. Store[id].tx \in GoodTxs(approved)
  BY FoundType DEF RetryTransaction, HasStatus, IInv, PrefsOK, GoodMetas
<1>2. txs' \in [Chains -> GoodStores(approved)] /\ used' \subseteq TxIds
  BY <1>1, CopyOfType, ContinueAddType DEF RetryTransaction
<1> QED
  BY <1>2
  DEF RetryTransaction, IInv, PrefsOK, KeyringOK,
    TrackerOK, RpcOK, NetworkOK, SentWasApproved, prefsVars, keyringVars,
    trackerVars, rpcVars, networkVars

LEMMA SpeedupStep ==
  ASSUME IInv, NEW id \in TxIds, NEW cancel \in BOOLEAN,
         SpeedupOrCancelTransaction(id, cancel)
  PROVE  IInv'
<1>1. Store[id].tx \in GoodTxs(approved)
  BY FoundType
  DEF SpeedupOrCancelTransaction, HasStatus, IInv, PrefsOK, GoodMetas
<1>2. (Store[id].tx.what.cancel \/ cancel) \in BOOLEAN
  OBVIOUS
<1>3. [Store[id].tx EXCEPT !.what.cancel = @ \/ cancel] \in GoodTxs(approved)
  BY <1>1, <1>2, TxEdits
<1>4. gasRpc' \subseteq GoodTxs(approved)
  BY <1>3 DEF SpeedupOrCancelTransaction, IInv, RpcOK
<1> QED
  BY <1>4
  DEF SpeedupOrCancelTransaction, IInv, PrefsOK, KeyringOK,
    TrackerOK, RpcOK, NetworkOK, SentWasApproved, prefsVars, keyringVars,
    trackerVars, rpcVars, networkVars

LEMMA ContinueSpeedupStep ==
  ASSUME IInv, NEW tx \in gasRpc, NEW newId \in TxIds,
         ContinueSpeedupOrCancelTransaction(tx, newId)
  PROVE  IInv'
<1>1. [tx EXCEPT !.what.ver = @ + 1] \in GoodTxs(approved)
  BY TxEdits DEF ContinueSpeedupOrCancelTransaction, IInv, RpcOK
<1>2. txs' \in [Chains -> GoodStores(approved)] /\ used' \subseteq TxIds
  BY <1>1, CopyOfType, ContinueAddType DEF ContinueSpeedupOrCancelTransaction
<1> QED
  BY <1>2
  DEF ContinueSpeedupOrCancelTransaction, IInv, PrefsOK, KeyringOK,
    TrackerOK, RpcOK, NetworkOK, SentWasApproved, prefsVars, keyringVars,
    trackerVars, rpcVars, networkVars

LEMMA GasEstimateFailsStep ==
  ASSUME IInv, NEW tx \in gasRpc, GasEstimateFails(tx)
  PROVE  IInv'
BY DEF GasEstimateFails, IInv, PrefsOK, KeyringOK, TrackerOK, RpcOK, NetworkOK,
    SentWasApproved, prefsVars, keyringVars, trackerVars, rpcVars,
    networkVars

LEMMA SetGasOrDataStep ==
  ASSUME IInv, NEW id \in TxIds, SetGasOrDataForUnapprovedTransaction(id)
  PROVE  IInv'
<1>1. Store[id] \in GoodMetas(approved) /\ Store[id].tx \in GoodTxs(approved)
  BY FoundType
  DEF SetGasOrDataForUnapprovedTransaction, HasStatus, IInv, PrefsOK, GoodMetas
<1>2. [Store[id].tx EXCEPT !.what.ver = @ + 1] \in GoodTxs(approved)
  BY <1>1, TxEdits DEF SetGasOrDataForUnapprovedTransaction
<1>3. [Store[id] EXCEPT !.tx.what.ver = @ + 1] \in GoodMetas(approved)
  BY <1>1, <1>2, MetaEdits
<1>4. txs' \in [Chains -> GoodStores(approved)]
  BY <1>3, SaveType DEF SetGasOrDataForUnapprovedTransaction, IInv, PrefsOK
<1> QED
  BY <1>4
  DEF SetGasOrDataForUnapprovedTransaction, IInv, PrefsOK, KeyringOK,
    TrackerOK, RpcOK, NetworkOK, SentWasApproved, prefsVars, keyringVars,
    trackerVars, rpcVars, networkVars

LEMMA SetNonceStep ==
  ASSUME IInv, NEW id \in TxIds, NEW nonce \in OptNonces,
         SetNonceForUnapprovedTransaction(id, nonce)
  PROVE  IInv'
<1>1. Store[id] \in GoodMetas(approved) /\ Store[id].tx \in GoodTxs(approved)
  BY FoundType
  DEF SetNonceForUnapprovedTransaction, HasStatus, IInv, PrefsOK, GoodMetas
<1>2. [Store[id].tx EXCEPT !.nonce = nonce] \in GoodTxs(approved)
  BY <1>1, TxEdits
<1>3. [Store[id] EXCEPT !.tx.nonce = nonce] \in GoodMetas(approved)
  BY <1>1, <1>2, MetaEdits
<1>4. txs' \in [Chains -> GoodStores(approved)]
  BY <1>3, SaveType DEF SetNonceForUnapprovedTransaction, IInv, PrefsOK
<1> QED
  BY <1>4
  DEF SetNonceForUnapprovedTransaction, IInv, PrefsOK, KeyringOK,
    TrackerOK, RpcOK, NetworkOK, SentWasApproved, prefsVars, keyringVars,
    trackerVars, rpcVars, networkVars

LEMMA RejectStep ==
  ASSUME IInv, NEW id \in TxIds, RejectTransaction(id)
  PROVE  IInv'
<1>1. [Store[id] EXCEPT !.status = "Rejected"] \in GoodMetas(approved)
  BY FoundType, MetaEdits
  DEF RejectTransaction, HasStatus, IInv, PrefsOK, Status
<1>2. txs' \in [Chains -> GoodStores(approved)]
  BY <1>1, SaveType DEF RejectTransaction, IInv, PrefsOK
<1> QED
  BY <1>2
  DEF RejectTransaction, IInv, PrefsOK, KeyringOK,
    TrackerOK, RpcOK, NetworkOK, SentWasApproved, prefsVars, keyringVars,
    trackerVars, rpcVars, networkVars

\* Nothing that is good stops being so when something is approved.
LEMMA ApprovedMore ==
  ASSUME IInv, approved \subseteq approved'
  PROVE  /\ txs \in [Chains -> GoodStores(approved')]
         /\ sendRpc \subseteq GoodSendRequests(approved')
         /\ nonceRpc \subseteq GoodNonceRequests(approved')
         /\ gasRpc \subseteq GoodTxs(approved')
         /\ device \subseteq GoodDeviceRequests(approved')
<1>1. /\ GoodTxs(approved) \subseteq GoodTxs(approved')
      /\ GoodStores(approved) \subseteq GoodStores(approved')
      /\ GoodNonceRequests(approved) \subseteq GoodNonceRequests(approved')
      /\ GoodSendRequests(approved) \subseteq GoodSendRequests(approved')
      /\ GoodDeviceRequests(approved) \subseteq GoodDeviceRequests(approved')
  BY GoodMonotone
<1>2. txs \in [Chains -> GoodStores(approved')]
  BY <1>1 DEF IInv, PrefsOK
<1> QED
  BY <1>1, <1>2 DEF IInv, RpcOK

\* Approving first adds to what is approved, then asks for a nonce or signs.
LEMMA ApproveStep ==
  ASSUME IInv, NEW id \in TxIds, ApproveTransaction(id)
  PROVE  IInv'
<1> DEFINE new == [what  |-> Store[id].tx.what,
                   chain |-> SigningChain(Store[id].tx, chain)]
<1>1. Found(id) /\ approved' = approved \cup {new}
  BY DEF ApproveTransaction, PanelOffersApproval, HasStatus
<1>2. new \in Approvals
  <2>1. Store[id] \in GoodMetas(approved) /\ chain \in Chains
    BY <1>1, FoundType DEF IInv, PrefsOK
  <2>2. Store[id].tx \in Txs
    BY <2>1 DEF GoodMetas, GoodTxs
  <2> QED
    BY <2>1, <2>2, SignatureOfType DEF Approvals, Txs
<1> HIDE DEF new
<1>3. /\ txs \in [Chains -> GoodStores(approved')]
      /\ sendRpc \subseteq GoodSendRequests(approved')
      /\ nonceRpc \subseteq GoodNonceRequests(approved')
      /\ gasRpc \subseteq GoodTxs(approved')
      /\ device \subseteq GoodDeviceRequests(approved')
  BY <1>1, ApprovedMore
<1>4. Store[id] \in GoodMetas(approved')
  BY <1>1, <1>3, FoundType DEF IInv, PrefsOK
<1>5. /\ txs' \in [Chains -> GoodStores(approved')]
      /\ TrackerOK'
      /\ sendRpc' \subseteq GoodSendRequests(approved')
      /\ nonceRpc' \subseteq GoodNonceRequests(approved')
  <2>1. CASE /\ nonceRpc' = nonceRpc \cup {NonceRequest(id, FALSE)}
             /\ UNCHANGED <<txs, trackerVars, sendRpc>>
    <3>1. NonceRequest(id, FALSE) \in GoodNonceRequests(approved')
      BY <1>1, <1>3, NonceRequestType DEF IInv, PrefsOK, new
    <3> QED
      BY <1>3, <2>1, <3>1 DEF IInv, TrackerOK, trackerVars
  <2>2. CASE /\ Store[id].tx.nonce # NoNonce
             /\ SignAndPublish(Store[id], chain, Store[id].tx.nonce)
             /\ UNCHANGED nonceRpc
    <3>1. Store[id].tx.nonce \in OptNonces
      BY <1>4 DEF GoodMetas, GoodTxs, Txs
    <3>2. [what  |-> Store[id].tx.what,
           chain |-> SigningChain(Store[id].tx, chain)] \in approved'
      BY <1>1 DEF new
    <3>3. chain \in Chains /\ KeyringOK /\ TrackerOK
      BY DEF IInv, PrefsOK
    <3>4. /\ txs' \in [Chains -> GoodStores(approved')]
          /\ TrackerOK'
          /\ sendRpc' \subseteq GoodSendRequests(approved')
      BY <1>3, <1>4, <2>2, <3>1, <3>2, <3>3, SignAndPublishType
    <3> QED
      BY <1>3, <2>2, <3>4
  <2> QED
    BY <2>1, <2>2 DEF ApproveTransaction
<1>6. PrefsOK'
  BY <1>5 DEF ApproveTransaction, IInv, PrefsOK
<1>7. KeyringOK' /\ RpcOK' /\ NetworkOK'
  BY <1>3, <1>5
  DEF ApproveTransaction, IInv, KeyringOK, RpcOK, NetworkOK, keyringVars,
      networkVars
<1>8. SentWasApproved'
  BY <1>1 DEF ApproveTransaction, IInv, SentWasApproved, networkVars
<1> QED
  BY <1>1, <1>2, <1>5, <1>6, <1>7, <1>8 DEF IInv

\* The request's copy of the record is good, and it was approved.
LEMMA NonceRequestParts ==
  ASSUME IInv, NEW r \in nonceRpc
  PROVE  /\ r.meta \in GoodMetas(approved) /\ r.meta.tx \in GoodTxs(approved)
         /\ r.chain \in Chains
         /\ ~r.hw => [what  |-> r.meta.tx.what,
                      chain |-> SigningChain(r.meta.tx, r.chain)] \in approved
BY DEF IInv, RpcOK, GoodNonceRequests, NonceRequests, GoodMetas

LEMMA OnGetNextNonceStep ==
  ASSUME IInv, NEW r \in nonceRpc, OnGetNextNonce(r)
  PROVE  IInv'
<1>1. PICK nonce \in Nonces : SignAndPublish(r.meta, r.chain, nonce)
  BY DEF OnGetNextNonce
<1>2. nonce \in OptNonces
  BY DEF OptNonces
<1>3. /\ txs' \in [Chains -> GoodStores(approved)]
      /\ TrackerOK'
      /\ sendRpc' \subseteq GoodSendRequests(approved)
  BY <1>1, <1>2, NonceRequestParts, SignAndPublishType
  DEF OnGetNextNonce, IInv, PrefsOK, RpcOK
<1> QED
  BY <1>3 DEF OnGetNextNonce, IInv, PrefsOK, KeyringOK, RpcOK, NetworkOK,
    SentWasApproved, keyringVars, networkVars

LEMMA OnGetNextNonceForHardwareStep ==
  ASSUME IInv, NEW r \in nonceRpc, OnGetNextNonceForHardware(r)
  PROVE  IInv'
<1>1. PICK nonce \in Nonces : Save([r.meta EXCEPT !.tx.nonce = nonce])
  BY DEF OnGetNextNonceForHardware
<1>2. [r.meta.tx EXCEPT !.nonce = nonce] \in GoodTxs(approved)
  BY NonceRequestParts, TxEdits DEF OptNonces
<1>3. [r.meta EXCEPT !.tx.nonce = nonce] \in GoodMetas(approved)
  BY <1>2, NonceRequestParts, MetaEdits
<1>4. txs' \in [Chains -> GoodStores(approved)]
  BY <1>1, <1>3, SaveType DEF IInv, PrefsOK
<1> QED
  BY <1>4 DEF OnGetNextNonceForHardware, IInv, PrefsOK, KeyringOK, TrackerOK,
    RpcOK, NetworkOK, SentWasApproved, keyringVars, trackerVars, networkVars

LEMMA GetNextNonceFailsStep ==
  ASSUME IInv, NEW r \in nonceRpc, GetNextNonceFails(r)
  PROVE  IInv'
<1>1. [r.meta EXCEPT !.status = "Error"] \in GoodMetas(approved)
  BY NonceRequestParts, MetaEdits DEF Status
<1>2. txs' \in [Chains -> GoodStores(approved)]
  BY <1>1, SaveType DEF GetNextNonceFails, IInv, PrefsOK
<1> QED
  BY <1>2 DEF GetNextNonceFails, IInv, PrefsOK, KeyringOK, TrackerOK, RpcOK,
    NetworkOK, SentWasApproved, keyringVars, trackerVars, networkVars

LEMMA OnPublishTransactionStep ==
  ASSUME IInv, NEW r \in sendRpc, OnPublishTransaction(r)
  PROVE  IInv'
<1>1. r.id \in TxIds /\ r.tx \in GoodTxs(approved)
  BY DEF IInv, RpcOK, GoodSendRequests, SendRequests
<1>2. Found(r.id) => Store[r.id] \in GoodMetas(approved)
  BY <1>1, FoundType DEF IInv, PrefsOK
<1>3. txs' \in [Chains -> GoodStores(approved)] /\ TrackerOK'
  <2>1. CASE UNCHANGED <<txs, trackerVars>>
    BY <2>1 DEF IInv, PrefsOK, TrackerOK, trackerVars
  <2> DEFINE meta == [Store[r.id] EXCEPT !.status = "Submitted", !.hash = r.tx]
  <2>2. CASE /\ Found(r.id)
             /\ UpdatePendingTransactions(AddOrUpdateTx(Store, meta), running)
    <3>1. meta \in GoodMetas(approved)
      BY <1>1, <1>2, <2>2, MetaEdits DEF Status
    <3> HIDE DEF meta
    <3>2. AddOrUpdateTx(Store, meta) \in GoodStores(approved)
      BY <3>1, StoreType, AddOrUpdateTxType DEF IInv, PrefsOK
    <3> QED
      BY <2>2, <3>2, UpdatePendingType DEF IInv, PrefsOK, TrackerOK
  <2>3. CASE /\ Found(r.id)
             /\ Save([Store[r.id] EXCEPT !.status = "Error"])
             /\ UNCHANGED trackerVars
    <3>1. [Store[r.id] EXCEPT !.status = "Error"] \in GoodMetas(approved)
      BY <1>2, <2>3, MetaEdits DEF Status
    <3>2. txs' \in [Chains -> GoodStores(approved)]
      BY <2>3, <3>1, SaveType DEF IInv, PrefsOK
    <3> QED
      BY <2>3, <3>2 DEF IInv, TrackerOK, trackerVars
  <2> QED
    BY <2>1, <2>2, <2>3 DEF OnPublishTransaction
<1> QED
  BY <1>3 DEF OnPublishTransaction, IInv, PrefsOK, KeyringOK, RpcOK, NetworkOK,
    SentWasApproved, keyringVars, networkVars

-----------------------------------------------------------------------------
(* The hardware device.                                                    *)

LEMMA GetNonceForHardwareTransactionStep ==
  ASSUME IInv, NEW id \in TxIds, GetNonceForHardwareTransaction(id)
  PROVE  IInv'
<1>1. Found(id)
  BY DEF GetNonceForHardwareTransaction, PanelOffersApproval, HasStatus
<1>2. NonceRequest(id, TRUE) \in GoodNonceRequests(approved)
  BY <1>1, NonceRequestType DEF IInv, PrefsOK
<1>3. nonceRpc' \subseteq GoodNonceRequests(approved)
  BY <1>2 DEF GetNonceForHardwareTransaction, IInv, RpcOK
<1> QED
  BY <1>3 DEF GetNonceForHardwareTransaction, IInv, PrefsOK, KeyringOK,
    TrackerOK, RpcOK, NetworkOK, SentWasApproved, prefsVars, keyringVars,
    trackerVars, networkVars

LEMMA GetTransactionMessageToSignStep ==
  ASSUME IInv, NEW id \in TxIds, GetTransactionMessageToSign(id)
  PROVE  IInv'
<1> DEFINE sig == SignatureOf(Store[id].tx, chain)
<1>1. /\ Found(id)
      /\ device' = {[id |-> id, sig |-> sig]}
      /\ approved' = approved \cup {ApprovalOf(sig)}
  BY DEF GetTransactionMessageToSign, HasStatus, ApprovalOf
<1>2. Store[id].tx \in Txs /\ chain \in Chains
  BY <1>1, FoundType DEF IInv, PrefsOK, GoodMetas, GoodTxs
<1>3. sig \in Signatures
  BY <1>2, SignatureOfType
<1> HIDE DEF sig
<1>4. ApprovalOf(sig) \in Approvals
  BY <1>3 DEF ApprovalOf, Signatures, Approvals
<1>5. /\ txs \in [Chains -> GoodStores(approved')]
      /\ sendRpc \subseteq GoodSendRequests(approved')
      /\ nonceRpc \subseteq GoodNonceRequests(approved')
      /\ gasRpc \subseteq GoodTxs(approved')
  BY <1>1, ApprovedMore
<1>6. device' \subseteq GoodDeviceRequests(approved')
  BY <1>1, <1>3 DEF GoodDeviceRequests, DeviceRequests
<1>7. PrefsOK'
  BY <1>5 DEF GetTransactionMessageToSign, IInv, PrefsOK, prefsVars
<1>8. KeyringOK' /\ TrackerOK' /\ NetworkOK'
  BY DEF GetTransactionMessageToSign, IInv, KeyringOK, TrackerOK, NetworkOK,
    keyringVars, trackerVars, networkVars
<1>9. RpcOK'
  BY <1>5, <1>6 DEF GetTransactionMessageToSign, IInv, RpcOK
<1>10. SentWasApproved'
  BY <1>1 DEF GetTransactionMessageToSign, IInv, SentWasApproved, networkVars
<1> QED
  BY <1>1, <1>4, <1>7, <1>8, <1>9, <1>10 DEF IInv

LEMMA ProcessHardwareSignatureStep ==
  ASSUME IInv, NEW d \in device, ProcessHardwareSignature(d)
  PROVE  IInv'
<1>1. /\ d.id \in TxIds /\ d.sig \in Signatures
      /\ ApprovalOf(d.sig) \in approved
  BY DEF IInv, RpcOK, GoodDeviceRequests, DeviceRequests
<1>2. Found(d.id) => /\ Store[d.id] \in GoodMetas(approved)
                     /\ Store[d.id].tx \in GoodTxs(approved)
  BY <1>1, FoundType DEF IInv, PrefsOK, GoodMetas
<1>3. /\ txs' \in [Chains -> GoodStores(approved)]
      /\ sendRpc' \subseteq GoodSendRequests(approved)
  <2>1. CASE UNCHANGED <<txs, sendRpc>>
    BY <2>1 DEF IInv, PrefsOK, RpcOK
  <2> DEFINE tx == [Store[d.id].tx EXCEPT !.sig = d.sig]
             meta == [[Store[d.id] EXCEPT !.tx = tx]
                        EXCEPT !.status = "Approved"]
  <2>2. CASE /\ Found(d.id)
             /\ Save([Store[d.id] EXCEPT !.tx = tx, !.status = "Approved"])
             /\ PublishTransaction(d.id, tx)
    <3>1. tx \in GoodTxs(approved)
      BY <1>1, <1>2, <2>2, TxEdits
    <3>2. [Store[d.id] EXCEPT !.tx = tx] \in GoodMetas(approved)
      BY <1>2, <2>2, <3>1, MetaEdits
    <3>3. meta \in GoodMetas(approved)
      BY <3>2, MetaEdits DEF Status
    <3>4. Save(meta) /\ PublishTransaction(d.id, tx)
      BY <2>2
    <3> HIDE DEF tx, meta
    <3> QED
      BY <1>1, <3>1, <3>3, <3>4, SaveType, PublishType DEF IInv, PrefsOK, RpcOK
  <2>3. CASE /\ Found(d.id)
             /\ Save([Store[d.id] EXCEPT !.status = "Error"])
             /\ UNCHANGED sendRpc
    <3>1. [Store[d.id] EXCEPT !.status = "Error"] \in GoodMetas(approved)
      BY <1>2, <2>3, MetaEdits DEF Status
    <3> QED
      BY <2>3, <3>1, SaveType DEF IInv, PrefsOK, RpcOK
  <2> QED
    BY <2>1, <2>2, <2>3 DEF ProcessHardwareSignature
<1> QED
  BY <1>3 DEF ProcessHardwareSignature, IInv, PrefsOK, KeyringOK, TrackerOK,
    RpcOK, NetworkOK, SentWasApproved, keyringVars, trackerVars, networkVars

-----------------------------------------------------------------------------
(* The trackers.                                                           *)

LEMMA BlockNumberSteps ==
  ASSUME IInv, GetBlockNumber \/ OnSameBlock
  PROVE  IInv'
BY DEF GetBlockNumber, OnSameBlock, IInv, PrefsOK, KeyringOK, TrackerOK, RpcOK,
    NetworkOK, SentWasApproved, prefsVars, keyringVars, trackerVars, networkVars

LEMMA OnNewBlockStep ==
  ASSUME IInv, OnNewBlock
  PROVE  IInv'
<1>1. Store \in GoodStores(approved) /\ running \in BOOLEAN
  BY StoreType DEF IInv, PrefsOK, TrackerOK
<1>2. txs' \in [Chains -> GoodStores(approved)] /\ TrackerOK'
  BY <1>1, UpdatePendingType DEF OnNewBlock, IInv, PrefsOK
<1> QED
  BY <1>2 DEF OnNewBlock, IInv, PrefsOK, KeyringOK, RpcOK, NetworkOK,
    SentWasApproved, keyringVars, networkVars

\* The dropped-blocks counter stays within its bound.
LEMMA CounterType ==
  ASSUME TrackerOK, NEW meta, meta.hash \in Txs \cup {NoHash}
  PROVE  LET counter == CounterAfter(nonceMap, dropCounter, meta)
         IN  /\ DOMAIN counter \subseteq Txs \cup {NoHash}
             /\ \A hash \in DOMAIN counter :
                  counter[hash] \in 1 .. DroppedBlocks
<1>1. CASE NonceBelowNetwork(nonceMap, meta)
  BY <1>1 DEF CounterAfter, TrackerOK
<1>2. CASE /\ ~NonceBelowNetwork(nonceMap, meta)
           /\ DroppedCount(dropCounter, meta.hash) >= DroppedBlocks
  BY <1>2 DEF CounterAfter, TrackerOK
<1>3. CASE /\ ~NonceBelowNetwork(nonceMap, meta)
           /\ ~(DroppedCount(dropCounter, meta.hash) >= DroppedBlocks)
  <2>1. DroppedCount(dropCounter, meta.hash) \in 0 .. DroppedBlocks
    BY DEF DroppedCount, TrackerOK, DroppedBlocks
  <2>2. DroppedCount(dropCounter, meta.hash) + 1 \in 1 .. DroppedBlocks
    BY <1>3, <2>1 DEF DroppedBlocks
  <2> QED
    BY <1>3, <2>2 DEF CounterAfter, TrackerOK
<1> QED
  BY <1>1, <1>2, <1>3

LEMMA OnGetTxReceiptStep ==
  ASSUME IInv, NEW r \in receiptRpc, OnGetTxReceipt(r)
  PROVE  IInv'
<1>1. r.id \in TxIds
  BY DEF IInv, TrackerOK, ReceiptRequests
<1>2. Found(r.id) => Store[r.id] \in GoodMetas(approved)
  BY <1>1, FoundType DEF IInv, PrefsOK
<1>3. Ticks \subseteq Nat
  BY DEF Ticks
<1>4. /\ txs' \in [Chains -> GoodStores(approved)]
      /\ nonceMap' \in [Accounts -> Nat \cup {NoNonce}]
      /\ DOMAIN dropCounter' \subseteq Txs \cup {NoHash}
      /\ \A hash \in DOMAIN dropCounter' :
           dropCounter'[hash] \in 1 .. DroppedBlocks
      /\ countRpc' \subseteq CountRequests
  <2>1. CASE UNCHANGED <<txs, nonceMap, dropCounter, countRpc>>
    BY <2>1 DEF IInv, PrefsOK, TrackerOK
  <2>2. CASE /\ Found(r.id)
             /\ \E t \in Ticks :
                  Save([Store[r.id] EXCEPT !.status = "Confirmed",
                                           !.confirmedTime = t])
             /\ UNCHANGED <<nonceMap, dropCounter, countRpc>>
    <3>1. PICK t \in Ticks : Save([Store[r.id] EXCEPT !.status = "Confirmed",
                                                     !.confirmedTime = t])
      BY <2>2
    <3>2. [Store[r.id] EXCEPT !.status = "Confirmed", !.confirmedTime = t]
            \in GoodMetas(approved)
      BY <1>2, <1>3, <2>2, MetaEdits
    <3>3. txs' \in [Chains -> GoodStores(approved)]
      BY <3>1, <3>2, SaveType DEF IInv, PrefsOK
    <3> QED
      BY <2>2, <3>3 DEF IInv, TrackerOK
  <2> DEFINE meta == Store[r.id]
             from == meta.tx.what.from
  <2>3. CASE /\ Found(r.id)
             /\ \/ txs' = txs
                \/ txs' = [txs EXCEPT ![chain] = DeleteTx(Store, r.id)]
             /\ dropCounter' = CounterAfter(nonceMap, dropCounter, meta)
             /\ nonceMap' = [nonceMap EXCEPT ![from] = NoNonce]
             /\ \/ countRpc' = countRpc \cup {[from |-> from, net |-> chain]}
                \/ countRpc' = countRpc
    <3>1. /\ meta.hash \in Txs \cup {NoHash}
          /\ from \in Accounts /\ chain \in Chains
      BY <1>2, <2>3
      DEF IInv, PrefsOK, GoodMetas, GoodTxs, Txs, Contents
    <3>2. DeleteTx(Store, r.id) \in GoodStores(approved)
      BY <1>1, StoreType, DeleteTxType DEF IInv, PrefsOK
    <3> HIDE DEF meta, from
    <3>3. txs' \in [Chains -> GoodStores(approved)]
      BY <2>3, <3>2 DEF IInv, PrefsOK
    <3>4. nonceMap' \in [Accounts -> Nat \cup {NoNonce}]
      BY <2>3, <3>1 DEF IInv, TrackerOK
    <3>5. /\ DOMAIN dropCounter' \subseteq Txs \cup {NoHash}
          /\ \A hash \in DOMAIN dropCounter' :
               dropCounter'[hash] \in 1 .. DroppedBlocks
      BY <2>3, <3>1, CounterType DEF IInv
    <3>6. countRpc' \subseteq CountRequests
      BY <2>3, <3>1 DEF IInv, TrackerOK, CountRequests
    <3> QED
      BY <3>3, <3>4, <3>5, <3>6
  <2> QED
    BY <2>1, <2>2, <2>3 DEF OnGetTxReceipt
<1> QED
  BY <1>4 DEF OnGetTxReceipt, IInv, PrefsOK, KeyringOK, TrackerOK, RpcOK,
    NetworkOK, SentWasApproved, keyringVars, rpcVars, networkVars

LEMMA NoTxReceiptStep ==
  ASSUME IInv, NEW r \in receiptRpc, NoTxReceipt(r)
  PROVE  IInv'
BY DEF NoTxReceipt, IInv, PrefsOK, KeyringOK, TrackerOK, RpcOK, NetworkOK,
    SentWasApproved, prefsVars, keyringVars, rpcVars, networkVars

LEMMA OnGetNetworkNonceStep ==
  ASSUME IInv, NEW q \in countRpc, OnGetNetworkNonce(q)
  PROVE  IInv'
<1>1. q.net \in Chains /\ q.from \in Accounts
  BY DEF IInv, TrackerOK, CountRequests
<1>2. TransactionCounts(q.net, q.from) \subseteq Nat
  BY <1>1, CountsAreNat DEF IInv
<1>3. nonceMap' \in [Accounts -> Nat \cup {NoNonce}]
  BY <1>1, <1>2 DEF OnGetNetworkNonce, IInv, TrackerOK
<1> QED
  BY <1>3 DEF OnGetNetworkNonce, IInv, PrefsOK, KeyringOK, TrackerOK, RpcOK,
    NetworkOK, SentWasApproved, prefsVars, keyringVars, rpcVars, networkVars

-----------------------------------------------------------------------------
(* The keyring, the selected network, and the browser.                     *)

LEMMA LockSteps ==
  ASSUME IInv,
         Lock \/ \E notice \in {"Unlocked", "KeyringCreated"} : Unlock(notice)
  PROVE  IInv'
<1>1. PICK notice \in KeyringNotices : notices' = Append(notices, notice)
  BY DEF Lock, Unlock, KeyringNotices
<1>2. notices' \in Seq(KeyringNotices)
  BY <1>1 DEF IInv, KeyringOK
<1>3. locked' \in BOOLEAN
  BY DEF Lock, Unlock
<1> QED
  BY <1>2, <1>3 DEF Lock, Unlock, IInv, PrefsOK, KeyringOK, TrackerOK, RpcOK,
    NetworkOK, SentWasApproved, prefsVars, trackerVars, rpcVars, networkVars

LEMMA OnKeyringNoticeStep ==
  ASSUME IInv, OnKeyringNotice
  PROVE  IInv'
<1> DEFINE isRunning ==
             IF ChecksTracker(Head(notices))
             THEN CheckIfBlockTrackerShouldRun(locked, running, knownNoPending)
             ELSE running
<1>1. KeyringOK'
  BY DEF OnKeyringNotice, IInv, KeyringOK
<1>2. isRunning \in BOOLEAN
  BY DEF IInv, TrackerOK, KeyringOK, CheckIfBlockTrackerShouldRun
<1>3. txs' \in [Chains -> GoodStores(approved)] /\ TrackerOK'
  <2> HIDE DEF isRunning
  <2>1. CASE UpdatePendingTransactions(Store, isRunning)
    BY <1>2, <2>1, StoreType, UpdatePendingType DEF IInv, PrefsOK
  <2>2. CASE /\ running' = isRunning
             /\ UNCHANGED <<txs, knownNoPending, nonceMap, dropCounter,
                            receiptRpc, countRpc>>
    BY <1>2, <2>2 DEF IInv, PrefsOK, TrackerOK
  <2> QED
    BY <2>1, <2>2 DEF OnKeyringNotice, isRunning
<1> QED
  BY <1>1, <1>3 DEF OnKeyringNotice, IInv, PrefsOK, RpcOK, NetworkOK,
    SentWasApproved, rpcVars, networkVars

LEMMA SetNetworkStep ==
  ASSUME IInv, NEW c \in Chains, SetNetwork(c)
  PROVE  IInv'
BY DEF SetNetwork, IInv, PrefsOK, KeyringOK, TrackerOK, RpcOK, NetworkOK,
    SentWasApproved, keyringVars, trackerVars, rpcVars, networkVars

LEMMA ResetStep ==
  ASSUME IInv, Reset
  PROVE  IInv'
<1>1. PrefsOK'
  BY ChainsAssumption, EmptyStoreType DEF Reset, IInv, PrefsOK
<1>2. KeyringOK'
  BY DEF Reset, IInv, KeyringOK, KeyringNotices
<1>3. TrackerOK'
  BY DEF Reset, IInv, TrackerOK
<1> QED
  BY <1>1, <1>2, <1>3 DEF Reset, IInv, RpcOK, NetworkOK, SentWasApproved,
    rpcVars, networkVars

LEMMA RestartStep ==
  ASSUME IInv, Restart
  PROVE  IInv'
<1>1. KeyringOK' /\ TrackerOK' /\ RpcOK'
  <2>1. <<>> \in Seq(KeyringNotices)
    OBVIOUS
  <2>2. KeyringOK'
    BY <2>1 DEF Restart, KeyringOK
  <2>3. TrackerOK'
    BY DEF Restart, TrackerOK
  <2>4. RpcOK'
    BY DEF Restart, RpcOK
  <2> QED
    BY <2>2, <2>3, <2>4
<1> QED
  BY <1>1 DEF Restart, IInv, PrefsOK, NetworkOK, SentWasApproved, prefsVars,
    networkVars

-----------------------------------------------------------------------------
(* The chains.                                                             *)

LEMMA SendRequestParts ==
  ASSUME IInv, NEW r \in sendRpc
  PROVE  /\ r \in SendRequests /\ r.net \in Chains
         /\ r.tx \in GoodTxs(approved) /\ r.tx \in Txs
BY DEF IInv, RpcOK, GoodSendRequests, SendRequests, GoodTxs

\* Only what is approved for a chain enters its pool.
LEMMA PoolType ==
  ASSUME IInv, NEW c \in Chains, NEW tx \in Txs,
         [what |-> tx.what, chain |-> c] \in approved,
         pool' = [pool EXCEPT ![c] = @ \cup {tx}],
         UNCHANGED <<mined, reverted, count, approved>>
  PROVE  NetworkOK' /\ SentWasApproved'
BY DEF IInv, NetworkOK, SentWasApproved

LEMMA NodeAcceptsStep ==
  ASSUME IInv, NEW r \in sendRpc, NodeAccepts(r)
  PROVE  IInv'
<1>1. [what |-> r.tx.what, chain |-> r.net] \in approved
  BY SendRequestParts, ValidIsApproved DEF NodeAccepts
<1>2. NetworkOK' /\ SentWasApproved'
  BY <1>1, SendRequestParts, PoolType DEF NodeAccepts
<1>3. [r EXCEPT !.state = "accepted"] \in GoodSendRequests(approved)
  BY SendRequestParts DEF GoodSendRequests, SendRequests
<1>4. sendRpc' \subseteq GoodSendRequests(approved)
  BY <1>3 DEF NodeAccepts, IInv, RpcOK
<1> QED
  BY <1>2, <1>4 DEF NodeAccepts, IInv, PrefsOK, KeyringOK, TrackerOK, RpcOK,
    prefsVars, keyringVars, trackerVars

LEMMA NodeRefusesStep ==
  ASSUME IInv, NEW r \in sendRpc, NodeRefuses(r)
  PROVE  IInv'
<1>1. [r EXCEPT !.state = "refused"] \in GoodSendRequests(approved)
  BY SendRequestParts DEF GoodSendRequests, SendRequests
<1>2. sendRpc' \subseteq GoodSendRequests(approved)
  BY <1>1 DEF NodeRefuses, IInv, RpcOK
<1> QED
  BY <1>2 DEF NodeRefuses, IInv, PrefsOK, KeyringOK, TrackerOK, RpcOK,
    NetworkOK, SentWasApproved, prefsVars, keyringVars, trackerVars, networkVars

LEMMA DappSubmitsStep ==
  ASSUME IInv, NEW id \in TxIds, DappSubmits(id)
  PROVE  IInv'
<1> DEFINE tx == Store[id].hash
           c  == tx.sig.chain
<1>1. Store[id] \in GoodMetas(approved) /\ Store[id].status = "Signed"
  BY FoundType DEF DappSubmits, HasStatus, IInv, PrefsOK
<1>2. tx \in GoodTxs(approved) /\ tx \in Txs
  BY <1>1 DEF GoodMetas, GoodTxs
<1>3. /\ ValidOn(tx, c)
      /\ pool' = [pool EXCEPT ![c] = @ \cup {tx}]
      /\ UNCHANGED <<mined, reverted, count, approved>>
  BY DEF DappSubmits
<1> HIDE DEF tx, c
<1>4. ASSUME c \in Chains PROVE NetworkOK' /\ SentWasApproved'
  <2>1. [what |-> tx.what, chain |-> c] \in approved
    BY <1>2, <1>3, <1>4, ValidIsApproved
  <2> QED
    BY <1>2, <1>3, <1>4, <2>1, PoolType
<1>5. ASSUME c \notin Chains PROVE NetworkOK' /\ SentWasApproved'
  <2>1. pool' = pool
    BY <1>3, <1>5 DEF IInv, NetworkOK
  <2> QED
    BY <1>3, <2>1 DEF IInv, NetworkOK, SentWasApproved
<1>6. NetworkOK' /\ SentWasApproved'
  BY <1>4, <1>5
<1> QED
  BY <1>6 DEF DappSubmits, IInv, PrefsOK, KeyringOK, TrackerOK, RpcOK,
    prefsVars, keyringVars, trackerVars, rpcVars

LEMMA MineStep ==
  ASSUME IInv, NEW c \in Chains, NEW tx \in pool[c], NEW reverts \in BOOLEAN,
         Mine(c, tx, reverts)
  PROVE  IInv'
<1>1. tx \in Txs /\ tx.what.from \in Accounts
  BY DEF IInv, NetworkOK, Txs, Contents
<1>2. /\ mined' \in [Chains -> SUBSET Txs]
      /\ reverted' \in [Chains -> SUBSET Txs]
  BY <1>1 DEF Mine, IInv, NetworkOK
<1>3. count' \in [Chains -> [Accounts -> Nat]]
  BY <1>1 DEF Mine, IInv, NetworkOK
<1> QED
  BY <1>2, <1>3 DEF Mine, IInv, PrefsOK, KeyringOK, TrackerOK, RpcOK, NetworkOK,
    SentWasApproved, prefsVars, keyringVars, trackerVars, rpcVars

LEMMA MineForeignStep ==
  ASSUME IInv, NEW c \in Chains, NEW a \in Accounts, MineForeign(c, a)
  PROVE  IInv'
<1>1. count' \in [Chains -> [Accounts -> Nat]]
  BY DEF MineForeign, IInv, NetworkOK
<1> QED
  BY <1>1 DEF MineForeign, IInv, PrefsOK, KeyringOK, TrackerOK, RpcOK,
    NetworkOK, SentWasApproved, prefsVars, keyringVars, trackerVars, rpcVars

-----------------------------------------------------------------------------
(* The whole.                                                              *)

LEMMA NextInv == IInv /\ [Next]_vars => IInv'
<1> SUFFICES ASSUME IInv, [Next]_vars PROVE IInv'
  OBVIOUS
<1>1. CASE UserStep
  BY <1>1, AddStep, RetryStep, SpeedupStep, SetGasOrDataStep, SetNonceStep,
     RejectStep, ApproveStep, GetNonceForHardwareTransactionStep,
     GetTransactionMessageToSignStep, LockSteps, SetNetworkStep, ResetStep,
     RestartStep
  DEF UserStep
<1>2. CASE Callback
  BY <1>2, ContinueSpeedupStep, GasEstimateFailsStep, OnGetNextNonceStep,
     OnGetNextNonceForHardwareStep, GetNextNonceFailsStep,
     ProcessHardwareSignatureStep, OnPublishTransactionStep, BlockNumberSteps,
     OnNewBlockStep, OnGetTxReceiptStep, NoTxReceiptStep, OnGetNetworkNonceStep,
     OnKeyringNoticeStep
  DEF Callback
<1>3. CASE NetworkStep
  BY <1>3, NodeAcceptsStep, NodeRefusesStep, DappSubmitsStep, MineStep,
     MineForeignStep
  DEF NetworkStep
<1>4. CASE UNCHANGED vars
  BY <1>4
  DEF vars, IInv, PrefsOK, KeyringOK,
    TrackerOK, RpcOK, NetworkOK, SentWasApproved, prefsVars, keyringVars,
    trackerVars, rpcVars, networkVars
<1> QED
  BY <1>1, <1>2, <1>3, <1>4 DEF Next

\* In every reachable state signed transactions are only where IInv allows
\* them: in records, requests and nodes, covered by an approval.
THEOREM Invariance == Spec => []IInv
BY InitInv, NextInv, PTL DEF Spec

LEMMA IInvTypeOK == IInv => TypeOK
<1> SUFFICES ASSUME IInv PROVE TypeOK
  OBVIOUS
<1>1. GoodStores(approved) \subseteq Stores
  BY DEF GoodStores, GoodMetas, Stores
<1>2. txs \in [Chains -> Stores]
  BY <1>1 DEF IInv, PrefsOK
<1>3. /\ nonceRpc \subseteq NonceRequests
      /\ sendRpc \subseteq SendRequests
      /\ gasRpc \subseteq Txs
      /\ device \subseteq DeviceRequests
  BY DEF IInv, RpcOK, GoodNonceRequests, GoodSendRequests, GoodTxs,
    GoodDeviceRequests
<1> QED
  BY <1>2, <1>3
  DEF IInv, PrefsOK, KeyringOK, TrackerOK, RpcOK, NetworkOK, TypeOK

LEMMA IInvSignatures == IInv => SignaturesAuthorized
<1> SUFFICES ASSUME IInv PROVE SignaturesAuthorized
  OBVIOUS
<1>1. \A tx \in GoodTxs(approved) : Authorized(tx)
  BY DEF GoodTxs, Authorized
<1>2. \A meta \in GoodMetas(approved) : AuthorizedRecord(meta)
  BY <1>1 DEF GoodMetas, AuthorizedRecord
<1>3. \A c \in Chains, id \in TxIds :
        txs[c][id] # NoTx => AuthorizedRecord(txs[c][id])
  BY <1>2 DEF IInv, PrefsOK, GoodStores
<1>4. \A r \in nonceRpc :
        /\ AuthorizedRecord(r.meta)
        /\ ~r.hw => [what  |-> r.meta.tx.what,
                     chain |-> SigningChain(r.meta.tx, r.chain)] \in approved
  BY <1>2, NonceRequestParts
<1> QED
  BY <1>1, <1>3, <1>4
  DEF IInv, RpcOK, GoodSendRequests, GoodDeviceRequests, SignaturesAuthorized

\* Every variable of the manager stays within its domain.
THEOREM TypeCorrect == Spec => []TypeOK
BY Invariance, IInvTypeOK, PTL

\* No signature the user has not asked for exists anywhere in the wallet,
\* whatever is locked, switched, edited, reset or lost in between.
THEOREM SignaturesAlwaysAuthorized == Spec => []SignaturesAuthorized
BY Invariance, IInvSignatures, PTL

\* Whatever a node of a chain has accepted from the wallet, the user has
\* approved for that chain.
THEOREM SentAlwaysApproved == Spec => []SentWasApproved
<1>1. IInv => SentWasApproved
  BY DEF IInv
<1> QED
  BY <1>1, Invariance, PTL
=============================================================================
