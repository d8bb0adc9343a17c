-------------------------- MODULE EthPaymentProofs --------------------------
(***************************************************************************)
(* What becomes of a record and of a payment: theorems about               *)
(* ConfirmedWasMined, TrackerRuns, ConfirmedIsFinal, ConfirmedSucceeded,   *)
(* PaidAtMostOnce, DroppedOnlyWhenDecided and LiveTxHasRecord, and the     *)
(* refinement of WalletPayments. The steps of the manager are first sorted *)
(* by what they do to rows and requests; the invariants are proved of      *)
(* these kinds of steps.                                                   *)
(***************************************************************************)
EXTENDS EthTxManagerProofs, TxStateManagerProofs

Row(c, id) == txs[c][id]

\* The step writes one row of the selected network, or takes it away.
Writes(id, tx, status, hash) ==
  \A c \in Chains, i \in TxIds :
    Row(c, i)' # NoTx =>
      IF c = chain /\ i = id
      THEN /\ Row(c, i)'.id = id /\ Row(c, i)'.tx = tx
           /\ Row(c, i)'.status = status /\ Row(c, i)'.hash = hash
      ELSE Row(c, i)' = Row(c, i)

WritesNothing ==
  \A c \in Chains, i \in TxIds : Row(c, i)' # NoTx => Row(c, i)' = Row(c, i)

\* The receipts it asks for are those of rows that are pending now.
AsksForPending ==
  \A q \in receiptRpc' \ receiptRpc :
    /\ q.net = chain /\ q.id \in TxIds
    /\ IsPending(txs'[chain][q.id]) /\ q.hash = txs'[chain][q.id].hash

\* A row is stored under its own id.
RowsAtHome ==
  \A c \in Chains, id \in TxIds : Row(c, id) # NoTx => Row(c, id).id = id

\* Copies of one payment's transaction, with the same nonce.
Like(tx, other) ==
  /\ tx.what.req = other.what.req /\ tx.what.from = other.what.from
  /\ tx.nonce = other.nonce

Requests == <<nonceRpc, sendRpc, device, gasRpc>>

\* The step is about the selected network, and about no chain.
Here == chain' = chain /\ UNCHANGED networkVars

-----------------------------------------------------------------------------
(* The kinds of steps.                                                     *)

\* Nothing is written; requests are answered or given up.
KQuiet ==
  /\ WritesNothing /\ AsksForPending /\ used' = used
  /\ nonceRpc' \subseteq nonceRpc /\ sendRpc' \subseteq sendRpc
  /\ device' \subseteq device /\ gasRpc' \subseteq gasRpc
  /\ UNCHANGED <<pool, mined, reverted>>
  /\ \A c \in Chains, a \in Accounts : count'[c][a] >= count[c][a]
  /\ chain' \in {chain, DefaultChain} \/ "SwitchChain" \in Env

\* A new record, of a new payment or of a transaction that has a nonce.
KAdded(id, tx) ==
  /\ id \notin used /\ used' = used \cup {id}
  /\ Writes(id, tx, "Unapproved", NoHash)
  /\ \/ tx.what.req = id /\ tx.nonce = NoNonce
     \/ /\ tx.nonce # NoNonce
        /\ \/ \E old \in gasRpc : Like(tx, old)
           \/ \E i \in TxIds : Found(i) /\ Like(tx, Store[i].tx)
  /\ gasRpc' \subseteq gasRpc
  /\ UNCHANGED <<nonceRpc, sendRpc, device, receiptRpc>> /\ Here

\* A copy for a speedup or a cancellation.
KCopied(id, tx) ==
  /\ HasStatus(id, "Submitted") /\ Like(tx, Store[id].tx)
  /\ gasRpc' = gasRpc \cup {tx}
  /\ UNCHANGED <<txs, used, nonceRpc, sendRpc, device, receiptRpc>> /\ Here

KEdited(id, tx, status) ==
  /\ Found(id) /\ status \in {"Unapproved", "Rejected"}
  /\ \/ HasStatus(id, "Unapproved")
     \/ "LateReject" \in Env /\ status = "Rejected" /\ tx = Store[id].tx
  /\ Writes(id, tx, status, Store[id].hash)
  /\ \/ Like(tx, Store[id].tx)
     \/ tx.what = Store[id].tx.what /\ "SetNonce" \in Env
  /\ UNCHANGED <<used, Requests, receiptRpc>> /\ Here

\* A nonce is asked for.
KAsked(id, r) ==
  /\ PanelOffersApproval(id) /\ Store[id].tx.nonce = NoNonce
  /\ r.meta = Store[id] /\ nonceRpc' = nonceRpc \cup {r}
  /\ UNCHANGED <<txs, used, sendRpc, device, gasRpc, receiptRpc>> /\ Here

\* The transaction is signed if the wallet is unlocked, and sent unless it is
\* to be signed only.
Signs(id, tx, hash) ==
  \/ /\ Writes(id, tx, "Approved", hash)
     /\ UNCHANGED <<sendRpc, receiptRpc>>
  \/ /\ Writes(id, tx, "Signed", tx) /\ AsksForPending
     /\ sendRpc' = sendRpc
  \/ /\ Writes(id, tx, "Approved", hash)
     /\ Row(chain, id)' # NoTx
     /\ \E s \in SendRequests : /\ s.id = id /\ s.tx = tx
                                /\ sendRpc' = sendRpc \cup {s}
     /\ receiptRpc' = receiptRpc

\* A row that has a nonce is approved.
KSigned(id, tx) ==
  /\ PanelOffersApproval(id) /\ Store[id].tx.nonce # NoNonce
  /\ Store[id].tx.what.from \notin HwAccounts
  /\ tx.what = Store[id].tx.what /\ tx.nonce = Store[id].tx.nonce
  /\ Signs(id, tx, Store[id].hash)
  /\ UNCHANGED <<used, nonceRpc, device, gasRpc>> /\ Here

\* A nonce arrives for the copy of a row.
KAnswered(r, tx) ==
  /\ tx.what = r.meta.tx.what /\ tx.nonce \in Nonces
  /\ Signs(r.meta.id, tx, r.meta.hash)
  /\ nonceRpc' = nonceRpc \ {r}
  /\ UNCHANGED <<used, device, gasRpc>> /\ Here

\* A nonce arrives for a hardware device.
KNumbered(r, tx) ==
  /\ tx.what = r.meta.tx.what /\ tx.nonce \in Nonces
  /\ Writes(r.meta.id, tx, r.meta.status, r.meta.hash)
  /\ nonceRpc' = nonceRpc \ {r}
  /\ UNCHANGED <<used, sendRpc, device, gasRpc, receiptRpc>> /\ Here

\* A request for a nonce has failed: its copy is written back.
KNonceFailed(r) ==
  /\ Writes(r.meta.id, r.meta.tx, "Error", r.meta.hash)
  /\ nonceRpc' = nonceRpc \ {r}
  /\ UNCHANGED <<used, sendRpc, device, gasRpc, receiptRpc>> /\ Here

\* Sending has failed, or the device's signature is unusable.
KFailed(id) ==
  /\ Found(id) /\ Writes(id, Store[id].tx, "Error", Store[id].hash)
  /\ \/ /\ \E r \in sendRpc : r.id = id /\ sendRpc' = sendRpc \ {r}
        /\ device' = device
     \/ /\ \E d \in device : d.id = id /\ device' = device \ {d}
        /\ sendRpc' = sendRpc
  /\ UNCHANGED <<used, nonceRpc, gasRpc, receiptRpc>> /\ Here

KSubmitted(r) ==
  /\ Found(r.id) /\ Writes(r.id, Store[r.id].tx, "Submitted", r.tx)
  /\ AsksForPending
  /\ sendRpc' = sendRpc \ {r}
  /\ UNCHANGED <<used, nonceRpc, device, gasRpc>> /\ Here

\* The device shows a message.
KShown(id) ==
  /\ HasStatus(id, "Unapproved") /\ Store[id].tx.nonce # NoNonce
  /\ Store[id].tx.what.from \in HwAccounts
  /\ device = {} /\ \E d : d.id = id /\ device' = {d}
  /\ UNCHANGED <<txs, used, nonceRpc, sendRpc, gasRpc, receiptRpc>> /\ Here

KHwSigned(d, tx) ==
  /\ Found(d.id) /\ tx.what = Store[d.id].tx.what
  /\ tx.nonce = Store[d.id].tx.nonce
  /\ Writes(d.id, tx, "Approved", Store[d.id].hash)
  /\ Row(chain, d.id)' # NoTx
  /\ device' = device \ {d}
  /\ \E s \in SendRequests : /\ s.id = d.id /\ s.tx = tx
                             /\ sendRpc' = sendRpc \cup {s}
  /\ UNCHANGED <<used, nonceRpc, gasRpc, receiptRpc>> /\ Here

KConfirmed(q) ==
  /\ Found(q.id) /\ q.hash \in mined[q.net] \ reverted[q.net]
  /\ Writes(q.id, Store[q.id].tx, "Confirmed", Store[q.id].hash)
  /\ receiptRpc' = receiptRpc \ {q}
  /\ UNCHANGED <<used, Requests>> /\ Here

\* A node answers; a chain's pool gets a transaction that was sent.
KSent(r) ==
  /\ \E s \in SendRequests : /\ s.id = r.id /\ s.tx = r.tx
                             /\ sendRpc' = (sendRpc \ {r}) \cup {s}
  /\ \A c \in Chains : pool'[c] \subseteq
       IF r.tx.nonce \in Nonces THEN pool[c] \cup {r.tx} ELSE pool[c]
  /\ \A c \in Chains : pool[c] \subseteq pool'[c]
  /\ UNCHANGED <<chain, txs, used, nonceRpc, device, gasRpc, receiptRpc, mined,
                 reverted, count>>

\* Or one that was signed for a page.
KHandedOut(id) ==
  /\ HasStatus(id, "Signed")
  /\ \A c \in Chains : /\ pool'[c] \subseteq pool[c] \cup {Store[id].hash}
                       /\ pool[c] \subseteq pool'[c]
  /\ UNCHANGED <<chain, txs, used, Requests, receiptRpc, mined, reverted,
                 count>>

KMined(c, tx) ==
  /\ tx \in pool[c] \ mined[c] /\ tx.nonce = count[c][tx.what.from]
  /\ mined' = [mined EXCEPT ![c] = @ \cup {tx}]
  /\ count' = [count EXCEPT ![c][tx.what.from] = @ + 1]
  /\ \A net \in Chains :
       /\ reverted[net] \subseteq reverted'[net]
       /\ reverted'[net] \subseteq reverted[net] \cup
            IF net = c THEN {tx} ELSE {}
  /\ UNCHANGED <<chain, txs, used, Requests, receiptRpc, pool>>

Kind ==
  \/ KQuiet
  \/ \E id \in TxIds, tx \in Txs :
       \/ KAdded(id, tx) \/ KCopied(id, tx) \/ KSigned(id, tx)
       \/ \E status \in Status : KEdited(id, tx, status)
  \/ \E id \in TxIds : \/ KFailed(id) \/ KShown(id) \/ KHandedOut(id)
                       \/ \E r \in NonceRequests : KAsked(id, r)
  \/ \E r \in nonceRpc :
       KNonceFailed(r) \/ \E tx \in Txs : KNumbered(r, tx) \/ KAnswered(r, tx)
  \/ \E r \in sendRpc : KSubmitted(r) \/ KSent(r)
  \/ \E d \in device, tx \in Txs : KHwSigned(d, tx)
  \/ \E q \in receiptRpc : KConfirmed(q)
  \/ \E c \in Chains, tx \in Txs : KMined(c, tx)

-----------------------------------------------------------------------------
(* What the handlers' common steps do.                                     *)

LEMMA SaveWrites ==
  ASSUME TypeOK, NEW meta \in Metas, Save(meta)
  PROVE  Writes(meta.id, meta.tx, meta.status, meta.hash)
<1>1. /\ chain \in Chains /\ Store \in [TxIds -> Metas \cup {NoTx}]
      /\ meta.id \in TxIds
  BY DEF TypeOK, Stores, Store, Metas
<1>2. \A i \in TxIds :
        AddOrUpdateTx(Store, meta)[i] \in
          {NoTx, IF i = meta.id THEN meta ELSE Store[i]}
  BY <1>1, AddOrUpdateEffect
<1>3. \A c \in Chains :
        txs'[c] = IF c = chain THEN AddOrUpdateTx(Store, meta) ELSE txs[c]
  BY DEF Save, TypeOK
<1> QED BY <1>1, <1>2, <1>3 DEF Writes, Row, Store

\* What is saved is there, unless it is retired at once.
LEMMA SavedStays ==
  ASSUME TypeOK, NEW meta \in Metas, Save(meta),
         meta.status \notin {"Confirmed", "Rejected"}, chain' = chain
  PROVE  Row(chain, meta.id)' # NoTx
<1> DEFINE stored == [Store EXCEPT ![meta.id] = meta]
           first  == RetireTxByStatus(stored, "Confirmed", KMaxConfirmed)
           second == RetireTxByStatus(first, "Rejected", KMaxRejected)
<1>1. /\ chain \in Chains /\ Store \in [TxIds -> Metas \cup {NoTx}]
      /\ meta.id \in TxIds /\ meta # NoTx
  BY NoTxAssumption DEF TypeOK, Stores, Store, Metas
<1>2. stored[meta.id] = meta
  BY <1>1
<1> HIDE DEF stored
<1>3. first[meta.id] = meta
  BY <1>1, <1>2 DEF RetireTxByStatus, IdsByStatus
<1> HIDE DEF first
<1>4. second[meta.id] = meta
  BY <1>1, <1>3 DEF RetireTxByStatus, IdsByStatus
<1>5. AddOrUpdateTx(Store, meta) \in {stored, second}
  BY DEF AddOrUpdateTx, stored, first
<1> HIDE DEF second
<1>6. AddOrUpdateTx(Store, meta)[meta.id] = meta
  BY <1>2, <1>4, <1>5
<1>7. Row(chain, meta.id)' = meta
  BY <1>1, <1>6 DEF Save, Row, TypeOK
<1> QED BY <1>1, <1>7

LEMMA PendingEffect ==
  ASSUME TypeOK, NEW store \in Stores, NEW isRunning,
         UpdatePendingTransactions(store, isRunning)
  PROVE  /\ \A c \in Chains, i \in TxIds :
              Row(c, i)' \in {NoTx, IF c = chain THEN store[i] ELSE Row(c, i)}
         /\ AsksForPending
<1>1. \A c \in Chains :
        txs'[c] = IF c = chain THEN DropNonceTaken(store) ELSE txs[c]
  BY DEF UpdatePendingTransactions, TypeOK
<1>2. \A i \in TxIds : DropNonceTaken(store)[i] =
                         IF i \in NonceTakenIds(store) THEN NoTx ELSE store[i]
  BY DEF DropNonceTaken
<1>3. AsksForPending
  <2> SUFFICES ASSUME NEW q \in receiptRpc' \ receiptRpc
               PROVE  /\ q.net = chain /\ q.id \in TxIds
                      /\ IsPending(txs'[chain][q.id])
                      /\ q.hash = txs'[chain][q.id].hash
    BY DEF AsksForPending
  <2>1. PICK id \in PendingIds(store) \ NonceTakenIds(store) :
          q = [id |-> id, net |-> chain, hash |-> store[id].hash]
    BY DEF UpdatePendingTransactions
  <2>2. /\ id \in TxIds /\ store[id] # NoTx
        /\ store[id].status \in {"Submitted", "Signed"}
    BY DEF PendingIds, IdsByStatus
  <2>3. chain \in Chains /\ txs'[chain][id] = store[id]
    BY <1>1, <1>2, <2>2 DEF TypeOK
  <2> QED BY <2>1, <2>2, <2>3 DEF IsPending
<1> QED BY <1>1, <1>2, <1>3 DEF Row

LEMMA PendingQuiet ==
  ASSUME TypeOK, NEW isRunning, UpdatePendingTransactions(Store, isRunning)
  PROVE  WritesNothing /\ AsksForPending
<1>1. Store \in Stores
  BY DEF TypeOK, Store
<1>2. /\ \A c \in Chains, i \in TxIds :
           Row(c, i)' \in {NoTx, IF c = chain THEN Store[i] ELSE Row(c, i)}
      /\ AsksForPending
  BY <1>1, PendingEffect
<1> QED BY <1>2 DEF WritesNothing, Row, Store

LEMMA PendingWrites ==
  ASSUME TypeOK, NEW meta \in Metas, NEW isRunning,
         UpdatePendingTransactions(AddOrUpdateTx(Store, meta), isRunning)
  PROVE  /\ Writes(meta.id, meta.tx, meta.status, meta.hash)
         /\ AsksForPending
<1> DEFINE store == AddOrUpdateTx(Store, meta)
<1>1. /\ chain \in Chains /\ Store \in [TxIds -> Metas \cup {NoTx}]
      /\ meta.id \in TxIds
  BY DEF TypeOK, Stores, Store, Metas
<1>2. /\ store \in Stores
      /\ \A i \in TxIds :
           store[i] \in {NoTx, IF i = meta.id THEN meta ELSE Store[i]}
  BY <1>1, AddOrUpdateEffect DEF Stores
<1> HIDE DEF store
<1>3. UpdatePendingTransactions(store, isRunning)
  BY DEF store
<1>4. /\ \A c \in Chains, i \in TxIds :
           Row(c, i)' \in {NoTx, IF c = chain THEN store[i] ELSE Row(c, i)}
      /\ AsksForPending
  BY <1>2, <1>3, PendingEffect
<1> QED BY <1>1, <1>2, <1>4 DEF Writes, Row, Store

LEMMA RowType ==
  ASSUME TypeOK, NEW c \in Chains, NEW id \in TxIds, Row(c, id) # NoTx
  PROVE  Row(c, id) \in Metas
BY DEF TypeOK, Stores, Row

LEMMA FoundRow ==
  ASSUME TypeOK, NEW id \in TxIds, Found(id)
  PROVE  /\ chain \in Chains /\ Row(chain, id) # NoTx
         /\ Store[id] = Row(chain, id) /\ Store[id] \in Metas
         /\ RowsAtHome => Store[id].id = id
<1>1. chain \in Chains /\ Store[id] = Row(chain, id)
  BY DEF TypeOK, Store, Row
<1> QED BY <1>1, RowType DEF Found, RowsAtHome

LEMMA SameRows ==
  ASSUME txs' = txs
  PROVE  WritesNothing
BY DEF WritesNothing, Row

LEMMA SameReceipts ==
  ASSUME receiptRpc' \subseteq receiptRpc
  PROVE  AsksForPending
BY DEF AsksForPending

LEMMA SavedStore ==
  ASSUME TypeOK, NEW meta \in Metas
  PROVE  AddOrUpdateTx(Store, meta) \in Stores
<1>1. Store \in [TxIds -> Metas \cup {NoTx}] /\ meta.id \in TxIds
  BY DEF TypeOK, Stores, Store, Metas
<1> QED BY <1>1, AddOrUpdateEffect DEF Stores

\* Signing leaves the tracker alone or updates it.
SignsTracked(meta, tx) ==
  \/ /\ Writes(meta.id, tx, "Approved", meta.hash)
     /\ UNCHANGED trackerVars
  \/ \E store \in Stores : UpdatePendingTransactions(store, running)

LEMMA SignEffect ==
  ASSUME TypeOK, NEW meta \in Metas, NEW c \in Chains, NEW nonce \in OptNonces,
         SignAndPublish(meta, c, nonce), chain' = chain
  PROVE  \E tx \in Txs : /\ tx.what = meta.tx.what /\ tx.nonce = nonce
                         /\ Signs(meta.id, tx, meta.hash)
                         /\ SignsTracked(meta, tx)
<1> DEFINE numbered == [meta.tx EXCEPT !.nonce = nonce]
           tx   == SignTransactionByDefaultKeyring(numbered, c)
           done == [meta EXCEPT !.tx = tx, !.status = "Approved"]
           sgnd == [done EXCEPT !.status = "Signed", !.hash = tx]
<1>1. meta.tx \in Txs /\ meta.id \in TxIds /\ chain \in Chains
  BY DEF Metas, TypeOK
<1>2. /\ numbered \in Txs /\ numbered.what = meta.tx.what
      /\ numbered.nonce = nonce
  BY <1>1 DEF Txs
<1>3. SignatureOf(numbered, c) \in Signatures
  BY <1>2, SignatureOfType
<1> HIDE DEF numbered
<1>4. /\ tx \in Txs /\ tx.what = meta.tx.what /\ tx.nonce = nonce
  BY <1>2, <1>3 DEF SignTransactionByDefaultKeyring, Txs
<1>5. \/ /\ Save(done)
         /\ UNCHANGED <<trackerVars, sendRpc>>
      \/ /\ UpdatePendingTransactions(AddOrUpdateTx(Store, sgnd), running)
         /\ UNCHANGED sendRpc
      \/ /\ Save(done)
         /\ PublishTransaction(meta.id, tx)
         /\ UNCHANGED trackerVars
  BY DEF SignAndPublish, numbered
<1> HIDE DEF tx
<1>6. /\ done \in Metas /\ done.id = meta.id /\ done.tx = tx
      /\ done.status = "Approved" /\ done.hash = meta.hash
  BY <1>4 DEF Metas, Status
<1>7. /\ sgnd \in Metas /\ sgnd.id = meta.id /\ sgnd.tx = tx
      /\ sgnd.status = "Signed" /\ sgnd.hash = tx
  BY <1>4 DEF Metas, Status
<1> HIDE DEF done, sgnd
<1>8. Save(done) => Writes(meta.id, tx, "Approved", meta.hash)
  BY <1>6, SaveWrites
<1>9. UpdatePendingTransactions(AddOrUpdateTx(Store, sgnd), running) =>
        Writes(meta.id, tx, "Signed", tx) /\ AsksForPending
  BY <1>7, PendingWrites
<1>10. PublishTransaction(meta.id, tx) =>
         \E s \in SendRequests : /\ s.id = meta.id /\ s.tx = tx
                                 /\ sendRpc' = sendRpc \cup {s}
  <2> DEFINE s == [id |-> meta.id, net |-> chain, tx |-> tx, state |-> "sent"]
  <2>1. s \in SendRequests /\ s.id = meta.id /\ s.tx = tx
    BY <1>1, <1>4 DEF SendRequests
  <2> QED BY <2>1 DEF PublishTransaction
<1>11. Signs(meta.id, tx, meta.hash)
  <2>1. Save(done) => Row(chain, meta.id)' # NoTx
    BY <1>6, SavedStays
  <2> QED BY <1>5, <1>8, <1>9, <1>10, <2>1 DEF Signs, trackerVars
<1>12. SignsTracked(meta, tx)
  BY <1>5, <1>7, <1>8, SavedStore DEF SignsTracked
<1> QED BY <1>4, <1>11, <1>12
-----------------------------------------------------------------------------
(* The kind of each action.                                                *)

LEMMA KindOfNew ==
  ASSUME TypeOK, NEW id \in TxIds, NEW tx \in Txs, NEW signOnly \in BOOLEAN,
         ContinueAddUnapprovedTransaction(id, tx, signOnly),
         \/ tx.what.req = id /\ tx.nonce = NoNonce
         \/ /\ tx.nonce # NoNonce
            /\ \/ \E old \in gasRpc : Like(tx, old)
               \/ \E i \in TxIds : Found(i) /\ Like(tx, Store[i].tx),
         gasRpc' \subseteq gasRpc,
         UNCHANGED <<chain, nonceRpc, sendRpc, device, receiptRpc>>,
         UNCHANGED networkVars
  PROVE  KAdded(id, tx)
<1> DEFINE meta == NewMeta(id, tx, signOnly)
<1>1. Cardinality(used) + 1 \in Nat
  BY CardinalityOfIds DEF TypeOK
<1>2. /\ meta \in Metas /\ meta.id = id /\ meta.tx = tx
      /\ meta.status = "Unapproved" /\ meta.hash = NoHash
  BY <1>1 DEF NewMeta, Metas, Status
<1>3. id \notin used /\ used' = used \cup {id} /\ Save(meta)
  BY DEF ContinueAddUnapprovedTransaction
<1> HIDE DEF meta
<1>4. Writes(id, tx, "Unapproved", NoHash)
  BY <1>2, <1>3, SaveWrites
<1> QED BY <1>3, <1>4 DEF KAdded, Here

LEMMA KindOfAdd ==
  ASSUME TypeOK, NEW id \in TxIds, NEW from \in Accounts,
         NEW signOnly \in BOOLEAN, NEW chainId \in Chains \cup {NoChain},
         AddUnapprovedTransaction(id, from, signOnly, chainId)
  PROVE  \E tx \in Txs : KAdded(id, tx)
<1> DEFINE tx == [what |-> [req |-> id, ver |-> 0, cancel |-> FALSE,
                            from |-> from],
                  chainId |-> chainId, nonce |-> NoNonce, sig |-> NoSig]
<1>1. tx \in Txs /\ tx.what.req = id /\ tx.nonce = NoNonce
  BY BoundsAssumption DEF Txs, Contents, OptNonces
<1>2. /\ ContinueAddUnapprovedTransaction(id, tx, signOnly)
      /\ UNCHANGED <<chain, rpcVars, networkVars, trackerVars>>
  BY DEF AddUnapprovedTransaction
<1> HIDE DEF tx
<1>3. KAdded(id, tx)
  BY <1>1, <1>2, KindOfNew DEF rpcVars, trackerVars
<1> QED BY <1>1, <1>3

\* What a copy of a transaction carries.
LEMMA CopyEffect ==
  ASSUME NEW tx \in Txs, NEW id \in TxIds
  PROVE  /\ CopyOf(tx, id) \in Txs
         /\ \/ /\ CopyOf(tx, id).what.req = id
               /\ CopyOf(tx, id).nonce = NoNonce
            \/ /\ CopyOf(tx, id).nonce # NoNonce
               /\ Like(CopyOf(tx, id), tx)
<1>1. tx.what \in Contents
  BY DEF Txs
<1>2. [tx.what EXCEPT !.req = id] \in Contents
  BY <1>1 DEF Contents
<1>3. /\ [tx EXCEPT !.what.req = id] \in Txs
      /\ [tx EXCEPT !.what.req = id].what.req = id
      /\ [tx EXCEPT !.what.req = id].nonce = tx.nonce
  BY <1>1, <1>2 DEF Txs, Contents
<1> QED BY <1>3 DEF CopyOf, Like

LEMMA KindOfRetry ==
  ASSUME TypeOK, RowsAtHome, NEW id \in TxIds, NEW newId \in TxIds,
         RetryTransaction(id, newId)
  PROVE  \E tx \in Txs : KAdded(newId, tx)
<1> DEFINE tx == CopyOf(Store[id].tx, newId)
<1>1. Found(id) /\ Store[id].tx \in Txs
  BY FoundRow DEF RetryTransaction, HasStatus, Metas
<1>2. /\ tx \in Txs
      /\ \/ tx.what.req = newId /\ tx.nonce = NoNonce
         \/ tx.nonce # NoNonce /\ Like(tx, Store[id].tx)
  BY <1>1, CopyEffect
<1>3. /\ ContinueAddUnapprovedTransaction(newId, tx, FALSE)
      /\ UNCHANGED <<chain, rpcVars, networkVars, trackerVars>>
  BY DEF RetryTransaction
<1> HIDE DEF tx
<1>4. KAdded(newId, tx)
  BY <1>1, <1>2, <1>3, KindOfNew DEF rpcVars, trackerVars
<1> QED BY <1>2, <1>4

LEMMA KindOfContinue ==
  ASSUME TypeOK, NEW old \in gasRpc, NEW newId \in TxIds,
         ContinueSpeedupOrCancelTransaction(old, newId)
  PROVE  \E tx \in Txs : KAdded(newId, tx)
<1> DEFINE raised == [old EXCEPT !.what.ver = @ + 1]
           tx     == CopyOf(raised, newId)
<1>1. old \in Txs /\ old.what \in Contents /\ old.what.ver < MaxVer
  BY DEF TypeOK, Txs, ContinueSpeedupOrCancelTransaction
<1>2. [old.what EXCEPT !.ver = @ + 1] \in Contents
  BY <1>1, BoundsAssumption DEF Contents
<1>3. raised = [old EXCEPT !.what = [old.what EXCEPT !.ver = @ + 1]]
  BY <1>1 DEF Txs, Contents
<1>4. raised \in Txs /\ Like(raised, old)
  BY <1>1, <1>2, <1>3 DEF Txs, Contents, Like
<1>5. /\ ContinueAddUnapprovedTransaction(newId, tx, FALSE)
      /\ gasRpc' \subseteq gasRpc
      /\ UNCHANGED <<chain, nonceRpc, sendRpc, device, networkVars,
                     trackerVars>>
  BY DEF ContinueSpeedupOrCancelTransaction
<1> HIDE DEF raised
<1>6. /\ tx \in Txs
      /\ \/ tx.what.req = newId /\ tx.nonce = NoNonce
         \/ tx.nonce # NoNonce /\ Like(tx, raised)
  BY <1>4, CopyEffect
<1> HIDE DEF tx
<1>7. Like(tx, raised) => Like(tx, old)
  BY <1>4 DEF Like
<1>8. KAdded(newId, tx)
  BY <1>5, <1>6, <1>7, KindOfNew DEF trackerVars
<1> QED BY <1>6, <1>8

LEMMA KindOfSpeedup ==
  ASSUME TypeOK, NEW id \in TxIds, NEW cancel \in BOOLEAN,
         SpeedupOrCancelTransaction(id, cancel)
  PROVE  \E tx \in Txs : KCopied(id, tx)
<1> DEFINE old == Store[id].tx
           tx  == [old EXCEPT !.what.cancel = @ \/ cancel]
<1>1. Found(id) /\ HasStatus(id, "Submitted")
  BY DEF SpeedupOrCancelTransaction, HasStatus
<1>2. old \in Txs /\ old.what \in Contents
  BY <1>1, FoundRow DEF Metas, Txs
<1>3. gasRpc' = gasRpc \cup {tx}
  BY DEF SpeedupOrCancelTransaction
<1>4. UNCHANGED <<prefsVars, trackerVars, nonceRpc, sendRpc, device,
                  networkVars>>
  BY DEF SpeedupOrCancelTransaction
<1> HIDE DEF old
<1>5. (old.what.cancel \/ cancel) \in BOOLEAN
  BY <1>2 DEF Contents
<1>6. [old.what EXCEPT !.cancel = @ \/ cancel] \in Contents
  BY <1>2, <1>5 DEF Contents
<1>7. tx = [old EXCEPT !.what = [old.what EXCEPT !.cancel = @ \/ cancel]]
  BY <1>2 DEF Txs, Contents
<1>8. tx \in Txs /\ Like(tx, old)
  BY <1>2, <1>6, <1>7 DEF Txs, Contents, Like
<1> HIDE DEF tx
<1>9. KCopied(id, tx)
  BY <1>1, <1>3, <1>4, <1>8
     DEF KCopied, Here, prefsVars, trackerVars, old
<1> QED BY <1>8, <1>9

LEMMA KindOfEdit ==
  ASSUME TypeOK, RowsAtHome, NEW id \in TxIds,
         \/ SetGasOrDataForUnapprovedTransaction(id)
         \/ \E nonce \in OptNonces : SetNonceForUnapprovedTransaction(id, nonce)
         \/ RejectTransaction(id)
  PROVE  \E tx \in Txs, status \in Status : KEdited(id, tx, status)
<1>1. /\ Found(id)
      /\ UNCHANGED <<chain, used, trackerVars, rpcVars, networkVars>>
  BY DEF SetGasOrDataForUnapprovedTransaction, RejectTransaction, HasStatus,
     SetNonceForUnapprovedTransaction
<1>2. Store[id] \in Metas /\ Store[id].id = id /\ Store[id].tx \in Txs
  BY <1>1, FoundRow DEF HasStatus, Metas
<1>3. ASSUME NEW tx \in Txs, NEW status \in {"Unapproved", "Rejected"},
             \/ HasStatus(id, "Unapproved")
             \/ "LateReject" \in Env /\ status = "Rejected" /\ tx = Store[id].tx,
             NEW meta \in Metas, Save(meta), meta.id = id, meta.tx = tx,
             meta.status = status, meta.hash = Store[id].hash,
             \/ Like(tx, Store[id].tx)
             \/ tx.what = Store[id].tx.what /\ "SetNonce" \in Env
      PROVE  KEdited(id, tx, status)
  <2>1. Writes(id, tx, status, Store[id].hash)
    BY <1>3, SaveWrites
  <2> QED BY <1>1, <1>3, <2>1
          DEF KEdited, Here, Requests, trackerVars, rpcVars
<1>4. CASE SetGasOrDataForUnapprovedTransaction(id)
  <2> DEFINE old  == Store[id].tx
             tx   == [old EXCEPT !.what.ver = @ + 1]
             meta == [Store[id] EXCEPT !.tx = tx]
  <2>1. /\ old.what.ver < MaxVer /\ old \in Txs /\ old.what \in Contents
        /\ Save([Store[id] EXCEPT !.tx.what.ver = @ + 1])
        /\ HasStatus(id, "Unapproved") /\ Store[id].status = "Unapproved"
    BY <1>2, <1>4 DEF HasStatus, SetGasOrDataForUnapprovedTransaction, Txs
  <2>2. [Store[id] EXCEPT !.tx.what.ver = @ + 1] = meta
    OBVIOUS
  <2> HIDE DEF old
  <2>3. [old.what EXCEPT !.ver = @ + 1] \in Contents
    BY <2>1, BoundsAssumption DEF Contents
  <2>4. tx = [old EXCEPT !.what = [old.what EXCEPT !.ver = @ + 1]]
    BY <2>1 DEF Txs, Contents
  <2>5. tx \in Txs /\ Like(tx, old)
    BY <2>1, <2>3, <2>4 DEF Txs, Contents, Like
  <2> HIDE DEF tx
  <2>6. /\ meta \in Metas /\ meta.id = id /\ meta.tx = tx
        /\ meta.status = "Unapproved" /\ meta.hash = Store[id].hash
    BY <1>2, <2>1, <2>5 DEF Metas
  <2> HIDE DEF meta
  <2>7. KEdited(id, tx, "Unapproved")
    BY <1>3, <2>1, <2>2, <2>5, <2>6 DEF old
  <2> QED BY <2>5, <2>7 DEF Status
<1>5. ASSUME NEW nonce \in OptNonces,
             SetNonceForUnapprovedTransaction(id, nonce)
      PROVE  \E tx \in Txs, status \in Status : KEdited(id, tx, status)
  <2> DEFINE tx   == [Store[id].tx EXCEPT !.nonce = nonce]
             meta == [Store[id] EXCEPT !.tx = tx]
  <2>1. /\ "SetNonce" \in Env /\ Save([Store[id] EXCEPT !.tx.nonce = nonce])
        /\ HasStatus(id, "Unapproved") /\ Store[id].status = "Unapproved"
    BY <1>5 DEF HasStatus, SetNonceForUnapprovedTransaction
  <2>2. [Store[id] EXCEPT !.tx.nonce = nonce] = meta
    OBVIOUS
  <2>3. tx \in Txs /\ tx.what = Store[id].tx.what
    BY <1>2 DEF Txs
  <2> HIDE DEF tx
  <2>4. /\ meta \in Metas /\ meta.id = id /\ meta.tx = tx
        /\ meta.status = "Unapproved" /\ meta.hash = Store[id].hash
    BY <1>2, <2>1, <2>3 DEF Metas
  <2> HIDE DEF meta
  <2>5. KEdited(id, tx, "Unapproved")
    BY <1>3, <2>1, <2>2, <2>3, <2>4
  <2> QED BY <2>3, <2>5 DEF Status
<1>6. CASE RejectTransaction(id)
  <2> DEFINE meta == [Store[id] EXCEPT !.status = "Rejected"]
  <2>1. /\ Save(meta)
        /\ HasStatus(id, "Unapproved") \/ "LateReject" \in Env
    BY <1>6 DEF RejectTransaction
  <2>2. /\ meta \in Metas /\ meta.id = id /\ meta.tx = Store[id].tx
        /\ meta.status = "Rejected" /\ meta.hash = Store[id].hash
    BY <1>2 DEF Metas, Status
  <2>3. Like(Store[id].tx, Store[id].tx)
    BY DEF Like
  <2> HIDE DEF meta
  <2>4. KEdited(id, Store[id].tx, "Rejected")
    BY <1>2, <1>3, <2>1, <2>2, <2>3
  <2> QED BY <1>2, <2>4 DEF Status
<1> QED BY <1>4, <1>5, <1>6

LEMMA RequestEffect ==
  ASSUME TypeOK, NEW id \in TxIds, Found(id), NEW isHardware \in BOOLEAN
  PROVE  /\ NonceRequest(id, isHardware) \in NonceRequests
         /\ NonceRequest(id, isHardware).meta = Store[id]
<1>1. QueueLength \in Nat
  BY CardinalityOfIds DEF QueueLength, IdsByStatus
<1>2. Store[id] \in Metas /\ chain \in Chains
  BY FoundRow
<1> QED BY <1>1, <1>2 DEF NonceRequest, NonceRequests

LEMMA KindOfApprove ==
  ASSUME TypeOK, RowsAtHome, NEW id \in TxIds,
         ApproveTransaction(id) \/ GetNonceForHardwareTransaction(id)
  PROVE  \/ \E r \in NonceRequests : KAsked(id, r)
         \/ \E tx \in Txs : KSigned(id, tx)
<1>1. /\ PanelOffersApproval(id) /\ Found(id)
      /\ UNCHANGED <<chain, used, device, gasRpc, networkVars>>
  BY DEF ApproveTransaction, GetNonceForHardwareTransaction, prefsVars,
     PanelOffersApproval, HasStatus
<1>2. Store[id] \in Metas /\ Store[id].id = id /\ chain \in Chains
  BY <1>1, FoundRow
<1>3. ASSUME NEW isHardware \in BOOLEAN, Store[id].tx.nonce = NoNonce,
             nonceRpc' = nonceRpc \cup {NonceRequest(id, isHardware)},
             UNCHANGED <<txs, trackerVars, sendRpc>>
      PROVE  \E r \in NonceRequests : KAsked(id, r)
  <2> DEFINE r == NonceRequest(id, isHardware)
  <2>1. r \in NonceRequests /\ r.meta = Store[id]
    BY <1>1, RequestEffect
  <2>2. nonceRpc' = nonceRpc \cup {r}
    BY <1>3
  <2> HIDE DEF r
  <2>3. KAsked(id, r)
    BY <1>1, <1>3, <2>1, <2>2 DEF KAsked, Here, trackerVars
  <2> QED BY <2>1, <2>3
<1>4. CASE GetNonceForHardwareTransaction(id)
  BY <1>3, <1>4 DEF GetNonceForHardwareTransaction, prefsVars
<1>5. CASE ApproveTransaction(id)
  <2>1. CASE Store[id].tx.nonce = NoNonce
    BY <1>3, <1>5, <2>1 DEF ApproveTransaction
  <2>2. CASE Store[id].tx.nonce # NoNonce
    <3>1. /\ SignAndPublish(Store[id], chain, Store[id].tx.nonce)
          /\ Store[id].tx.what.from \notin HwAccounts /\ nonceRpc' = nonceRpc
      BY <1>5, <2>2 DEF ApproveTransaction
    <3>2. Store[id].tx.nonce \in OptNonces
      BY <1>2 DEF Metas, Txs
    <3>3. PICK tx \in Txs : /\ tx.what = Store[id].tx.what
                            /\ tx.nonce = Store[id].tx.nonce
                            /\ Signs(id, tx, Store[id].hash)
      <4>1. PICK meta : meta = Store[id]
        OBVIOUS
      <4>2. PICK tx \in Txs : /\ tx.what = meta.tx.what
                              /\ tx.nonce = meta.tx.nonce
                              /\ Signs(meta.id, tx, meta.hash)
        BY <1>1, <1>2, <3>1, <3>2, <4>1, SignEffect
      <4> QED BY <1>2, <4>1, <4>2
    <3>4. KSigned(id, tx)
      BY <1>1, <2>2, <3>1, <3>3 DEF KSigned, Here
    <3> QED BY <3>4
  <2> QED BY <2>1, <2>2
<1> QED BY <1>4, <1>5

LEMMA AskedType ==
  ASSUME TypeOK, NEW r \in nonceRpc
  PROVE  /\ r \in NonceRequests /\ r.meta \in Metas /\ r.meta.id \in TxIds
         /\ r.chain \in Chains /\ r.meta.tx \in Txs
BY DEF TypeOK, NonceRequests, Metas

LEMMA KindOfNonce ==
  ASSUME TypeOK, NEW r \in nonceRpc,
         OnGetNextNonce(r) \/ OnGetNextNonceForHardware(r)
  PROVE  \E tx \in Txs : KNumbered(r, tx) \/ KAnswered(r, tx)
<1>1. /\ r.meta \in Metas /\ r.chain \in Chains /\ r.meta.tx \in Txs
  BY AskedType
<1>2. CASE OnGetNextNonce(r)
  <2>1. PICK nonce \in Nonces : SignAndPublish(r.meta, r.chain, nonce)
    BY <1>2 DEF OnGetNextNonce
  <2>2. /\ nonceRpc' = nonceRpc \ {r}
        /\ UNCHANGED <<chain, used, gasRpc, device, networkVars>>
    BY <1>2 DEF OnGetNextNonce
  <2>3. PICK tx \in Txs : /\ tx.what = r.meta.tx.what /\ tx.nonce = nonce
                          /\ Signs(r.meta.id, tx, r.meta.hash)
    BY <1>1, <2>1, <2>2, SignEffect DEF OptNonces
  <2>4. KAnswered(r, tx)
    BY <2>2, <2>3 DEF KAnswered, Here
  <2> QED BY <2>4
<1>3. CASE OnGetNextNonceForHardware(r)
  <2>1. PICK nonce \in Nonces : Save([r.meta EXCEPT !.tx.nonce = nonce])
    BY <1>3 DEF OnGetNextNonceForHardware
  <2>2. /\ nonceRpc' = nonceRpc \ {r}
        /\ UNCHANGED <<chain, used, trackerVars, sendRpc, gasRpc, device,
                       networkVars>>
    BY <1>3 DEF OnGetNextNonceForHardware
  <2> DEFINE tx   == [r.meta.tx EXCEPT !.nonce = nonce]
             meta == [r.meta EXCEPT !.tx = tx]
  <2>3. [r.meta EXCEPT !.tx.nonce = nonce] = meta
    OBVIOUS
  <2>4. tx \in Txs /\ tx.what = r.meta.tx.what /\ tx.nonce = nonce
    BY <1>1 DEF Txs, OptNonces
  <2> HIDE DEF tx
  <2>5. /\ meta \in Metas /\ meta.id = r.meta.id /\ meta.tx = tx
        /\ meta.status = r.meta.status /\ meta.hash = r.meta.hash
    BY <1>1, <2>4 DEF Metas
  <2>6. Save(meta)
    BY <2>1, <2>3
  <2> HIDE DEF meta
  <2>7. Writes(r.meta.id, tx, r.meta.status, r.meta.hash)
    BY <2>5, <2>6, SaveWrites
  <2>8. KNumbered(r, tx)
    BY <2>2, <2>4, <2>7 DEF KNumbered, Here, trackerVars
  <2> QED BY <2>4, <2>8
<1> QED BY <1>2, <1>3

LEMMA KindOfNonceFailure ==
  ASSUME TypeOK, NEW r \in nonceRpc, GetNextNonceFails(r)
  PROVE  KNonceFailed(r)
<1> DEFINE meta == [r.meta EXCEPT !.status = "Error"]
<1>1. /\ nonceRpc' = nonceRpc \ {r} /\ Save(meta)
      /\ UNCHANGED <<chain, used, trackerVars, sendRpc, gasRpc, device,
                     networkVars>>
  BY DEF GetNextNonceFails
<1>2. /\ meta \in Metas /\ meta.id = r.meta.id /\ meta.tx = r.meta.tx
      /\ meta.status = "Error" /\ meta.hash = r.meta.hash
  BY AskedType DEF Metas, Status
<1> HIDE DEF meta
<1>3. Writes(r.meta.id, r.meta.tx, "Error", r.meta.hash)
  BY <1>1, <1>2, SaveWrites
<1> QED BY <1>1, <1>3 DEF KNonceFailed, Here, trackerVars

\* A record that is found is written back with another status.
LEMMA StatusWrites ==
  ASSUME TypeOK, RowsAtHome, NEW id \in TxIds, Found(id),
         NEW status \in Status, Save([Store[id] EXCEPT !.status = status])
  PROVE  Writes(id, Store[id].tx, status, Store[id].hash)
<1> DEFINE meta == [Store[id] EXCEPT !.status = status]
<1>1. Store[id] \in Metas /\ Store[id].id = id
  BY FoundRow
<1>2. /\ meta \in Metas /\ meta.id = id /\ meta.tx = Store[id].tx
      /\ meta.status = status /\ meta.hash = Store[id].hash
  BY <1>1 DEF Metas
<1>3. Save(meta)
  OBVIOUS
<1> HIDE DEF meta
<1> QED BY <1>2, <1>3, SaveWrites

LEMMA KindOfPublish ==
  ASSUME TypeOK, RowsAtHome, NEW r \in sendRpc, OnPublishTransaction(r)
  PROVE  KQuiet \/ KFailed(r.id) \/ KSubmitted(r)
<1>1. /\ sendRpc' = sendRpc \ {r}
      /\ UNCHANGED <<chain, used, nonceRpc, gasRpc, device, networkVars>>
  BY DEF OnPublishTransaction
<1>2. r.id \in TxIds /\ r.tx \in Txs
  BY DEF TypeOK, SendRequests
<1>3. CASE UNCHANGED <<txs, trackerVars>>
  <2>1. WritesNothing /\ AsksForPending
    BY <1>3, SameRows, SameReceipts DEF trackerVars
  <2> QED BY <1>1, <2>1 DEF KQuiet, networkVars, TypeOK
<1>4. CASE Found(r.id) /\ Save([Store[r.id] EXCEPT !.status = "Error"])
           /\ UNCHANGED trackerVars
  <2>1. Writes(r.id, Store[r.id].tx, "Error", Store[r.id].hash)
    BY <1>2, <1>4, StatusWrites DEF Status
  <2> QED BY <1>1, <1>4, <2>1 DEF KFailed, Here, trackerVars
<1>5. CASE /\ Found(r.id)
           /\ UpdatePendingTransactions(
                AddOrUpdateTx(Store, [Store[r.id] EXCEPT !.status = "Submitted",
                                                         !.hash = r.tx]),
                running)
  <2> DEFINE meta == [Store[r.id] EXCEPT !.status = "Submitted", !.hash = r.tx]
  <2>1. Store[r.id] \in Metas /\ Store[r.id].id = r.id
    BY <1>2, <1>5, FoundRow
  <2>2. /\ meta \in Metas /\ meta.id = r.id /\ meta.tx = Store[r.id].tx
        /\ meta.status = "Submitted" /\ meta.hash = r.tx
    BY <1>2, <2>1 DEF Metas, Status
  <2>3. UpdatePendingTransactions(AddOrUpdateTx(Store, meta), running)
    BY <1>5
  <2> HIDE DEF meta
  <2>4. /\ Writes(r.id, Store[r.id].tx, "Submitted", r.tx)
        /\ AsksForPending
    BY <2>2, <2>3, PendingWrites
  <2> QED BY <1>1, <1>5, <2>4 DEF KSubmitted, Here
<1> QED BY <1>3, <1>4, <1>5 DEF OnPublishTransaction

LEMMA KindOfMessage ==
  ASSUME TypeOK, NEW id \in TxIds, GetTransactionMessageToSign(id)
  PROVE  KShown(id)
<1>1. \E d : d.id = id /\ device' = {d}
  <2> DEFINE d == [id |-> id, sig |-> SignatureOf(Store[id].tx, chain)]
  <2>1. device' = {d} /\ d.id = id
    BY DEF GetTransactionMessageToSign
  <2> QED BY <2>1
<1> QED BY <1>1 DEF GetTransactionMessageToSign, KShown, Here, prefsVars,
           trackerVars

LEMMA KindOfHardwareSignature ==
  ASSUME TypeOK, RowsAtHome, NEW d \in device, ProcessHardwareSignature(d)
  PROVE  KQuiet \/ KFailed(d.id) \/ \E tx \in Txs : KHwSigned(d, tx)
<1>1. /\ device' = device \ {d}
      /\ UNCHANGED <<chain, used, trackerVars, nonceRpc, gasRpc, networkVars>>
  BY DEF ProcessHardwareSignature
<1>2. d.id \in TxIds /\ d.sig \in Signatures /\ chain \in Chains
  BY DEF TypeOK, DeviceRequests
<1>3. CASE UNCHANGED <<txs, sendRpc>>
  <2>1. WritesNothing /\ AsksForPending
    BY <1>1, <1>3, SameRows, SameReceipts DEF trackerVars
  <2> QED BY <1>1, <1>3, <2>1 DEF KQuiet, networkVars, TypeOK
<1>4. CASE Found(d.id) /\ Save([Store[d.id] EXCEPT !.status = "Error"])
           /\ UNCHANGED sendRpc
  <2>1. Writes(d.id, Store[d.id].tx, "Error", Store[d.id].hash)
    BY <1>2, <1>4, StatusWrites DEF Status
  <2> QED BY <1>1, <1>4, <2>1 DEF KFailed, Here, trackerVars
<1>5. CASE /\ Found(d.id)
           /\ LET tx == [Store[d.id].tx EXCEPT !.sig = d.sig]
              IN  /\ Save([Store[d.id] EXCEPT !.tx = tx, !.status = "Approved"])
                  /\ PublishTransaction(d.id, tx)
  <2> DEFINE tx   == [Store[d.id].tx EXCEPT !.sig = d.sig]
             meta == [Store[d.id] EXCEPT !.tx = tx, !.status = "Approved"]
             s    == [id |-> d.id, net |-> chain, tx |-> tx, state |-> "sent"]
  <2>1. Store[d.id] \in Metas /\ Store[d.id].id = d.id
    BY <1>2, <1>5, FoundRow
  <2>2. /\ tx \in Txs /\ tx.what = Store[d.id].tx.what
        /\ tx.nonce = Store[d.id].tx.nonce
    BY <1>2, <2>1 DEF Metas, Txs
  <2>3. Save(meta) /\ PublishTransaction(d.id, tx)
    BY <1>5
  <2> HIDE DEF tx
  <2>4. /\ meta \in Metas /\ meta.id = d.id /\ meta.tx = tx
        /\ meta.status = "Approved" /\ meta.hash = Store[d.id].hash
    BY <2>1, <2>2 DEF Metas, Status
  <2> HIDE DEF meta
  <2>5. Writes(d.id, tx, "Approved", Store[d.id].hash)
    BY <2>3, <2>4, SaveWrites
  <2>6. /\ s \in SendRequests /\ s.id = d.id /\ s.tx = tx
        /\ Row(chain, d.id)' # NoTx
    BY <1>1, <1>2, <2>2, <2>3, <2>4, SavedStays DEF SendRequests
  <2>7. sendRpc' = sendRpc \cup {s}
    BY <2>3 DEF PublishTransaction
  <2> HIDE DEF s
  <2>8. KHwSigned(d, tx)
    BY <1>1, <1>5, <2>2, <2>5, <2>6, <2>7 DEF KHwSigned, Here, trackerVars
  <2> QED BY <2>2, <2>8
<1> QED BY <1>3, <1>4, <1>5 DEF ProcessHardwareSignature

LEMMA KindOfReceipt ==
  ASSUME TypeOK, RowsAtHome, NEW r \in receiptRpc, OnGetTxReceipt(r)
  PROVE  KQuiet \/ KConfirmed(r)
<1>1. /\ receiptRpc' = receiptRpc \ {r}
      /\ UNCHANGED <<chain, used, rpcVars, networkVars>>
  BY DEF OnGetTxReceipt
<1>2. r.id \in TxIds
  BY DEF TypeOK, ReceiptRequests
<1>3. ASSUME WritesNothing
      PROVE  KQuiet
  <2>1. AsksForPending
    BY <1>1, SameReceipts
  <2> QED BY <1>1, <1>3, <2>1 DEF KQuiet, rpcVars, networkVars, TypeOK
<1>4. CASE txs' = txs
  BY <1>3, <1>4, SameRows
<1>5. CASE ReceiptFailed(r) /\ Found(r.id)
           /\ txs' = [txs EXCEPT ![chain] = DeleteTx(Store, r.id)]
  <2>1. \A c \in Chains :
          txs'[c] = IF c = chain THEN DeleteTx(Store, r.id) ELSE txs[c]
    BY <1>5 DEF TypeOK
  <2>2. WritesNothing
    BY <2>1 DEF WritesNothing, Row, DeleteTx, Store, TypeOK, Stores
  <2> QED BY <1>3, <2>2
<1>6. CASE /\ ReceiptSucceeded(r) /\ Found(r.id)
           /\ \E t \in Ticks :
                Save([Store[r.id] EXCEPT !.status = "Confirmed",
                                         !.confirmedTime = t])
  <2>1. PICK t \in Ticks : Save([Store[r.id] EXCEPT !.status = "Confirmed",
                                                    !.confirmedTime = t])
    BY <1>6
  <2>2. t \in Nat
    BY <2>1, TxIdsAssumption, FS_CardinalityType DEF Ticks
  <2> DEFINE meta == [Store[r.id] EXCEPT !.status = "Confirmed",
                                         !.confirmedTime = t]
  <2>3. Store[r.id] \in Metas /\ Store[r.id].id = r.id
    BY <1>2, <1>6, FoundRow
  <2>4. /\ meta \in Metas /\ meta.id = r.id /\ meta.tx = Store[r.id].tx
        /\ meta.status = "Confirmed" /\ meta.hash = Store[r.id].hash
    BY <2>2, <2>3 DEF Metas, Status
  <2>5. Save(meta)
    BY <2>1
  <2> HIDE DEF meta
  <2>6. Writes(r.id, Store[r.id].tx, "Confirmed", Store[r.id].hash)
    BY <2>4, <2>5, SaveWrites
  <2> QED BY <1>1, <1>6, <2>6
          DEF KConfirmed, Here, Requests, rpcVars, ReceiptSucceeded
<1> QED BY <1>4, <1>5, <1>6 DEF OnGetTxReceipt

LEMMA KindOfPoll ==
  ASSUME TypeOK,
         \/ OnNewBlock \/ OnSameBlock \/ GetBlockNumber
         \/ \E r \in receiptRpc : NoTxReceipt(r)
         \/ \E q \in countRpc : OnGetNetworkNonce(q)
         \/ \E tx \in gasRpc : GasEstimateFails(tx)
         \/ OnKeyringNotice \/ Lock
         \/ \E notice \in {"Unlocked", "KeyringCreated"} : Unlock(notice)
         \/ \E c \in Chains : SetNetwork(c)
         \/ UNCHANGED vars
  PROVE  KQuiet
<1>1. /\ UNCHANGED <<used, nonceRpc, sendRpc, device, networkVars>>
      /\ gasRpc' \subseteq gasRpc
      /\ chain' = chain \/ "SwitchChain" \in Env
  BY DEF OnNewBlock, OnSameBlock, GetBlockNumber, NoTxReceipt, GasEstimateFails,
     OnGetNetworkNonce, OnKeyringNotice, Lock, Unlock, SetNetwork, vars,
     prefsVars, rpcVars
<1>2. \/ txs' = txs /\ receiptRpc' \subseteq receiptRpc
      \/ \E isRunning : UpdatePendingTransactions(Store, isRunning)
  BY DEF OnNewBlock, OnSameBlock, GetBlockNumber, NoTxReceipt, GasEstimateFails,
     OnGetNetworkNonce, OnKeyringNotice, Lock, Unlock, SetNetwork, vars,
     prefsVars, trackerVars
<1>3. WritesNothing /\ AsksForPending
  BY <1>2, SameRows, SameReceipts, PendingQuiet
<1> QED BY <1>1, <1>3 DEF KQuiet, networkVars, TypeOK

LEMMA KindOfForgetting ==
  ASSUME TypeOK,
         \/ Reset \/ Restart
         \/ \E c \in Chains, a \in Accounts : MineForeign(c, a)
  PROVE  KQuiet
<1>1. /\ UNCHANGED <<used, pool, mined, reverted>>
      /\ nonceRpc' \subseteq nonceRpc /\ sendRpc' \subseteq sendRpc
      /\ device' \subseteq device /\ gasRpc' \subseteq gasRpc
      /\ receiptRpc' \subseteq receiptRpc
      /\ chain' \in {chain, DefaultChain}
  BY DEF Reset, Restart, MineForeign, prefsVars, rpcVars, networkVars,
     trackerVars
<1>2. WritesNothing
  BY DEF Reset, Restart, MineForeign, prefsVars, WritesNothing, Row, EmptyStore
<1>3. \A c \in Chains, a \in Accounts : count'[c][a] >= count[c][a]
  <2>1. CASE UNCHANGED count
    BY <2>1 DEF TypeOK
  <2>2. ASSUME NEW c \in Chains, NEW a \in Accounts, MineForeign(c, a)
        PROVE  \A net \in Chains, b \in Accounts :
                 count'[net][b] >= count[net][b]
    BY <2>2 DEF MineForeign, TypeOK
  <2> QED BY <2>1, <2>2 DEF Reset, Restart, networkVars
<1> QED BY <1>1, <1>2, <1>3, SameReceipts DEF KQuiet

LEMMA KindOfNode ==
  ASSUME TypeOK, NEW r \in sendRpc, NodeAccepts(r) \/ NodeRefuses(r)
  PROVE  KSent(r)
<1>1. r \in SendRequests /\ r.net \in Chains /\ r.tx \in Txs
  BY DEF TypeOK, SendRequests
<1>2. /\ UNCHANGED <<prefsVars, trackerVars, nonceRpc, gasRpc, device, mined,
                     reverted, count>>
  BY DEF NodeAccepts, NodeRefuses, networkVars
<1>3. \E s \in SendRequests :
        /\ s.id = r.id /\ s.tx = r.tx
        /\ sendRpc' = (sendRpc \ {r}) \cup {s}
  <2>1. ASSUME NEW state \in {"accepted", "refused"},
               sendRpc' = (sendRpc \ {r}) \cup {[r EXCEPT !.state = state]}
        PROVE  \E s \in SendRequests :
                 /\ s.id = r.id /\ s.tx = r.tx
                 /\ sendRpc' = (sendRpc \ {r}) \cup {s}
    <3> DEFINE s == [r EXCEPT !.state = state]
    <3>1. s \in SendRequests /\ s.id = r.id /\ s.tx = r.tx
      BY <1>1 DEF SendRequests
    <3> QED BY <2>1, <3>1
  <2> QED BY <2>1 DEF NodeAccepts, NodeRefuses
<1>4. \A c \in Chains :
        /\ pool[c] \subseteq pool'[c]
        /\ pool'[c] \subseteq
             IF r.tx.nonce \in Nonces THEN pool[c] \cup {r.tx} ELSE pool[c]
  <2>1. CASE NodeAccepts(r)
    BY <1>1, <2>1 DEF NodeAccepts, TypeOK
  <2>2. CASE pool' = pool
    BY <2>2
  <2> QED BY <2>1, <2>2 DEF NodeAccepts, NodeRefuses, networkVars
<1> QED BY <1>2, <1>3, <1>4 DEF KSent, prefsVars, trackerVars

LEMMA KindOfDapp ==
  ASSUME TypeOK, NEW id \in TxIds, DappSubmits(id)
  PROVE  KHandedOut(id)
<1>1. /\ HasStatus(id, "Signed")
      /\ pool' = [pool EXCEPT ![Store[id].hash.sig.chain] =
                    @ \cup {Store[id].hash}]
      /\ UNCHANGED <<prefsVars, trackerVars, rpcVars, mined, reverted, count>>
  BY DEF DappSubmits
<1>2. \A c \in Chains : /\ pool'[c] \subseteq pool[c] \cup {Store[id].hash}
                        /\ pool[c] \subseteq pool'[c]
  BY <1>1 DEF TypeOK
<1> QED BY <1>1, <1>2 DEF KHandedOut, Requests, prefsVars, trackerVars, rpcVars

LEMMA KindOfMining ==
  ASSUME TypeOK, NEW c \in Chains, NEW tx \in pool[c], NEW reverts \in BOOLEAN,
         Mine(c, tx, reverts)
  PROVE  tx \in Txs /\ KMined(c, tx)
<1>1. tx \in Txs
  BY DEF TypeOK
<1>2. \A net \in Chains :
        /\ reverted[net] \subseteq reverted'[net]
        /\ reverted'[net] \subseteq reverted[net] \cup
             IF net = c THEN {tx} ELSE {}
  BY DEF Mine, TypeOK
<1> QED BY <1>1, <1>2
        DEF KMined, Mine, Requests, prefsVars, rpcVars, trackerVars

LEMMA KindOfStep ==
  ASSUME IInv, RowsAtHome, [Next]_vars
  PROVE  Kind
<1> TypeOK
  BY IInvTypeOK
<1>1. CASE \/ \E id \in TxIds, from \in Accounts, signOnly \in BOOLEAN,
                 chainId \in Chains \cup {NoChain} :
                AddUnapprovedTransaction(id, from, signOnly, chainId)
           \/ \E id, newId \in TxIds : RetryTransaction(id, newId)
           \/ \E old \in gasRpc, newId \in TxIds :
                ContinueSpeedupOrCancelTransaction(old, newId)
  <2>1. \E id \in TxIds, tx \in Txs : KAdded(id, tx)
    BY <1>1, KindOfAdd, KindOfRetry, KindOfContinue
  <2> QED BY <2>1 DEF Kind
<1>2. CASE \E id \in TxIds, cancel \in BOOLEAN :
             SpeedupOrCancelTransaction(id, cancel)
  <2>1. \E id \in TxIds, tx \in Txs : KCopied(id, tx)
    BY <1>2, KindOfSpeedup
  <2> QED BY <2>1 DEF Kind
<1>3. CASE \E id \in TxIds :
             \/ SetGasOrDataForUnapprovedTransaction(id)
             \/ \E nonce \in OptNonces :
                  SetNonceForUnapprovedTransaction(id, nonce)
             \/ RejectTransaction(id)
  <2>1. \E id \in TxIds, tx \in Txs, status \in Status : KEdited(id, tx, status)
    BY <1>3, KindOfEdit
  <2> QED BY <2>1 DEF Kind
<1>4. CASE \E id \in TxIds : \/ ApproveTransaction(id)
                             \/ GetNonceForHardwareTransaction(id)
  <2>1. \E id \in TxIds : \/ \E r \in NonceRequests : KAsked(id, r)
                          \/ \E tx \in Txs : KSigned(id, tx)
    BY <1>4, KindOfApprove
  <2> QED BY <2>1 DEF Kind
<1>5. CASE \E r \in nonceRpc : \/ OnGetNextNonce(r)
                               \/ OnGetNextNonceForHardware(r)
                               \/ GetNextNonceFails(r)
  <2>1. \E r \in nonceRpc :
          KNonceFailed(r) \/ (\E tx \in Txs :
               KNumbered(r, tx) \/ KAnswered(r, tx))
    BY <1>5, KindOfNonce, KindOfNonceFailure
  <2> QED BY <2>1 DEF Kind
<1>6. CASE \E r \in sendRpc : OnPublishTransaction(r)
  <2>1. PICK r \in sendRpc : KQuiet \/ KFailed(r.id) \/ KSubmitted(r)
    BY <1>6, KindOfPublish
  <2>2. r.id \in TxIds
    BY DEF TypeOK, SendRequests
  <2> QED BY <2>1, <2>2 DEF Kind
<1>7. CASE \E id \in TxIds : GetTransactionMessageToSign(id)
  BY <1>7, KindOfMessage DEF Kind
<1>8. CASE \E d \in device : ProcessHardwareSignature(d)
  <2>1. PICK d \in device :
          KQuiet \/ KFailed(d.id) \/ \E tx \in Txs : KHwSigned(d, tx)
    BY <1>8, KindOfHardwareSignature
  <2>2. d.id \in TxIds
    BY DEF TypeOK, DeviceRequests
  <2> QED BY <2>1, <2>2 DEF Kind
<1>9. CASE \E r \in receiptRpc : OnGetTxReceipt(r)
  BY <1>9, KindOfReceipt DEF Kind
<1>10. CASE \/ OnNewBlock \/ OnSameBlock \/ GetBlockNumber
            \/ \E r \in receiptRpc : NoTxReceipt(r)
            \/ \E q \in countRpc : OnGetNetworkNonce(q)
            \/ \E tx \in gasRpc : GasEstimateFails(tx)
            \/ OnKeyringNotice \/ Lock
            \/ \E notice \in {"Unlocked", "KeyringCreated"} : Unlock(notice)
            \/ \E c \in Chains : SetNetwork(c)
            \/ UNCHANGED vars
  BY <1>10, KindOfPoll DEF Kind
<1>11. CASE \/ Reset \/ Restart
            \/ \E c \in Chains, a \in Accounts : MineForeign(c, a)
  BY <1>11, KindOfForgetting DEF Kind
<1>12. CASE \E r \in sendRpc : NodeAccepts(r) \/ NodeRefuses(r)
  BY <1>12, KindOfNode DEF Kind
<1>13. CASE \E id \in TxIds : DappSubmits(id)
  BY <1>13, KindOfDapp DEF Kind
<1>14. CASE \E c \in Chains : \E tx \in pool[c], reverts \in BOOLEAN :
              Mine(c, tx, reverts)
  BY <1>14, KindOfMining DEF Kind
<1> QED BY <1>1, <1>2, <1>3, <1>4, <1>5, <1>6, <1>7, <1>8, <1>9, <1>10, <1>11,
           <1>12, <1>13, <1>14
        DEF Next, UserStep, Callback, NetworkStep

-----------------------------------------------------------------------------
(* Every record stays with its payment.                                    *)

\* What is under way for an id.
Asked(id)   == {r \in nonceRpc : r.meta.id = id}
Held(id)    == {d \in device : d.id = id}
Sending(id) == {s \in sendRpc : s.id = id}
Watched(id) == {q \in receiptRpc : q.id = id}

Nothing(id) ==
  /\ \A c \in Chains : Row(c, id) = NoTx
  /\ Asked(id) = {} /\ Held(id) = {} /\ Sending(id) = {} /\ Watched(id) = {}

\* Whatever there is of the id is of the payment p.
HashOf(hash, p) == hash = NoHash \/ hash.what.req = p

Belongs(id, p) ==
  /\ \A c \in Chains : Row(c, id) # NoTx =>
       Row(c, id).tx.what.req = p /\ HashOf(Row(c, id).hash, p)
  /\ \A r \in Asked(id) : r.meta.tx.what.req = p
  /\ \A s \in Sending(id) : s.tx.what.req = p
  /\ \A q \in Watched(id) : HashOf(q.hash, p)

\* The payment has been executed on some chain.
Executed(p) == \E net \in Chains : \E tx \in mined[net] : tx.what.req = p

ProperRow(row, id) ==
  /\ row.id = id
  /\ row.status = "Unapproved" => row.hash = NoHash
  /\ row.status = "Confirmed" => Executed(row.tx.what.req)

ProperCopy(meta) == meta.status = "Unapproved" /\ meta.hash = NoHash

OnePayment(id) ==
  /\ \A c \in Chains : Row(c, id) # NoTx => ProperRow(Row(c, id), id)
  /\ \A r \in Asked(id) : ProperCopy(r.meta)
  /\ \E p \in TxIds : Belongs(id, p)
  /\ id \notin used => Nothing(id)

PaymentInv == \A id \in TxIds : OnePayment(id)

\* What a step does to an id it is not about.
Untouched(id) ==
  /\ \A c \in Chains : Row(c, id)' # NoTx => Row(c, id)' = Row(c, id)
  /\ Asked(id)' \subseteq Asked(id) /\ Held(id)' \subseteq Held(id)
  /\ Sending(id)' \subseteq Sending(id)

\* And to one it is about, as long as it stays with the payment p.
Continues(id, p) ==
  /\ \A c \in Chains : Row(c, id)' # NoTx =>
       \/ Row(c, id)' = Row(c, id)
       \/ /\ ProperRow(Row(c, id)', id)
          /\ Row(c, id)'.tx.what.req = p /\ HashOf(Row(c, id)'.hash, p)
  /\ \A r \in Asked(id)' :
       r \in Asked(id) \/ (ProperCopy(r.meta) /\ r.meta.tx.what.req = p)
  /\ \A s \in Sending(id)' : s \in Sending(id) \/ s.tx.what.req = p

\* What was executed stays so.
Grows == used \subseteq used' /\ \A c \in Chains : mined[c] \subseteq mined'[c]

LEMMA ExecutedGrows ==
  ASSUME Grows, NEW p, Executed(p)
  PROVE  Executed(p)'
BY DEF Grows, Executed

LEMMA OnePaymentKept ==
  ASSUME TypeOK, Grows, AsksForPending, NEW id \in TxIds, OnePayment(id),
         NEW p \in TxIds, Belongs(id, p), Continues(id, p),
         id \in used' \/ Untouched(id)
  PROVE  OnePayment(id)'
<1>1. ASSUME NEW c \in Chains, Row(c, id)' # NoTx
      PROVE  /\ ProperRow(Row(c, id), id)'
             /\ Row(c, id)'.tx.what.req = p /\ HashOf(Row(c, id)'.hash, p)
  <2>1. /\ ProperRow(Row(c, id)', id)
        /\ Row(c, id)'.tx.what.req = p /\ HashOf(Row(c, id)'.hash, p)
    BY <1>1 DEF OnePayment, Continues, Belongs
  <2>2. Row(c, id)'.status = "Confirmed" => Executed(p)'
    BY <2>1, ExecutedGrows DEF ProperRow
  <2> QED BY <2>1, <2>2 DEF ProperRow
<1>2. \A r \in Asked(id)' : ProperCopy(r.meta) /\ r.meta.tx.what.req = p
  BY DEF OnePayment, Continues, Belongs
<1>3. \A s \in Sending(id)' : s.tx.what.req = p
  BY DEF Continues, Belongs
<1>4. ASSUME NEW q \in Watched(id)'
      PROVE  HashOf(q.hash, p)
  <2>1. CASE q \in Watched(id)
    BY <2>1 DEF Belongs
  <2>2. CASE q \notin Watched(id)
    <3>1. q \in receiptRpc' \ receiptRpc /\ q.id = id
      BY <1>4, <2>2 DEF Watched
    <3>2. /\ IsPending(txs'[chain][id]) /\ q.hash = txs'[chain][id].hash
          /\ chain \in Chains
      BY <3>1 DEF AsksForPending, TypeOK
    <3> QED BY <1>1, <3>2 DEF IsPending, Row
  <2> QED BY <2>1, <2>2
<1>5. Belongs(id, p)'
  BY <1>1, <1>2, <1>3, <1>4 DEF Belongs, HashOf
<1>6. ASSUME id \notin used'
      PROVE  Nothing(id)'
  <2>1. Nothing(id) /\ Untouched(id)
    BY <1>6 DEF Grows, OnePayment
  <2>2. \A c \in Chains : Row(c, id)' = NoTx
    BY <2>1 DEF Nothing, Untouched
  <2>3. Asked(id)' = {} /\ Held(id)' = {} /\ Sending(id)' = {}
    BY <2>1 DEF Nothing, Untouched
  <2>4. \A q \in Watched(id)' : q \in Watched(id)
    BY <2>2 DEF AsksForPending, Watched, IsPending, Row, TypeOK
  <2> QED BY <2>1, <2>2, <2>3, <2>4 DEF Nothing
<1> QED BY <1>1, <1>2, <1>5, <1>6 DEF OnePayment, ProperCopy

LEMMA UntouchedPayment ==
  ASSUME TypeOK, Grows, AsksForPending, NEW id \in TxIds, OnePayment(id),
         Untouched(id)
  PROVE  OnePayment(id)'
<1>1. PICK p \in TxIds : Belongs(id, p)
  BY DEF OnePayment
<1>2. Continues(id, p)
  BY DEF Untouched, Continues
<1> QED BY <1>1, <1>2, OnePaymentKept

\* A step about the id w, which keeps to its payment.
LEMMA PaymentStep ==
  ASSUME TypeOK, PaymentInv, Grows, AsksForPending, NEW w \in TxIds,
         w \in used',
         \A p \in TxIds : Belongs(w, p) => Continues(w, p),
         \A id \in TxIds \ {w} : Untouched(id)
  PROVE  PaymentInv'
<1> SUFFICES ASSUME NEW id \in TxIds
             PROVE  OnePayment(id)'
  BY DEF PaymentInv
<1>1. CASE id # w
  BY <1>1, UntouchedPayment DEF PaymentInv
<1>2. CASE id = w
  <2>1. PICK p \in TxIds : Belongs(w, p)
    BY DEF PaymentInv, OnePayment
  <2> QED BY <1>2, <2>1, OnePaymentKept DEF PaymentInv
<1> QED BY <1>1, <1>2

LEMMA PaymentQuiet ==
  ASSUME TypeOK, PaymentInv, Grows, AsksForPending,
         \A id \in TxIds : Untouched(id)
  PROVE  PaymentInv'
BY UntouchedPayment DEF PaymentInv

\* What can be found of an id, or is under way for it, was handed out.
LEMMA KnownIsUsed ==
  ASSUME TypeOK, PaymentInv, NEW id \in TxIds
  PROVE  /\ Found(id) => id \in used
         /\ Asked(id) # {} => id \in used
         /\ Sending(id) # {} => id \in used
         /\ Held(id) # {} => id \in used
BY FoundRow DEF PaymentInv, OnePayment, Nothing

LEMMA FoundPayment ==
  ASSUME TypeOK, PaymentInv, NEW id \in TxIds, Found(id)
  PROVE  /\ ProperRow(Store[id], id)
         /\ \A p \in TxIds : Belongs(id, p) =>
              Store[id].tx.what.req = p /\ HashOf(Store[id].hash, p)
BY FoundRow DEF PaymentInv, OnePayment, Belongs

LEMMA PaymentAtHome ==
  ASSUME PaymentInv
  PROVE  RowsAtHome
BY DEF PaymentInv, OnePayment, ProperRow, RowsAtHome

\* A step about the id w alone.
Focus(w) ==
  AsksForPending /\ Grows /\ \A id \in TxIds \ {w} : Untouched(id)

LEMMA QuietFocus ==
  ASSUME KQuiet
  PROVE  AsksForPending /\ Grows /\ \A id \in TxIds : Untouched(id)
BY DEF KQuiet, Grows, Untouched, WritesNothing, Asked, Held, Sending

LEMMA RecordFocus ==
  ASSUME NEW w \in TxIds, NEW tx, NEW status, NEW r,
         \/ KAdded(w, tx) \/ KCopied(w, tx) \/ KEdited(w, tx, status)
         \/ KShown(w) \/ KHandedOut(w)
         \/ KAsked(w, r) /\ RowsAtHome /\ TypeOK
  PROVE  Focus(w)
<1>1. Grows
  BY DEF KAdded, KCopied, KEdited, KShown, KHandedOut, KAsked, Grows, Here,
     networkVars
<1>2. AsksForPending
  BY SameReceipts DEF KAdded, KCopied, KEdited, KShown, KHandedOut, KAsked
<1>3. ASSUME NEW id \in TxIds \ {w}
      PROVE  Untouched(id)
  <2>1. \A c \in Chains : Row(c, id)' # NoTx => Row(c, id)' = Row(c, id)
    BY <1>3 DEF KAdded, KCopied, KEdited, KShown, KHandedOut, KAsked, Writes,
       Row
  <2>2. Asked(id)' \subseteq Asked(id)
    <3>1. CASE KAsked(w, r) /\ RowsAtHome /\ TypeOK
      <4>1. Found(w) /\ r.meta = Store[w] /\ nonceRpc' = nonceRpc \cup {r}
        BY <3>1 DEF KAsked, PanelOffersApproval, HasStatus
      <4>2. r.meta.id = w
        BY <3>1, <4>1, FoundRow
      <4> QED BY <4>1, <4>2 DEF Asked
    <3>2. CASE nonceRpc' = nonceRpc
      BY <3>2 DEF Asked
    <3> QED BY <3>1, <3>2 DEF KAdded, KCopied, KEdited, KShown, KHandedOut,
            Requests
  <2>3. Held(id)' \subseteq Held(id)
    <3>1. CASE KShown(w)
      BY <1>3, <3>1 DEF KShown, Held
    <3>2. CASE device' = device
      BY <3>2 DEF Held
    <3> QED BY <3>1, <3>2 DEF KAdded, KCopied, KEdited, KHandedOut, KAsked,
            Requests
  <2>4. sendRpc' = sendRpc
    BY DEF KAdded, KCopied, KEdited, KShown, KHandedOut, KAsked, Requests
  <2> QED BY <2>1, <2>2, <2>3, <2>4 DEF Untouched, Sending
<1> QED BY <1>1, <1>2, <1>3 DEF Focus

LEMMA SignsFocus ==
  ASSUME NEW w, NEW tx, NEW hash, Signs(w, tx, hash), Here,
         used' = used, nonceRpc' \subseteq nonceRpc, device' = device
  PROVE  Focus(w)
<1>1. Grows
  BY DEF Grows, Here, networkVars
<1>2. AsksForPending
  BY SameReceipts DEF Signs
<1>3. ASSUME NEW id \in TxIds \ {w}
      PROVE  Untouched(id)
  <2>1. \A c \in Chains : Row(c, id)' # NoTx => Row(c, id)' = Row(c, id)
    BY <1>3 DEF Signs, Writes
  <2>2. Sending(id)' \subseteq Sending(id)
    BY <1>3 DEF Signs, Sending
  <2> QED BY <2>1, <2>2 DEF Untouched, Asked, Held
<1> QED BY <1>1, <1>2, <1>3 DEF Focus

LEMMA SignedFocus ==
  ASSUME TypeOK, RowsAtHome, NEW id \in TxIds, NEW tx, KSigned(id, tx)
  PROVE  Focus(id)
<1>1. Found(id)
  BY DEF KSigned, PanelOffersApproval, HasStatus
<1> QED BY <1>1, SignsFocus DEF KSigned

LEMMA AskedFocus ==
  ASSUME NEW r \in nonceRpc, NEW tx,
         KAnswered(r, tx) \/ KNumbered(r, tx) \/ KNonceFailed(r)
  PROVE  Focus(r.meta.id)
<1>1. CASE KAnswered(r, tx)
  BY <1>1, SignsFocus DEF KAnswered
<1>2. CASE KNumbered(r, tx) \/ KNonceFailed(r)
  <2>1. Grows /\ AsksForPending
    BY <1>2, SameReceipts
       DEF KNumbered, KNonceFailed, Grows, Here, networkVars
  <2>2. \A id \in TxIds \ {r.meta.id} : Untouched(id)
    BY <1>2 DEF KNumbered, KNonceFailed, Untouched, Writes, Asked, Held, Sending
  <2> QED BY <2>1, <2>2 DEF Focus
<1> QED BY <1>1, <1>2

LEMMA SendFocus ==
  ASSUME NEW r \in sendRpc, KSubmitted(r) \/ KSent(r)
  PROVE  Focus(r.id)
<1>1. Grows /\ AsksForPending
  BY SameReceipts DEF KSubmitted, KSent, Grows, Here, networkVars
<1>2. \A id \in TxIds \ {r.id} : Untouched(id)
  BY DEF KSubmitted, KSent, Untouched, Writes, Row, Asked, Held, Sending
<1> QED BY <1>1, <1>2 DEF Focus

LEMMA FailedFocus ==
  ASSUME NEW id \in TxIds, KFailed(id)
  PROVE  Focus(id)
<1>1. Grows /\ AsksForPending
  BY SameReceipts DEF KFailed, Grows, Here, networkVars
<1>2. \A i \in TxIds \ {id} : Untouched(i)
  BY DEF KFailed, Untouched, Writes, Asked, Held, Sending
<1> QED BY <1>1, <1>2 DEF Focus

LEMMA HwSignedFocus ==
  ASSUME NEW d \in device, NEW tx, KHwSigned(d, tx)
  PROVE  Focus(d.id)
<1>1. Grows /\ AsksForPending
  BY SameReceipts DEF KHwSigned, Grows, Here, networkVars
<1>2. \A id \in TxIds \ {d.id} : Untouched(id)
  BY DEF KHwSigned, Untouched, Writes, Asked, Held, Sending
<1> QED BY <1>1, <1>2 DEF Focus

LEMMA ConfirmedFocus ==
  ASSUME NEW q \in receiptRpc, KConfirmed(q)
  PROVE  Focus(q.id)
<1>1. Grows /\ AsksForPending
  BY SameReceipts DEF KConfirmed, Grows, Here, networkVars
<1>2. \A id \in TxIds \ {q.id} : Untouched(id)
  BY DEF KConfirmed, Requests, Untouched, Writes, Asked, Held, Sending
<1> QED BY <1>1, <1>2 DEF Focus

LEMMA MinedFocus ==
  ASSUME TypeOK, NEW c \in Chains, NEW tx, KMined(c, tx)
  PROVE  AsksForPending /\ Grows /\ \A id \in TxIds : Untouched(id)
<1>1. Grows /\ AsksForPending
  BY SameReceipts DEF KMined, Grows, TypeOK
<1>2. \A id \in TxIds : Untouched(id)
  BY DEF KMined, Requests, Untouched, Row, Asked, Held, Sending
<1> QED BY <1>1, <1>2

-----------------------------------------------------------------------------
(* PaymentInv is preserved.                                                *)

LEMMA PaymentFocus ==
  ASSUME TypeOK, PaymentInv, NEW w \in TxIds, Focus(w), w \in used',
         \A p \in TxIds : Belongs(w, p) => Continues(w, p)
  PROVE  PaymentInv'
BY PaymentStep DEF Focus

\* The row written last, if a payment's, and no new requests.
LEMMA WritesContinues ==
  ASSUME NEW w \in TxIds, NEW p \in TxIds, NEW tx, NEW status, NEW hash,
         Writes(w, tx, status, hash), tx.what.req = p, HashOf(hash, p),
         status = "Unapproved" => hash = NoHash,
         status = "Confirmed" => Executed(p),
         Asked(w)' \subseteq Asked(w),
         \A s \in Sending(w)' : s \in Sending(w) \/ s.tx.what.req = p
  PROVE  Continues(w, p)
<1> SUFFICES ASSUME NEW c \in Chains, Row(c, w)' # NoTx
             PROVE  \/ Row(c, w)' = Row(c, w)
                    \/ /\ ProperRow(Row(c, w)', w)
                       /\ Row(c, w)'.tx.what.req = p
                       /\ HashOf(Row(c, w)'.hash, p)
  BY DEF Continues
<1>1. CASE c # chain
  BY <1>1 DEF Writes
<1>2. CASE c = chain
  <2>1. /\ Row(c, w)'.id = w /\ Row(c, w)'.tx = tx
        /\ Row(c, w)'.status = status /\ Row(c, w)'.hash = hash
    BY <1>2 DEF Writes
  <2> QED BY <2>1 DEF ProperRow
<1> QED BY <1>1, <1>2

LEMMA SignsContinues ==
  ASSUME NEW w \in TxIds, NEW p \in TxIds, NEW tx \in Txs, NEW hash,
         Signs(w, tx, hash), tx.what.req = p, HashOf(hash, p),
         nonceRpc' \subseteq nonceRpc
  PROVE  Continues(w, p)
<1>1. Asked(w)' \subseteq Asked(w)
  BY DEF Asked
<1>2. \A s \in Sending(w)' : s \in Sending(w) \/ s.tx.what.req = p
  BY DEF Sending, Signs
<1>3. HashOf(tx, p)
  BY DEF HashOf
<1> QED BY <1>1, <1>2, <1>3, WritesContinues DEF Signs

LEMMA PaymentAdded ==
  ASSUME TypeOK, PaymentInv, NEW id \in TxIds, NEW tx \in Txs, KAdded(id, tx)
  PROVE  PaymentInv'
<1>1. Focus(id) /\ id \in used'
  BY RecordFocus DEF KAdded
<1>2. Nothing(id)
  BY DEF KAdded, PaymentInv, OnePayment
<1>3. tx.what.req \in TxIds
  BY DEF Txs, Contents
<1>4. Belongs(id, tx.what.req)
  BY <1>2 DEF Nothing, Belongs
<1>5. Continues(id, tx.what.req)
  <2>1. Asked(id)' \subseteq Asked(id) /\ Sending(id)' \subseteq Sending(id)
    BY DEF KAdded, Asked, Sending
  <2>2. Writes(id, tx, "Unapproved", NoHash) /\ HashOf(NoHash, tx.what.req)
    BY DEF KAdded, HashOf
  <2> QED BY <1>3, <2>1, <2>2, WritesContinues
<1>6. OnePayment(id)'
  BY <1>1, <1>3, <1>4, <1>5, OnePaymentKept DEF Focus, PaymentInv
<1>7. \A i \in TxIds \ {id} : OnePayment(i)'
  BY <1>1, UntouchedPayment DEF Focus, PaymentInv
<1> QED BY <1>6, <1>7 DEF PaymentInv

LEMMA PaymentRecord ==
  ASSUME TypeOK, PaymentInv, NEW id \in TxIds, NEW tx \in Txs, NEW status,
         \/ KCopied(id, tx) \/ KEdited(id, tx, status)
         \/ KShown(id) \/ KHandedOut(id)
  PROVE  PaymentInv'
<1>1. Focus(id) /\ Found(id) /\ used' = used
  BY RecordFocus DEF KCopied, KEdited, KShown, KHandedOut, HasStatus
<1>2. id \in used'
  BY <1>1, KnownIsUsed
<1>3. UNCHANGED <<nonceRpc, sendRpc>>
  BY DEF KCopied, KEdited, KShown, KHandedOut, Requests
<1>4. ASSUME NEW p \in TxIds, Belongs(id, p)
      PROVE  Continues(id, p)
  <2>1. /\ Store[id].tx.what.req = p /\ HashOf(Store[id].hash, p)
        /\ Store[id].status = "Unapproved" => Store[id].hash = NoHash
    BY <1>1, <1>4, FoundPayment DEF ProperRow
  <2>2. CASE KEdited(id, tx, status)
    <3>1. /\ Writes(id, tx, status, Store[id].hash)
          /\ status \in {"Unapproved", "Rejected"}
          /\ status = "Unapproved" => Store[id].status = "Unapproved"
          /\ tx.what.req = p
      BY <2>1, <2>2 DEF KEdited, HasStatus, Like
    <3>2. Asked(id)' \subseteq Asked(id) /\ Sending(id)' \subseteq Sending(id)
      BY <1>3 DEF Asked, Sending
    <3> QED BY <2>1, <3>1, <3>2, WritesContinues
  <2>3. CASE txs' = txs
    BY <1>3, <2>3 DEF Continues, Row, Asked, Sending
  <2> QED BY <2>2, <2>3 DEF KCopied, KShown, KHandedOut
<1> QED BY <1>1, <1>2, <1>4, PaymentFocus

LEMMA PaymentAsked ==
  ASSUME TypeOK, PaymentInv, NEW id \in TxIds, NEW r, KAsked(id, r)
  PROVE  PaymentInv'
<1>1. /\ Focus(id) /\ Found(id) /\ used' = used
      /\ Store[id].status = "Unapproved" /\ r.meta = Store[id]
      /\ nonceRpc' = nonceRpc \cup {r} /\ UNCHANGED <<txs, sendRpc>>
  BY PaymentAtHome, RecordFocus DEF KAsked, PanelOffersApproval, HasStatus
<1>2. id \in used'
  BY <1>1, KnownIsUsed
<1>3. ASSUME NEW p \in TxIds, Belongs(id, p)
      PROVE  Continues(id, p)
  <2>1. /\ Store[id].tx.what.req = p /\ ProperCopy(Store[id])
    BY <1>1, <1>3, FoundPayment DEF ProperRow, ProperCopy
  <2> QED BY <1>1, <2>1 DEF Continues, Row, Asked, Sending
<1> QED BY <1>1, <1>2, <1>3, PaymentFocus

LEMMA PaymentSigned ==
  ASSUME TypeOK, PaymentInv, NEW id \in TxIds, NEW tx \in Txs, KSigned(id, tx)
  PROVE  PaymentInv'
<1>1. /\ Focus(id) /\ Found(id) /\ used' = used
      /\ Signs(id, tx, Store[id].hash)
      /\ tx.what = Store[id].tx.what
      /\ nonceRpc' \subseteq nonceRpc
  BY PaymentAtHome, SignedFocus DEF KSigned, PanelOffersApproval, HasStatus
<1>2. id \in used' /\ Store[id].id = id
  BY <1>1, KnownIsUsed, FoundPayment DEF ProperRow
<1>3. ASSUME NEW p \in TxIds, Belongs(id, p)
      PROVE  Continues(id, p)
  <2>1. /\ Store[id].tx.what.req = p /\ HashOf(Store[id].hash, p)
    BY <1>1, <1>3, FoundPayment
  <2> QED BY <1>1, <1>2, <2>1, SignsContinues
<1> QED BY <1>1, <1>2, <1>3, PaymentFocus

LEMMA AskedPayment ==
  ASSUME TypeOK, PaymentInv, NEW r \in nonceRpc
  PROVE  /\ r.meta.id \in TxIds /\ r \in Asked(r.meta.id)
         /\ r.meta.id \in used /\ ProperCopy(r.meta)
         /\ \A p \in TxIds : Belongs(r.meta.id, p) => r.meta.tx.what.req = p
<1>1. r.meta.id \in TxIds /\ r \in Asked(r.meta.id)
  BY AskedType DEF Asked
<1> QED BY <1>1, KnownIsUsed DEF PaymentInv, OnePayment, Belongs

LEMMA PaymentNonce ==
  ASSUME TypeOK, PaymentInv, NEW r \in nonceRpc, NEW tx \in Txs,
         KAnswered(r, tx) \/ KNumbered(r, tx) \/ KNonceFailed(r)
  PROVE  PaymentInv'
<1> DEFINE w == r.meta.id
<1>1. /\ w \in TxIds /\ w \in used /\ ProperCopy(r.meta)
      /\ \A p \in TxIds : Belongs(w, p) => r.meta.tx.what.req = p
  BY AskedPayment
<1>2. Focus(w)
  BY AskedFocus
<1>3. w \in used' /\ nonceRpc' \subseteq nonceRpc
  BY <1>1 DEF KAnswered, KNumbered, KNonceFailed
<1>4. ASSUME NEW p \in TxIds, Belongs(w, p)
      PROVE  Continues(w, p)
  <2>1. r.meta.tx.what.req = p /\ HashOf(r.meta.hash, p)
    BY <1>1, <1>4 DEF ProperCopy, HashOf
  <2>2. CASE KAnswered(r, tx)
    <3>1. Signs(w, tx, r.meta.hash) /\ tx.what.req = p
      BY <2>1, <2>2 DEF KAnswered
    <3> QED BY <1>1, <1>3, <2>1, <3>1, SignsContinues
  <2>3. CASE KNumbered(r, tx) \/ KNonceFailed(r)
    <3>1. Asked(w)' \subseteq Asked(w) /\ Sending(w)' \subseteq Sending(w)
      BY <1>3, <2>3 DEF Asked, Sending, KNumbered, KNonceFailed
    <3>2. \/ Writes(w, tx, "Unapproved", NoHash) /\ tx.what.req = p
          \/ Writes(w, r.meta.tx, "Error", NoHash)
      BY <1>1, <2>1, <2>3 DEF KNumbered, KNonceFailed, ProperCopy
    <3>3. HashOf(NoHash, p)
      BY DEF HashOf
    <3> HIDE DEF w
    <3> QED BY <1>1, <2>1, <3>1, <3>2, <3>3, WritesContinues
  <2> QED BY <2>2, <2>3
<1> HIDE DEF w
<1> QED BY <1>1, <1>2, <1>3, <1>4, PaymentFocus

LEMMA PaymentSend ==
  ASSUME TypeOK, PaymentInv, NEW r \in sendRpc, KSubmitted(r) \/ KSent(r)
  PROVE  PaymentInv'
<1> DEFINE w == r.id
<1>1. w \in TxIds /\ r \in Sending(w) /\ r.tx \in Txs
  BY DEF TypeOK, SendRequests, Sending
<1>2. Focus(w)
  BY SendFocus
<1>3. w \in used' /\ nonceRpc' = nonceRpc
  BY <1>1, KnownIsUsed DEF KSubmitted, KSent
<1>4. ASSUME NEW p \in TxIds, Belongs(w, p)
      PROVE  Continues(w, p)
  <2>1. r.tx.what.req = p /\ HashOf(r.tx, p)
    BY <1>1, <1>4 DEF Belongs, HashOf
  <2>2. CASE KSubmitted(r)
    <3>1. /\ Found(w) /\ Writes(w, Store[w].tx, "Submitted", r.tx)
          /\ sendRpc' \subseteq sendRpc
      BY <2>2 DEF KSubmitted
    <3>2. Store[w].tx.what.req = p
      BY <1>1, <1>4, <3>1, FoundPayment
    <3>3. Asked(w)' \subseteq Asked(w) /\ Sending(w)' \subseteq Sending(w)
      BY <1>3, <3>1 DEF Asked, Sending
    <3> HIDE DEF w
    <3> QED BY <1>1, <2>1, <3>1, <3>2, <3>3, WritesContinues
  <2>3. CASE KSent(r)
    <3>1. /\ txs' = txs
          /\ \A s \in sendRpc' : s \in sendRpc \/ s.tx = r.tx
      BY <2>3 DEF KSent
    <3> HIDE DEF w
    <3> QED BY <1>3, <2>1, <3>1 DEF Continues, Row, Asked, Sending
  <2> QED BY <2>2, <2>3
<1> HIDE DEF w
<1> QED BY <1>1, <1>2, <1>3, <1>4, PaymentFocus

LEMMA PaymentFailed ==
  ASSUME TypeOK, PaymentInv, NEW id \in TxIds, KFailed(id)
  PROVE  PaymentInv'
<1>1. /\ Focus(id) /\ Found(id) /\ used' = used
      /\ Writes(id, Store[id].tx, "Error", Store[id].hash)
      /\ nonceRpc' = nonceRpc /\ sendRpc' \subseteq sendRpc
  BY FailedFocus DEF KFailed
<1>2. id \in used'
  BY <1>1, KnownIsUsed
<1>3. ASSUME NEW p \in TxIds, Belongs(id, p)
      PROVE  Continues(id, p)
  <2>1. Store[id].tx.what.req = p /\ HashOf(Store[id].hash, p)
    BY <1>1, <1>3, FoundPayment
  <2>2. Asked(id)' \subseteq Asked(id) /\ Sending(id)' \subseteq Sending(id)
    BY <1>1 DEF Asked, Sending
  <2> QED BY <1>1, <2>1, <2>2, WritesContinues
<1> QED BY <1>1, <1>2, <1>3, PaymentFocus

LEMMA PaymentHwSigned ==
  ASSUME TypeOK, PaymentInv, NEW d \in device, NEW tx \in Txs, KHwSigned(d, tx)
  PROVE  PaymentInv'
<1> DEFINE w == d.id
<1>1. w \in TxIds
  BY DEF TypeOK, DeviceRequests
<1>2. /\ Focus(w) /\ Found(w) /\ used' = used /\ nonceRpc' = nonceRpc
      /\ Writes(w, tx, "Approved", Store[w].hash)
      /\ tx.what = Store[w].tx.what
      /\ \A s \in sendRpc' : s \in sendRpc \/ s.tx = tx
  BY HwSignedFocus DEF KHwSigned
<1> HIDE DEF w
<1>3. w \in used'
  BY <1>1, <1>2, KnownIsUsed
<1>4. ASSUME NEW p \in TxIds, Belongs(w, p)
      PROVE  Continues(w, p)
  <2>1. Store[w].tx.what.req = p /\ HashOf(Store[w].hash, p)
    BY <1>1, <1>2, <1>4, FoundPayment
  <2>2. /\ Asked(w)' \subseteq Asked(w)
        /\ \A s \in Sending(w)' : s \in Sending(w) \/ s.tx.what.req = p
    BY <1>2, <2>1 DEF Asked, Sending
  <2> QED BY <1>1, <1>2, <2>1, <2>2, WritesContinues
<1> QED BY <1>1, <1>2, <1>3, <1>4, PaymentFocus

LEMMA PaymentConfirmed ==
  ASSUME TypeOK, PaymentInv, NEW q \in receiptRpc, KConfirmed(q)
  PROVE  PaymentInv'
<1> DEFINE w == q.id
<1>1. /\ w \in TxIds /\ q \in Watched(w) /\ q.net \in Chains
      /\ q.hash \in Txs
  <2>1. w \in TxIds /\ q.net \in Chains
    BY DEF TypeOK, ReceiptRequests
  <2> QED BY <2>1 DEF Watched, KConfirmed, TypeOK
<1>2. /\ Focus(w) /\ Found(w) /\ used' = used /\ UNCHANGED <<nonceRpc, sendRpc>>
      /\ Writes(w, Store[w].tx, "Confirmed", Store[w].hash)
      /\ q.hash \in mined[q.net]
  BY ConfirmedFocus DEF KConfirmed, Requests
<1> HIDE DEF w
<1>3. w \in used'
  BY <1>1, <1>2, KnownIsUsed
<1>4. ASSUME NEW p \in TxIds, Belongs(w, p)
      PROVE  Continues(w, p)
  <2>1. Store[w].tx.what.req = p /\ HashOf(Store[w].hash, p)
    BY <1>1, <1>2, <1>4, FoundPayment
  <2>2. Executed(p)
    BY <1>1, <1>2, <1>4, NoHashAssumption DEF Belongs, HashOf, Executed
  <2>3. Asked(w)' \subseteq Asked(w) /\ Sending(w)' \subseteq Sending(w)
    BY <1>2 DEF Asked, Sending
  <2> QED BY <1>1, <1>2, <2>1, <2>2, <2>3, WritesContinues
<1> QED BY <1>1, <1>2, <1>3, <1>4, PaymentFocus

LEMMA PaymentNext ==
  ASSUME IInv, PaymentInv, [Next]_vars
  PROVE  PaymentInv'
<1>1. TypeOK /\ Kind
  BY IInvTypeOK, PaymentAtHome, KindOfStep
<1>2. CASE KQuiet
  BY <1>1, <1>2, QuietFocus, PaymentQuiet
<1>3. CASE \E id \in TxIds, tx \in Txs :
             \/ KAdded(id, tx) \/ KCopied(id, tx) \/ KSigned(id, tx)
             \/ \E status \in Status : KEdited(id, tx, status)
  BY <1>1, <1>3, PaymentAdded, PaymentRecord, PaymentSigned
<1>4. CASE \E id \in TxIds :
             KFailed(id) \/ \E r \in NonceRequests : KAsked(id, r)
  BY <1>1, <1>4, PaymentFailed, PaymentAsked
<1>5. CASE \E id \in TxIds : KShown(id) \/ KHandedOut(id)
  <2>1. PICK id \in TxIds : KShown(id) \/ KHandedOut(id)
    BY <1>5
  <2>2. Store[id].tx \in Txs
    BY <1>1, <2>1, FoundRow DEF KShown, KHandedOut, HasStatus, Metas
  <2> QED BY <1>1, <2>1, <2>2, PaymentRecord
<1>6. CASE \E r \in nonceRpc : KNonceFailed(r)
  <2>1. PICK r \in nonceRpc : KNonceFailed(r)
    BY <1>6
  <2>2. r.meta.tx \in Txs
    BY <1>1, AskedType
  <2> QED BY <1>1, <2>1, <2>2, PaymentNonce
<1>7. CASE \E r \in nonceRpc, tx \in Txs : KNumbered(r, tx) \/ KAnswered(r, tx)
  BY <1>1, <1>7, PaymentNonce
<1>8. CASE \E r \in sendRpc : KSubmitted(r) \/ KSent(r)
  BY <1>1, <1>8, PaymentSend
<1>9. CASE \/ \E d \in device, tx \in Txs : KHwSigned(d, tx)
           \/ \E q \in receiptRpc : KConfirmed(q)
  BY <1>1, <1>9, PaymentHwSigned, PaymentConfirmed
<1>10. CASE \E c \in Chains, tx \in Txs : KMined(c, tx)
  BY <1>1, <1>10, MinedFocus, PaymentQuiet
<1> QED BY <1>1, <1>2, <1>3, <1>4, <1>5, <1>6, <1>7, <1>8, <1>9, <1>10 DEF Kind

LEMMA PaymentInit ==
  ASSUME Init
  PROVE  PaymentInv
<1>1. used = {} /\ \A id \in TxIds : Nothing(id)
  BY DEF Init, Fresh, Nothing, Row, EmptyStore, Asked, Held, Sending, Watched
<1>2. \A id \in TxIds : \E p \in TxIds : Belongs(id, p)
  BY <1>1 DEF Nothing, Belongs
<1> QED BY <1>1, <1>2 DEF PaymentInv, OnePayment, Nothing

(***************************************************************************)
(* Whatever is stored, held, under way or asked for under an id belongs to *)
(* the one payment the id was made for, in all surroundings: late answers, *)
(* speedups, cancellations and retries never mix two payments.             *)
(***************************************************************************)
THEOREM PaymentInvariance == Spec => []PaymentInv
<1>1. Init => PaymentInv
  BY PaymentInit
<1>2. IInv /\ PaymentInv /\ [Next]_vars => PaymentInv'
  BY PaymentNext
<1> QED BY <1>1, <1>2, Invariance, PTL DEF Spec

(***************************************************************************)
(* Whatever the surroundings do, a record shown as confirmed belongs to a  *)
(* payment that some chain has executed.                                   *)
(***************************************************************************)
THEOREM ConfirmedWasMinedAlways == Spec => []ConfirmedWasMined
<1>1. PaymentInv => ConfirmedWasMined
  BY DEF PaymentInv, OnePayment, ProperRow, Executed, ConfirmedWasMined, Row
<1> QED BY <1>1, PaymentInvariance, PTL

-----------------------------------------------------------------------------
(* The tracker.                                                            *)

PendingNow == PendingIds(Store)

\* While something is pending the tracker does not believe that nothing is,
\* and its timer runs unless a notice is still to come.
TrackInv ==
  PendingNow # {} =>
    /\ ~knownNoPending
    /\ ~locked /\ notices = <<>> => running

LEMMA TrackKept ==
  ASSUME TrackInv, PendingNow' \subseteq PendingNow,
         UNCHANGED <<running, knownNoPending, keyringVars>>
  PROVE  TrackInv'
BY DEF TrackInv, keyringVars

LEMMA TrackUpdated ==
  ASSUME TypeOK, NEW store \in Stores, NEW isRunning \in BOOLEAN,
         UpdatePendingTransactions(store, isRunning),
         UNCHANGED <<chain, locked>>
  PROVE  TrackInv'
<1>1. /\ knownNoPending' = (PendingIds(store) = {})
      /\ running' = CheckIfBlockTrackerShouldRun(locked, isRunning,
                                                 PendingIds(store) = {})
  BY DEF UpdatePendingTransactions
<1>2. PendingNow' \subseteq PendingIds(store)
  <2>1. \A i \in TxIds : Row(chain, i)' \in {NoTx, store[i]} /\ chain \in Chains
    BY PendingEffect DEF TypeOK, Row
  <2>2. \A i \in TxIds : Store'[i] = Row(chain, i)'
    BY DEF Store, Row
  <2> QED BY <2>1, <2>2 DEF PendingNow, PendingIds, IdsByStatus
<1>3. PendingIds(store) # {} /\ ~locked => running'
  BY <1>1 DEF CheckIfBlockTrackerShouldRun
<1> QED BY <1>1, <1>2, <1>3 DEF TrackInv

LEMMA SamePending ==
  ASSUME UNCHANGED <<chain, txs>>
  PROVE  PendingNow' \subseteq PendingNow
BY DEF PendingNow, Store, PendingIds, IdsByStatus

\* A record written with another status is not pending.
LEMMA NonePending ==
  ASSUME TypeOK, chain' = chain, NEW id, NEW tx, NEW status, NEW hash,
         \/ WritesNothing
         \/ /\ Writes(id, tx, status, hash)
            /\ status \notin {"Submitted", "Signed"}
  PROVE  PendingNow' \subseteq PendingNow
<1>1. /\ chain \in Chains
      /\ \A i : Store'[i] = Row(chain, i)' /\ Store[i] = Row(chain, i)
  BY DEF TypeOK, Store, Row
<1>2. \A i \in TxIds : Row(chain, i)' # NoTx =>
        \/ Row(chain, i)' = Row(chain, i)
        \/ Row(chain, i)'.status \notin {"Submitted", "Signed"}
  BY <1>1 DEF WritesNothing, Writes
<1> QED BY <1>1, <1>2 DEF PendingNow, PendingIds, IdsByStatus

LEMMA TrackSaved ==
  ASSUME TypeOK, TrackInv, chain' = chain,
         UNCHANGED <<running, knownNoPending, keyringVars>>,
         NEW id, NEW tx, NEW status, NEW hash,
         \/ WritesNothing
         \/ /\ Writes(id, tx, status, hash)
            /\ status \notin {"Submitted", "Signed"}
  PROVE  TrackInv'
<1>1. PendingNow' \subseteq PendingNow
  BY NonePending
<1> QED BY <1>1, TrackKept

LEMMA TrackNew ==
  ASSUME TypeOK, TrackInv, UNCHANGED <<running, knownNoPending, keyringVars>>,
         \/ \E id \in TxIds, tx \in Txs : KAdded(id, tx)
         \/ \E id \in TxIds, tx \in Txs, status \in Status :
              KEdited(id, tx, status)
         \/ \E r \in nonceRpc : KNonceFailed(r)
         \/ \E q \in receiptRpc : KConfirmed(q)
  PROVE  TrackInv'
<1>1. chain' = chain /\ \E id, tx, status, hash :
                           /\ Writes(id, tx, status, hash)
                           /\ status \notin {"Submitted", "Signed"}
  BY DEF KAdded, KEdited, KNonceFailed, KConfirmed, Here
<1> QED BY <1>1, TrackSaved

LEMMA TrackSigned ==
  ASSUME TypeOK, TrackInv, NEW meta \in Metas, NEW c \in Chains,
         NEW nonce \in OptNonces, SignAndPublish(meta, c, nonce),
         UNCHANGED <<chain, keyringVars>>
  PROVE  TrackInv'
<1>1. PICK tx \in Txs : SignsTracked(meta, tx)
  BY SignEffect
<1>2. CASE UNCHANGED trackerVars /\ Writes(meta.id, tx, "Approved", meta.hash)
  BY <1>2, TrackSaved DEF trackerVars
<1>3. ASSUME NEW store \in Stores, UpdatePendingTransactions(store, running)
      PROVE  TrackInv'
  BY <1>3, TrackUpdated DEF TypeOK, keyringVars
<1> QED BY <1>1, <1>2, <1>3 DEF SignsTracked

LEMMA TrackApprove ==
  ASSUME TypeOK, TrackInv, NEW id \in TxIds,
         ApproveTransaction(id) \/ GetNonceForHardwareTransaction(id)
  PROVE  TrackInv'
<1>1. UNCHANGED <<chain, keyringVars>> /\ Found(id)
  BY DEF ApproveTransaction, GetNonceForHardwareTransaction, prefsVars,
     PanelOffersApproval, HasStatus
<1>2. /\ Store[id] \in Metas /\ chain \in Chains
      /\ Store[id].tx.nonce \in OptNonces
  BY <1>1, FoundRow DEF Metas, Txs
<1>3. \/ SignAndPublish(Store[id], chain, Store[id].tx.nonce)
      \/ UNCHANGED <<txs, trackerVars>>
  BY DEF ApproveTransaction, GetNonceForHardwareTransaction, prefsVars
<1> QED BY <1>1, <1>2, <1>3, TrackSigned, SamePending, TrackKept
        DEF trackerVars

LEMMA TrackNonce ==
  ASSUME TypeOK, PaymentInv, TrackInv, NEW r \in nonceRpc,
         \/ OnGetNextNonce(r) \/ OnGetNextNonceForHardware(r)
         \/ GetNextNonceFails(r)
  PROVE  TrackInv'
<1>1. /\ r.meta \in Metas /\ r.chain \in Chains
      /\ r.meta.status = "Unapproved"
  BY AskedType, AskedPayment DEF ProperCopy
<1>2. CASE OnGetNextNonce(r)
  <2>1. /\ \E nonce \in Nonces : SignAndPublish(r.meta, r.chain, nonce)
        /\ UNCHANGED <<chain, keyringVars>>
    BY <1>2 DEF OnGetNextNonce
  <2> QED BY <1>1, <2>1, TrackSigned DEF OptNonces
<1>3. CASE OnGetNextNonceForHardware(r)
  <2>1. /\ \E nonce \in Nonces : Save([r.meta EXCEPT !.tx.nonce = nonce])
        /\ UNCHANGED <<chain, keyringVars, trackerVars>>
    BY <1>3 DEF OnGetNextNonceForHardware
  <2>2. ASSUME NEW nonce \in Nonces, Save([r.meta EXCEPT !.tx.nonce = nonce])
        PROVE  \E id, tx, hash : Writes(id, tx, "Unapproved", hash)
    <3> DEFINE meta == [r.meta EXCEPT !.tx.nonce = nonce]
    <3>1. [r.meta.tx EXCEPT !.nonce = nonce] \in Txs
      BY <1>1 DEF Metas, Txs, OptNonces
    <3>2. meta \in Metas /\ meta.status = "Unapproved" /\ Save(meta)
      BY <1>1, <2>2, <3>1 DEF Metas
    <3> HIDE DEF meta
    <3> QED BY <3>2, SaveWrites
  <2> QED BY <2>1, <2>2, TrackSaved DEF trackerVars
<1>4. CASE GetNextNonceFails(r)
  <2>1. KNonceFailed(r) /\ UNCHANGED <<keyringVars, trackerVars>>
    BY <1>4, KindOfNonceFailure DEF GetNextNonceFails
  <2> QED BY <2>1, TrackNew DEF trackerVars
<1> QED BY <1>2, <1>3, <1>4

LEMMA TrackPublish ==
  ASSUME TypeOK, RowsAtHome, TrackInv, NEW r \in sendRpc,
         OnPublishTransaction(r)
  PROVE  TrackInv'
<1>1. UNCHANGED <<chain, keyringVars>> /\ r.id \in TxIds /\ r.tx \in Txs
  BY DEF OnPublishTransaction, TypeOK, SendRequests
<1>2. CASE UNCHANGED <<txs, trackerVars>>
  BY <1>1, <1>2, SamePending, TrackKept DEF trackerVars
<1>3. CASE /\ Found(r.id)
           /\ UpdatePendingTransactions(
                AddOrUpdateTx(Store, [Store[r.id] EXCEPT !.status = "Submitted",
                                                         !.hash = r.tx]),
                running)
  <2> DEFINE meta == [Store[r.id] EXCEPT !.status = "Submitted", !.hash = r.tx]
  <2>0. Store[r.id] \in Metas
    BY <1>1, <1>3, FoundRow
  <2>1. meta \in Metas
    BY <1>1, <2>0 DEF Metas, Status
  <2>2. UpdatePendingTransactions(AddOrUpdateTx(Store, meta), running)
    BY <1>3
  <2> HIDE DEF meta
  <2>3. AddOrUpdateTx(Store, meta) \in Stores
    BY <2>1, SavedStore
  <2> QED BY <1>1, <2>2, <2>3, TrackUpdated DEF TypeOK, keyringVars
<1>4. CASE Found(r.id) /\ Save([Store[r.id] EXCEPT !.status = "Error"])
           /\ UNCHANGED trackerVars
  <2>1. Writes(r.id, Store[r.id].tx, "Error", Store[r.id].hash)
    BY <1>1, <1>4, StatusWrites DEF Status
  <2> QED BY <1>1, <1>4, <2>1, TrackSaved DEF trackerVars
<1> QED BY <1>2, <1>3, <1>4 DEF OnPublishTransaction

LEMMA TrackHardware ==
  ASSUME TypeOK, RowsAtHome, TrackInv, NEW d \in device,
         ProcessHardwareSignature(d)
  PROVE  TrackInv'
<1>1. KQuiet \/ KFailed(d.id) \/ \E tx \in Txs : KHwSigned(d, tx)
  BY KindOfHardwareSignature
<1>2. UNCHANGED <<chain, keyringVars, trackerVars>>
  BY DEF ProcessHardwareSignature
<1>3. \/ WritesNothing
      \/ \E id, tx, status, hash : /\ Writes(id, tx, status, hash)
                                   /\ status \notin {"Submitted", "Signed"}
  BY <1>1 DEF KQuiet, KFailed, KHwSigned
<1> QED BY <1>2, <1>3, TrackSaved DEF trackerVars

LEMMA TrackReceipt ==
  ASSUME TypeOK, RowsAtHome, TrackInv, NEW r \in receiptRpc, OnGetTxReceipt(r)
  PROVE  TrackInv'
<1>1. KQuiet \/ KConfirmed(r)
  BY KindOfReceipt
<1>2. UNCHANGED <<chain, running, knownNoPending, keyringVars>>
  BY DEF OnGetTxReceipt
<1> QED BY <1>1, <1>2, TrackSaved, TrackNew DEF KQuiet

LEMMA TrackKeyring ==
  ASSUME TypeOK, TrackInv,
         \/ OnNewBlock \/ OnKeyringNotice \/ Lock
         \/ \E notice \in {"Unlocked", "KeyringCreated"} : Unlock(notice)
  PROVE  TrackInv'
<1>1. Store \in Stores /\ running \in BOOLEAN /\ notices \in Seq(KeyringNotices)
  BY DEF TypeOK, Store
<1>2. CASE OnNewBlock
  <2>1. UpdatePendingTransactions(Store, running) /\ UNCHANGED <<chain, locked>>
    BY <1>2 DEF OnNewBlock, keyringVars
  <2> QED BY <1>1, <2>1, TrackUpdated
<1>3. CASE Lock
  <2>1. PendingNow' \subseteq PendingNow
    BY <1>3, SamePending DEF Lock, prefsVars
  <2> QED BY <1>3, <2>1 DEF Lock, TrackInv, trackerVars
<1>4. ASSUME NEW notice, Unlock(notice)
      PROVE  TrackInv'
  <2>1. PendingNow' \subseteq PendingNow /\ notices' # <<>>
    BY <1>1, <1>4, SamePending DEF Unlock, prefsVars
  <2> QED BY <1>4, <2>1 DEF Unlock, TrackInv, trackerVars
<1>5. CASE OnKeyringNotice
  <2>1. /\ UNCHANGED <<chain, locked>> /\ notices # <<>>
    BY <1>5 DEF OnKeyringNotice
  <2>2. CASE \E isRunning \in BOOLEAN :
               UpdatePendingTransactions(Store, isRunning)
    BY <1>1, <2>1, <2>2, TrackUpdated
  <2>3. CASE ~UpdatesPending(Head(notices))
    <3>1. ChecksTracker(Head(notices))
      BY <1>1, <2>1, <2>3 DEF ChecksTracker, UpdatesPending, KeyringNotices
    <3>2. /\ running' = CheckIfBlockTrackerShouldRun(locked, running,
                                                     knownNoPending)
          /\ UNCHANGED <<txs, knownNoPending>>
      BY <1>5, <2>3, <3>1 DEF OnKeyringNotice
    <3>3. PendingNow' \subseteq PendingNow
      BY <2>1, <3>2, SamePending
    <3> QED BY <2>1, <3>2, <3>3 DEF TrackInv, CheckIfBlockTrackerShouldRun
  <2>4. UpdatesPending(Head(notices)) =>
          \E isRunning \in BOOLEAN : UpdatePendingTransactions(Store, isRunning)
    <3>1. CheckIfBlockTrackerShouldRun(locked, running, knownNoPending) \in
            BOOLEAN
      BY DEF CheckIfBlockTrackerShouldRun, TypeOK
    <3> QED BY <1>1, <1>5, <3>1 DEF OnKeyringNotice
  <2> QED BY <2>2, <2>3, <2>4
<1> QED BY <1>2, <1>3, <1>4, <1>5

LEMMA TrackForgets ==
  ASSUME Reset \/ Restart, TrackInv
  PROVE  TrackInv'
<1>1. CASE Reset
  <2>1. PendingNow' = {}
    BY <1>1, ChainsAssumption
       DEF Reset, PendingNow, PendingIds, IdsByStatus, Store, EmptyStore
  <2> QED BY <2>1 DEF TrackInv
<1>2. CASE Restart
  BY <1>2 DEF Restart, TrackInv
<1> QED BY <1>1, <1>2

LEMMA TrackNext ==
  ASSUME "SwitchChain" \notin Env, IInv, PaymentInv, TrackInv, [Next]_vars
  PROVE  TrackInv'
<1> TypeOK /\ RowsAtHome
  BY IInvTypeOK, PaymentAtHome
<1>1. ASSUME UNCHANGED <<chain, txs, running, knownNoPending, keyringVars>>
      PROVE  TrackInv'
  BY <1>1, SamePending, TrackKept
<1>2. CASE \/ UNCHANGED vars
           \/ \E id \in TxIds, cancel \in BOOLEAN :
                SpeedupOrCancelTransaction(id, cancel)
           \/ \E id \in TxIds : GetTransactionMessageToSign(id)
           \/ \E tx \in gasRpc : GasEstimateFails(tx)
           \/ GetBlockNumber \/ OnSameBlock
           \/ \E r \in receiptRpc : NoTxReceipt(r)
           \/ \E q \in countRpc : OnGetNetworkNonce(q)
  BY <1>1, <1>2
     DEF vars, SpeedupOrCancelTransaction, GetTransactionMessageToSign,
     GasEstimateFails, GetBlockNumber, OnSameBlock, NoTxReceipt,
     OnGetNetworkNonce, prefsVars, trackerVars
<1>3. CASE NetworkStep
  BY <1>1, <1>3
     DEF NetworkStep, NodeAccepts, NodeRefuses, DappSubmits, Mine, MineForeign,
     prefsVars, trackerVars
<1>4. CASE \/ \E id \in TxIds, from \in Accounts, signOnly \in BOOLEAN,
                 chainId \in Chains \cup {NoChain} :
                AddUnapprovedTransaction(id, from, signOnly, chainId)
           \/ \E id, newId \in TxIds : RetryTransaction(id, newId)
           \/ \E old \in gasRpc, newId \in TxIds :
                ContinueSpeedupOrCancelTransaction(old, newId)
  <2>1. \E id \in TxIds, tx \in Txs : KAdded(id, tx)
    BY <1>4, KindOfAdd, KindOfRetry, KindOfContinue
  <2>2. UNCHANGED <<trackerVars, keyringVars>>
    BY <1>4 DEF AddUnapprovedTransaction, RetryTransaction,
       ContinueSpeedupOrCancelTransaction
  <2> QED BY <2>1, <2>2, TrackNew DEF trackerVars
<1>5. CASE \E id \in TxIds :
             \/ SetGasOrDataForUnapprovedTransaction(id)
             \/ \E nonce \in OptNonces :
                  SetNonceForUnapprovedTransaction(id, nonce)
             \/ RejectTransaction(id)
  <2>1. \E id \in TxIds, tx \in Txs, status \in Status : KEdited(id, tx, status)
    BY <1>5, KindOfEdit
  <2>2. UNCHANGED <<trackerVars, keyringVars>>
    BY <1>5 DEF SetGasOrDataForUnapprovedTransaction, RejectTransaction,
       SetNonceForUnapprovedTransaction
  <2> QED BY <2>1, <2>2, TrackNew DEF trackerVars
<1>6. CASE \E id \in TxIds : \/ ApproveTransaction(id)
                             \/ GetNonceForHardwareTransaction(id)
  BY <1>6, TrackApprove
<1>7. CASE \E r \in nonceRpc : \/ OnGetNextNonce(r)
                               \/ OnGetNextNonceForHardware(r)
                               \/ GetNextNonceFails(r)
  BY <1>7, TrackNonce
<1>8. CASE \/ \E r \in sendRpc : OnPublishTransaction(r)
           \/ \E d \in device : ProcessHardwareSignature(d)
           \/ \E r \in receiptRpc : OnGetTxReceipt(r)
  BY <1>8, TrackPublish, TrackHardware, TrackReceipt
<1>9. CASE \/ OnNewBlock \/ OnKeyringNotice \/ Lock
           \/ \E notice \in {"Unlocked", "KeyringCreated"} : Unlock(notice)
           \/ Reset \/ Restart
  BY <1>9, TrackKeyring, TrackForgets
<1>10. ~ \E c \in Chains : SetNetwork(c)
  BY DEF SetNetwork
<1> QED BY <1>2, <1>3, <1>4, <1>5, <1>6, <1>7, <1>8, <1>9, <1>10
        DEF Next, UserStep, Callback

LEMMA TrackInit ==
  ASSUME Init
  PROVE  TrackInv
<1>1. PendingNow = {}
  BY ChainsAssumption DEF Init, PendingNow, PendingIds, IdsByStatus, Store,
     EmptyStore
<1> QED BY <1>1 DEF TrackInv

(***************************************************************************)
(* As long as nobody selects another network, the block tracker of an      *)
(* unlocked wallet that has handled its keyring notices runs while a       *)
(* record is submitted or signed.                                          *)
(***************************************************************************)
THEOREM TrackerRunsAlways ==
  ASSUME "SwitchChain" \notin Env
  PROVE  Spec => []TrackerRuns
<1>1. Init => TrackInv
  BY TrackInit
<1>2. IInv /\ PaymentInv /\ TrackInv /\ [Next]_vars => TrackInv'
  BY TrackNext
<1>3. TrackInv => TrackerRuns
  BY DEF TrackInv, TrackerRuns, PendingNow, PendingIds, IdsByStatus, IsPending
<1> QED BY <1>1, <1>2, <1>3, Invariance, PaymentInvariance, PTL DEF Spec

-----------------------------------------------------------------------------
(* The stages of a record, for a user who does not set nonces by hand, one *)
(* network, and a panel that sends one approval per record and rejects     *)
(* from a list that is up to date.                                         *)

PlainUse ==
  Env \cap {"SwitchChain", "ReApprove", "SetNonce", "LateReject"} = {}

Alone(S) == \A a, b \in S : a = b

\* An id waits for one thing at a time: for a nonce, for a device, for a
\* node, or for receipts.
OneStage(id) ==
  /\ Alone(Asked(id)) /\ Alone(Held(id)) /\ Alone(Sending(id))
  /\ Asked(id) # {} => Held(id) = {} /\ Sending(id) = {} /\ Watched(id) = {}
  /\ Held(id) # {} => Sending(id) = {} /\ Watched(id) = {}
  /\ Sending(id) # {} => Watched(id) = {}

\* The row of the id, if it is still there, is one of that stage.
InStage(id, tx, status, hash) ==
  /\ Asked(id) # {} => status \in {"Unapproved", "Rejected"}
                       /\ tx.nonce = NoNonce
  /\ Held(id) # {} => /\ status \in {"Unapproved", "Rejected"}
                      /\ tx.nonce # NoNonce /\ tx.what.from \in HwAccounts
  /\ \A s \in Sending(id) : status = "Approved" /\ tx = s.tx
  /\ \A q \in Watched(id) : /\ status \in {"Submitted", "Signed", "Confirmed"}
                            /\ q.net = chain /\ q.hash = hash

\* What its status says of its hash, of its nonce and of the chain.
Settled(tx, status, hash) ==
  /\ status \in {"Unapproved", "Rejected", "Approved"} => hash = NoHash
  /\ status \in {"Submitted", "Signed", "Confirmed"} => hash = tx
  /\ status \in {"Approved", "Submitted", "Signed", "Confirmed"} =>
       tx.nonce # NoNonce
  /\ status = "Confirmed" => hash \in mined[chain] \ reverted[chain]

StageOK(id) ==
  LET row == Row(chain, id)
  IN  /\ OneStage(id)
      /\ \A c \in Chains \ {chain} : Row(c, id) = NoTx
      /\ row # NoTx => /\ InStage(id, row.tx, row.status, row.hash)
                       /\ Settled(row.tx, row.status, row.hash)

StageInv == chain = DefaultChain /\ \A id \in TxIds : StageOK(id)

\* What a chain has executed successfully stays so.
Lasting ==
  \A c \in Chains : mined[c] \ reverted[c] \subseteq mined'[c] \ reverted'[c]

LEMMA UntouchedStage ==
  ASSUME TypeOK, NEW id \in TxIds, StageOK(id), Untouched(id), AsksForPending,
         Lasting, chain' = chain
  PROVE  StageOK(id)'
<1>1. chain \in Chains
  BY DEF TypeOK
<1>2. \A c \in Chains : Row(c, id)' # NoTx => Row(c, id)' = Row(c, id)
  BY DEF Untouched
<1>3. \A c \in Chains \ {chain} : Row(c, id)' = NoTx
  BY <1>2 DEF StageOK
<1>4. PICK row : row = txs'[chain][id]
  OBVIOUS
<1>5. row # NoTx =>
        /\ row = Row(chain, id)
        /\ InStage(id, row.tx, row.status, row.hash)
        /\ Settled(row.tx, row.status, row.hash)
  BY <1>1, <1>2, <1>4 DEF Row, StageOK
<1>6. /\ Asked(id)' \subseteq Asked(id) /\ Held(id)' \subseteq Held(id)
      /\ Sending(id)' \subseteq Sending(id) /\ OneStage(id)
  BY DEF Untouched, StageOK
<1>7. \A q \in Watched(id)' :
        \/ q \in Watched(id)
        \/ /\ row # NoTx /\ row.status \in {"Submitted", "Signed"}
           /\ q.net = chain /\ q.hash = row.hash
  BY <1>4 DEF Watched, AsksForPending, IsPending
<1>8. row # NoTx /\ row.status \in {"Submitted", "Signed"} =>
        Asked(id) = {} /\ Held(id) = {} /\ Sending(id) = {}
  BY <1>5 DEF InStage
<1>9. OneStage(id)'
  <2>1. Alone(Asked(id))' /\ Alone(Held(id))' /\ Alone(Sending(id))'
    BY <1>6 DEF OneStage, Alone
  <2>2. Watched(id)' # {} =>
          Watched(id) # {} \/ (Asked(id) = {} /\ Held(id) = {}
                               /\ Sending(id) = {})
    BY <1>7, <1>8
  <2> QED BY <1>6, <2>1, <2>2 DEF OneStage
<1>10. ASSUME row # NoTx
       PROVE  InStage(id, row.tx, row.status, row.hash)'
  BY <1>5, <1>6, <1>7, <1>8, <1>10 DEF InStage
<1>11. ASSUME row # NoTx
       PROVE  Settled(row.tx, row.status, row.hash)'
  BY <1>1, <1>5, <1>11 DEF Settled, Lasting
<1>12. Row(chain, id)' = row
  BY <1>4 DEF Row
<1> QED BY <1>3, <1>9, <1>10, <1>11, <1>12 DEF StageOK

LEMMA StageWritten ==
  ASSUME TypeOK, NEW id \in TxIds, StageOK(id), chain' = chain,
         NEW tx, NEW status, NEW hash, Writes(id, tx, status, hash),
         OneStage(id)', InStage(id, tx, status, hash)',
         Settled(tx, status, hash)'
  PROVE  StageOK(id)'
<1>1. chain \in Chains
  BY DEF TypeOK
<1>2. \A c \in Chains \ {chain} : Row(c, id)' = NoTx
  BY DEF StageOK, Writes
<1>3. PICK row : row = txs'[chain][id]
  OBVIOUS
<1>4. row # NoTx => row.tx = tx /\ row.status = status /\ row.hash = hash
  BY <1>1, <1>3 DEF Writes, Row
<1>5. Row(chain, id)' = row
  BY <1>3 DEF Row
<1> QED BY <1>2, <1>4, <1>5 DEF StageOK

\* Steps that no chain takes part in.
LEMMA HereLasts ==
  ASSUME Here
  PROVE  Lasting /\ chain' = chain
BY DEF Here, Lasting, networkVars

LEMMA StageFocus ==
  ASSUME TypeOK, StageInv, NEW w \in TxIds, Focus(w), Lasting, chain' = chain,
         StageOK(w)'
  PROVE  StageInv'
<1>1. \A id \in TxIds \ {w} : StageOK(id)'
  BY UntouchedStage DEF Focus, StageInv
<1> QED BY <1>1 DEF StageInv

LEMMA StageQuiet ==
  ASSUME TypeOK, StageInv, AsksForPending, Lasting, chain' = chain,
         \A id \in TxIds : Untouched(id)
  PROVE  StageInv'
BY UntouchedStage DEF StageInv

\* The stages in terms of what is found.
LEMMA FoundStage ==
  ASSUME TypeOK, StageInv, NEW id \in TxIds, Found(id)
  PROVE  /\ InStage(id, Store[id].tx, Store[id].status, Store[id].hash)
         /\ Settled(Store[id].tx, Store[id].status, Store[id].hash)
         /\ OneStage(id)
BY FoundRow DEF StageInv, StageOK

LEMMA StageAdded ==
  ASSUME TypeOK, PaymentInv, StageInv, NEW id \in TxIds, NEW tx \in Txs,
         KAdded(id, tx)
  PROVE  StageInv'
<1>1. Focus(id) /\ Lasting /\ chain' = chain
  BY RecordFocus, HereLasts DEF KAdded
<1>2. Nothing(id)
  BY DEF KAdded, PaymentInv, OnePayment
<1>3. /\ Asked(id)' = {} /\ Held(id)' = {} /\ Sending(id)' = {}
      /\ Watched(id)' = {}
  BY <1>2 DEF Nothing, Asked, Held, Sending, Watched, KAdded
<1>4. OneStage(id)' /\ InStage(id, tx, "Unapproved", NoHash)'
  BY <1>3 DEF OneStage, InStage, Alone
<1>5. Settled(tx, "Unapproved", NoHash)'
  BY DEF Settled
<1>6. StageOK(id)'
  BY <1>1, <1>4, <1>5, StageWritten DEF KAdded, StageInv
<1> QED BY <1>1, <1>6, StageFocus

LEMMA StageEdited ==
  ASSUME PlainUse, TypeOK, StageInv, NEW id \in TxIds, NEW tx \in Txs,
         NEW status, KEdited(id, tx, status)
  PROVE  StageInv'
<1>1. Focus(id) /\ Lasting /\ chain' = chain /\ Found(id)
  BY RecordFocus, HereLasts DEF KEdited, HasStatus
<1>2. /\ InStage(id, Store[id].tx, Store[id].status, Store[id].hash)
      /\ Settled(Store[id].tx, Store[id].status, Store[id].hash)
      /\ OneStage(id)
  BY <1>1, FoundStage
<1>3. /\ Store[id].status = "Unapproved" /\ Like(tx, Store[id].tx)
      /\ status \in {"Unapproved", "Rejected"}
      /\ Writes(id, tx, status, Store[id].hash)
      /\ UNCHANGED <<nonceRpc, device, sendRpc, receiptRpc>>
  BY DEF KEdited, HasStatus, PlainUse, Requests
<1>4. Store[id].hash = NoHash
  BY <1>2, <1>3 DEF Settled
<1>5. UNCHANGED <<Asked(id), Held(id), Sending(id), Watched(id)>>
  BY <1>3 DEF Asked, Held, Sending, Watched
<1>6. Sending(id) = {} /\ Watched(id) = {}
  BY <1>2, <1>3 DEF InStage
<1>7. OneStage(id)'
  BY <1>2, <1>5 DEF OneStage, Alone
<1>8. InStage(id, tx, status, NoHash)'
  BY <1>2, <1>3, <1>5, <1>6 DEF InStage, Like
<1>9. Settled(tx, status, NoHash)'
  BY <1>3 DEF Settled
<1>10. StageOK(id)'
  BY <1>1, <1>3, <1>4, <1>7, <1>8, <1>9, StageWritten DEF StageInv
<1> QED BY <1>1, <1>10, StageFocus

LEMMA StageAsked ==
  ASSUME PlainUse, TypeOK, RowsAtHome, StageInv, NEW id \in TxIds, NEW r,
         KAsked(id, r)
  PROVE  StageInv'
<1>1. /\ Focus(id) /\ Lasting /\ chain' = chain /\ Found(id)
      /\ Store[id].status = "Unapproved" /\ Store[id].tx.nonce = NoNonce
      /\ Store[id].id = id
  BY RecordFocus, HereLasts, FoundRow DEF KAsked, PanelOffersApproval, HasStatus
<1>2. /\ InStage(id, Store[id].tx, Store[id].status, Store[id].hash)
      /\ Settled(Store[id].tx, Store[id].status, Store[id].hash)
  BY <1>1, FoundStage
<1>3. /\ nonceRpc' = nonceRpc \cup {r} /\ r.meta = Store[id]
      /\ UNCHANGED <<txs, device, sendRpc, receiptRpc, networkVars>>
  BY DEF KAsked, Here
<1>4. Held(id) = {} /\ Sending(id) = {} /\ Watched(id) = {}
  BY <1>1, <1>2 DEF InStage
<1>5. Asked(id) = {}
  BY DEF KAsked, PanelOffersApproval, PlainUse, Asked
<1>6. /\ Asked(id)' = {r} /\ Held(id)' = {} /\ Sending(id)' = {}
      /\ Watched(id)' = {}
  BY <1>1, <1>3, <1>4, <1>5 DEF Asked, Held, Sending, Watched
<1>7. OneStage(id)'
  BY <1>6 DEF OneStage, Alone
<1>8. \A c \in Chains \ {chain} : Row(c, id)' = NoTx
  BY <1>3 DEF StageInv, StageOK, Row
<1>9. PICK row : row = Store[id]
  OBVIOUS
<1>10. Row(chain, id)' = row
  BY <1>1, <1>3, <1>9 DEF Store, Row
<1>11. InStage(id, row.tx, row.status, row.hash)'
  BY <1>1, <1>6, <1>9 DEF InStage
<1>12. Settled(row.tx, row.status, row.hash)'
  BY <1>1, <1>2, <1>9 DEF Settled
<1>13. StageOK(id)'
  BY <1>1, <1>7, <1>8, <1>10, <1>11, <1>12 DEF StageOK
<1> QED BY <1>1, <1>13, StageFocus

\* Signing what has a nonce and is not under way elsewhere.
LEMMA StageSigns ==
  ASSUME TypeOK, StageInv, NEW w \in TxIds, NEW tx, Signs(w, tx, NoHash),
         tx.nonce # NoNonce, Focus(w), Here, Asked(w)' = {}, Held(w)' = {},
         Sending(w) = {}, Watched(w) = {}
  PROVE  StageInv'
<1>1. Lasting /\ chain' = chain /\ StageOK(w)
  BY HereLasts DEF StageInv
<1>2. CASE /\ Writes(w, tx, "Approved", NoHash)
           /\ receiptRpc' = receiptRpc
           /\ \A s \in sendRpc' : s \in sendRpc \/ (s.id = w /\ s.tx = tx)
           /\ Alone(Sending(w)')
  <2>1. Watched(w)' = {} /\ \A s \in Sending(w)' : s.tx = tx
    BY <1>2 DEF Watched, Sending
  <2>2. OneStage(w)'
    BY <1>2, <2>1 DEF OneStage, Alone
  <2>3. InStage(w, tx, "Approved", NoHash)' /\ Settled(tx, "Approved", NoHash)'
    BY <2>1 DEF InStage, Settled
  <2>4. StageOK(w)'
    BY <1>1, <1>2, <2>2, <2>3, StageWritten
  <2> QED BY <1>1, <2>4, StageFocus
<1>3. CASE Writes(w, tx, "Signed", tx) /\ AsksForPending /\ sendRpc' = sendRpc
  <2>1. Sending(w)' = {}
    BY <1>3 DEF Sending
  <2>2. /\ chain \in Chains
        /\ txs'[chain][w] # NoTx => txs'[chain][w].hash = tx
    BY <1>1, <1>3 DEF Writes, Row, TypeOK
  <2>3. ASSUME NEW q \in Watched(w)'
        PROVE  q.net = chain /\ q.hash = tx
    <3>1. q \in receiptRpc' \ receiptRpc /\ q.id = w
      BY DEF Watched
    <3> QED BY <1>3, <2>2, <3>1 DEF AsksForPending, IsPending
  <2>4. OneStage(w)'
    BY <2>1 DEF OneStage, Alone
  <2>5. InStage(w, tx, "Signed", tx)' /\ Settled(tx, "Signed", tx)'
    BY <1>1, <2>1, <2>3 DEF InStage, Settled
  <2>6. StageOK(w)'
    BY <1>1, <1>3, <2>4, <2>5, StageWritten
  <2> QED BY <1>1, <2>6, StageFocus
<1>5. ASSUME NEW s, s.id = w, sendRpc' = sendRpc \cup {s}
      PROVE  Alone(Sending(w)')
  BY <1>5 DEF Alone, Sending
<1>6. sendRpc' = sendRpc => Alone(Sending(w)')
  BY DEF Alone, Sending
<1> QED BY <1>2, <1>3, <1>5, <1>6 DEF Signs

LEMMA StageSigned ==
  ASSUME TypeOK, RowsAtHome, StageInv, NEW id \in TxIds, NEW tx \in Txs,
         KSigned(id, tx)
  PROVE  StageInv'
<1>1. /\ Focus(id) /\ Found(id) /\ Here
      /\ Store[id].status = "Unapproved" /\ Store[id].tx.nonce # NoNonce
      /\ Store[id].tx.what.from \notin HwAccounts
      /\ Signs(id, tx, Store[id].hash)
      /\ tx.nonce # NoNonce /\ UNCHANGED <<nonceRpc, device>>
  BY SignedFocus, FoundRow DEF KSigned, PanelOffersApproval, HasStatus
<1>2. /\ InStage(id, Store[id].tx, Store[id].status, Store[id].hash)
      /\ Settled(Store[id].tx, Store[id].status, Store[id].hash)
  BY <1>1, FoundStage
<1>3. /\ Asked(id) = {} /\ Held(id) = {} /\ Sending(id) = {}
      /\ Watched(id) = {} /\ Store[id].hash = NoHash
  BY <1>1, <1>2 DEF InStage, Settled
<1>4. Asked(id)' = {} /\ Held(id)' = {}
  BY <1>1, <1>3 DEF Asked, Held
<1> QED BY <1>1, <1>3, <1>4, StageSigns

\* Where an id is for which a nonce has been asked.
LEMMA AskedStage ==
  ASSUME TypeOK, PaymentInv, StageInv, NEW r \in nonceRpc
  PROVE  /\ r.meta.id \in TxIds /\ r \in Asked(r.meta.id)
         /\ Asked(r.meta.id) = {r} /\ ProperCopy(r.meta)
         /\ Held(r.meta.id) = {} /\ Sending(r.meta.id) = {}
         /\ Watched(r.meta.id) = {}
<1>1. /\ r.meta.id \in TxIds /\ r \in Asked(r.meta.id) /\ ProperCopy(r.meta)
  BY AskedPayment
<1>2. OneStage(r.meta.id)
  BY <1>1 DEF StageInv, StageOK
<1> QED BY <1>1, <1>2 DEF OneStage, Alone

LEMMA StageNonce ==
  ASSUME TypeOK, PaymentInv, StageInv, NEW r \in nonceRpc, NEW tx \in Txs,
         KAnswered(r, tx) \/ KNumbered(r, tx) \/ KNonceFailed(r)
  PROVE  StageInv'
<1> DEFINE w == r.meta.id
<1>1. /\ w \in TxIds /\ Asked(w) = {r} /\ ProperCopy(r.meta)
      /\ Held(w) = {} /\ Sending(w) = {} /\ Watched(w) = {}
  BY AskedStage
<1>2. Focus(w) /\ Here /\ nonceRpc' = nonceRpc \ {r} /\ device' = device
  BY AskedFocus DEF KAnswered, KNumbered, KNonceFailed
<1>3. Asked(w)' = {} /\ Held(w)' = {}
  BY <1>1, <1>2 DEF Asked, Held
<1>4. CASE KAnswered(r, tx)
  <2>1. Signs(w, tx, r.meta.hash) /\ tx.nonce # NoNonce
    BY <1>4, NoNonceAssumption DEF KAnswered, Nonces
  <2> QED BY <1>1, <1>2, <1>3, <2>1, StageSigns DEF ProperCopy
<1>5. CASE KNumbered(r, tx) \/ KNonceFailed(r)
  <2> HIDE DEF w
  <2>1. Sending(w)' = {} /\ Watched(w)' = {}
    BY <1>1, <1>5 DEF Sending, Watched, KNumbered, KNonceFailed
  <2>2. \E what, status : /\ Writes(w, what, status, NoHash)
                          /\ status \in {"Unapproved", "Error"}
    BY <1>1, <1>5 DEF KNumbered, KNonceFailed, ProperCopy, w
  <2>3. PICK what, status : /\ Writes(w, what, status, NoHash)
                            /\ status \in {"Unapproved", "Error"}
    BY <2>2
  <2>4. /\ OneStage(w)' /\ InStage(w, what, status, NoHash)'
        /\ Settled(what, status, NoHash)'
    BY <1>3, <2>1, <2>3 DEF OneStage, InStage, Settled, Alone
  <2>5. Lasting /\ chain' = chain
    BY <1>2, HereLasts
  <2>6. StageOK(w)'
    BY <1>1, <2>3, <2>4, <2>5, StageWritten DEF StageInv
  <2> QED BY <1>1, <1>2, <2>5, <2>6, StageFocus
<1> QED BY <1>4, <1>5

\* Where an id is that is on its way to a node.
LEMMA SendingStage ==
  ASSUME TypeOK, StageInv, NEW r \in sendRpc
  PROVE  /\ r.id \in TxIds /\ Sending(r.id) = {r} /\ Asked(r.id) = {}
         /\ Held(r.id) = {} /\ Watched(r.id) = {}
         /\ Found(r.id) => /\ Store[r.id].status = "Approved"
                           /\ Store[r.id].tx = r.tx
                           /\ Store[r.id].hash = NoHash
                           /\ Store[r.id].tx.nonce # NoNonce
<1>1. r.id \in TxIds /\ r \in Sending(r.id)
  BY DEF TypeOK, SendRequests, Sending
<1>2. OneStage(r.id)
  BY <1>1 DEF StageInv, StageOK
<1>3. /\ Sending(r.id) = {r} /\ Asked(r.id) = {}
      /\ Held(r.id) = {} /\ Watched(r.id) = {}
  BY <1>1, <1>2 DEF OneStage, Alone
<1>4. ASSUME Found(r.id)
      PROVE  /\ Store[r.id].status = "Approved" /\ Store[r.id].tx = r.tx
             /\ Store[r.id].hash = NoHash /\ Store[r.id].tx.nonce # NoNonce
  BY <1>1, <1>4, FoundStage DEF InStage, Settled
<1> QED BY <1>1, <1>3, <1>4

LEMMA StageSend ==
  ASSUME TypeOK, StageInv, NEW r \in sendRpc, KSubmitted(r) \/ KSent(r)
  PROVE  StageInv'
<1> DEFINE w == r.id
<1>1. /\ w \in TxIds /\ Sending(w) = {r} /\ Asked(w) = {}
      /\ Held(w) = {} /\ Watched(w) = {}
      /\ Found(w) => /\ Store[w].status = "Approved" /\ Store[w].tx = r.tx
                     /\ Store[w].hash = NoHash /\ Store[w].tx.nonce # NoNonce
  BY SendingStage
<1>2. Focus(w) /\ chain' = chain /\ UNCHANGED <<nonceRpc, device>>
  BY SendFocus DEF KSubmitted, KSent, Here
<1>3. Lasting
  BY DEF KSubmitted, KSent, Lasting, Here, networkVars
<1>4. Asked(w)' = {} /\ Held(w)' = {}
  BY <1>1, <1>2 DEF Asked, Held
<1>5. chain \in Chains
  BY DEF TypeOK
<1>6. CASE KSubmitted(r)
  <2>1. /\ Found(w) /\ Writes(w, r.tx, "Submitted", r.tx) /\ AsksForPending
        /\ sendRpc' = sendRpc \ {r}
    BY <1>1, <1>6 DEF KSubmitted
  <2> HIDE DEF w
  <2>2. Sending(w)' = {}
    BY <1>1, <2>1 DEF Sending
  <2>3. txs'[chain][w] # NoTx => txs'[chain][w].hash = r.tx
    BY <1>1, <1>5, <2>1 DEF Writes, Row
  <2>4. ASSUME NEW q \in Watched(w)'
        PROVE  q.net = chain /\ q.hash = r.tx
    <3>1. q \in receiptRpc' \ receiptRpc /\ q.id = w
      BY <1>1 DEF Watched
    <3> QED BY <2>1, <2>3, <3>1 DEF AsksForPending, IsPending
  <2>5. OneStage(w)'
    BY <1>4, <2>2 DEF OneStage, Alone
  <2>6. InStage(w, r.tx, "Submitted", r.tx)'
    BY <1>2, <1>4, <2>2, <2>4 DEF InStage
  <2>7. Settled(r.tx, "Submitted", r.tx)'
    BY <1>1, <2>1 DEF Settled
  <2>8. StageOK(w)'
    BY <1>1, <1>2, <2>1, <2>5, <2>6, <2>7, StageWritten DEF StageInv
  <2> QED BY <1>1, <1>2, <1>3, <2>8, StageFocus
<1>7. CASE KSent(r)
  <2>1. PICK s \in SendRequests : /\ s.id = w /\ s.tx = r.tx
                                  /\ sendRpc' = (sendRpc \ {r}) \cup {s}
    BY <1>7 DEF KSent
  <2>2. UNCHANGED <<txs, receiptRpc, mined, reverted>>
    BY <1>7 DEF KSent
  <2> HIDE DEF w
  <2>3. Sending(w)' = {s} /\ Watched(w)' = {}
    BY <1>1, <2>1, <2>2 DEF Sending, Watched
  <2>4. OneStage(w)'
    BY <1>4, <2>3 DEF OneStage, Alone
  <2>5. \A c \in Chains \ {chain} : Row(c, w)' = NoTx
    BY <1>1, <2>2 DEF StageInv, StageOK, Row
  <2>6. PICK row : row = Row(chain, w)
    OBVIOUS
  <2>7. Row(chain, w)' = row
    BY <1>2, <2>2, <2>6 DEF Row
  <2>8. row # NoTx => /\ InStage(w, row.tx, row.status, row.hash)
                      /\ Settled(row.tx, row.status, row.hash)
    BY <1>1, <2>6 DEF StageInv, StageOK
  <2>9. row # NoTx => row.status = "Approved" /\ row.tx = r.tx
    BY <1>1, <2>8 DEF InStage
  <2>10. row # NoTx => InStage(w, row.tx, row.status, row.hash)'
    BY <1>4, <2>1, <2>3, <2>9 DEF InStage
  <2>11. row # NoTx => Settled(row.tx, row.status, row.hash)'
    BY <2>8, <2>9 DEF Settled
  <2>12. StageOK(w)'
    BY <1>2, <2>4, <2>5, <2>7, <2>10, <2>11 DEF StageOK
  <2> QED BY <1>1, <1>2, <1>3, <2>12, StageFocus
<1> QED BY <1>6, <1>7

\* Where an id is whose message a device shows.
LEMMA HeldStage ==
  ASSUME TypeOK, StageInv, NEW d \in device
  PROVE  /\ d.id \in TxIds /\ Held(d.id) = {d} /\ Asked(d.id) = {}
         /\ Sending(d.id) = {} /\ Watched(d.id) = {}
         /\ Found(d.id) => /\ Store[d.id].status \in {"Unapproved", "Rejected"}
                           /\ Store[d.id].hash = NoHash
                           /\ Store[d.id].tx.nonce # NoNonce
<1>1. d.id \in TxIds /\ d \in Held(d.id)
  BY DEF TypeOK, DeviceRequests, Held
<1>2. OneStage(d.id)
  BY <1>1 DEF StageInv, StageOK
<1>3. /\ Held(d.id) = {d} /\ Asked(d.id) = {}
      /\ Sending(d.id) = {} /\ Watched(d.id) = {}
  BY <1>1, <1>2 DEF OneStage, Alone
<1>4. ASSUME Found(d.id)
      PROVE  /\ Store[d.id].status \in {"Unapproved", "Rejected"}
             /\ Store[d.id].hash = NoHash /\ Store[d.id].tx.nonce # NoNonce
  BY <1>1, <1>4, FoundStage DEF InStage, Settled
<1> QED BY <1>1, <1>3, <1>4

LEMMA StageFailed ==
  ASSUME TypeOK, StageInv, NEW id \in TxIds, KFailed(id)
  PROVE  StageInv'
<1>1. /\ Focus(id) /\ Lasting /\ chain' = chain
      /\ Writes(id, Store[id].tx, "Error", Store[id].hash)
      /\ UNCHANGED <<nonceRpc, receiptRpc>>
  BY FailedFocus, HereLasts DEF KFailed
<1>2. /\ Asked(id) = {} /\ Watched(id) = {}
      /\ Held(id)' = {} /\ Sending(id)' = {}
  <2>1. CASE /\ \E r \in sendRpc : r.id = id /\ sendRpc' = sendRpc \ {r}
             /\ device' = device
    <3>1. PICK r \in sendRpc : r.id = id /\ sendRpc' = sendRpc \ {r}
      BY <2>1
    <3>2. /\ Sending(id) = {r} /\ Asked(id) = {} /\ Held(id) = {}
          /\ Watched(id) = {}
      BY <3>1, SendingStage
    <3> QED BY <2>1, <3>1, <3>2 DEF Held, Sending
  <2>2. CASE /\ \E d \in device : d.id = id /\ device' = device \ {d}
             /\ sendRpc' = sendRpc
    <3>1. PICK d \in device : d.id = id /\ device' = device \ {d}
      BY <2>2
    <3>2. /\ Held(id) = {d} /\ Asked(id) = {} /\ Sending(id) = {}
          /\ Watched(id) = {}
      BY <3>1, HeldStage
    <3> QED BY <2>2, <3>1, <3>2 DEF Held, Sending
  <2> QED BY <2>1, <2>2 DEF KFailed
<1>3. Asked(id)' = {} /\ Watched(id)' = {}
  BY <1>1, <1>2 DEF Asked, Watched
<1>4. PICK tx, hash : tx = Store[id].tx /\ hash = Store[id].hash
  OBVIOUS
<1>5. OneStage(id)' /\ InStage(id, tx, "Error", hash)'
  BY <1>2, <1>3 DEF OneStage, InStage, Alone
<1>6. Settled(tx, "Error", hash)'
  BY DEF Settled
<1>7. StageOK(id)'
  BY <1>1, <1>4, <1>5, <1>6, StageWritten DEF StageInv
<1> QED BY <1>1, <1>7, StageFocus

LEMMA StageShown ==
  ASSUME TypeOK, StageInv, NEW id \in TxIds, KShown(id)
  PROVE  StageInv'
<1>1. /\ Focus(id) /\ Lasting /\ chain' = chain /\ Found(id)
      /\ Store[id].status = "Unapproved" /\ Store[id].tx.nonce # NoNonce
      /\ Store[id].tx.what.from \in HwAccounts
      /\ UNCHANGED <<txs, nonceRpc, sendRpc, receiptRpc, networkVars>>
  BY RecordFocus, HereLasts DEF KShown, HasStatus, Here
<1>2. /\ InStage(id, Store[id].tx, Store[id].status, Store[id].hash)
      /\ Settled(Store[id].tx, Store[id].status, Store[id].hash)
  BY <1>1, FoundStage
<1>3. Asked(id) = {} /\ Sending(id) = {} /\ Watched(id) = {}
  BY <1>1, <1>2 DEF InStage
<1>4. Asked(id)' = {} /\ Sending(id)' = {} /\ Watched(id)' = {}
  BY <1>1, <1>3 DEF Asked, Sending, Watched
<1>5. Alone(Held(id)')
  BY DEF KShown, Held, Alone
<1>6. OneStage(id)'
  BY <1>4, <1>5 DEF OneStage, Alone
<1>7. \A c \in Chains \ {chain} : Row(c, id)' = NoTx
  BY <1>1 DEF StageInv, StageOK, Row
<1>8. PICK row : row = Store[id]
  OBVIOUS
<1>9. Row(chain, id)' = row
  BY <1>1, <1>8 DEF Store, Row
<1>10. InStage(id, row.tx, row.status, row.hash)'
  BY <1>1, <1>4, <1>8 DEF InStage
<1>11. Settled(row.tx, row.status, row.hash)'
  BY <1>1, <1>2, <1>8 DEF Settled
<1>12. StageOK(id)'
  BY <1>1, <1>6, <1>7, <1>9, <1>10, <1>11 DEF StageOK
<1> QED BY <1>1, <1>12, StageFocus

LEMMA StageHwSigned ==
  ASSUME TypeOK, StageInv, NEW d \in device, NEW tx \in Txs, KHwSigned(d, tx)
  PROVE  StageInv'
<1> DEFINE w == d.id
<1>1. /\ w \in TxIds /\ Held(w) = {d} /\ Asked(w) = {}
      /\ Sending(w) = {} /\ Watched(w) = {}
      /\ Found(w) => Store[w].hash = NoHash /\ Store[w].tx.nonce # NoNonce
  BY HeldStage
<1>2. /\ Focus(w) /\ Found(w) /\ Lasting /\ chain' = chain
      /\ Writes(w, tx, "Approved", Store[w].hash)
      /\ tx.nonce = Store[w].tx.nonce /\ device' = device \ {d}
      /\ \E s \in SendRequests : /\ s.id = w /\ s.tx = tx
                                 /\ sendRpc' = sendRpc \cup {s}
      /\ UNCHANGED <<nonceRpc, receiptRpc>>
  BY HwSignedFocus, HereLasts DEF KHwSigned
<1> HIDE DEF w
<1>3. Asked(w)' = {} /\ Held(w)' = {} /\ Watched(w)' = {}
  BY <1>1, <1>2 DEF Asked, Held, Watched
<1>4. \A s \in Sending(w)' : s.tx = tx
  BY <1>1, <1>2 DEF Sending
<1>5. Alone(Sending(w)')
  BY <1>1, <1>2 DEF Sending, Alone
<1>6. OneStage(w)'
  BY <1>3, <1>5 DEF OneStage, Alone
<1>7. InStage(w, tx, "Approved", NoHash)'
  BY <1>3, <1>4 DEF InStage
<1>8. Settled(tx, "Approved", NoHash)'
  BY <1>1, <1>2 DEF Settled
<1>9. Writes(w, tx, "Approved", NoHash)
  BY <1>1, <1>2
<1>10. StageOK(w)'
  BY <1>1, <1>2, <1>6, <1>7, <1>8, <1>9, StageWritten DEF StageInv
<1> QED BY <1>1, <1>2, <1>10, StageFocus

LEMMA StageConfirmed ==
  ASSUME TypeOK, StageInv, NEW q \in receiptRpc, KConfirmed(q)
  PROVE  StageInv'
<1> DEFINE w == q.id
<1>1. w \in TxIds /\ q \in Watched(w)
  BY DEF TypeOK, ReceiptRequests, Watched
<1>2. /\ Focus(w) /\ Found(w) /\ Lasting /\ chain' = chain
      /\ Writes(w, Store[w].tx, "Confirmed", Store[w].hash)
      /\ q.hash \in mined[q.net] \ reverted[q.net]
      /\ receiptRpc' \subseteq receiptRpc
      /\ UNCHANGED <<nonceRpc, device, sendRpc, mined, reverted>>
  BY ConfirmedFocus, HereLasts DEF KConfirmed, Requests, Here, networkVars
<1> HIDE DEF w
<1>3. /\ InStage(w, Store[w].tx, Store[w].status, Store[w].hash)
      /\ Settled(Store[w].tx, Store[w].status, Store[w].hash)
      /\ OneStage(w)
  BY <1>1, <1>2, FoundStage
<1>4. /\ Store[w].hash = Store[w].tx /\ Store[w].tx.nonce # NoNonce
      /\ Store[w].hash = q.hash /\ q.net = chain
  BY <1>1, <1>3 DEF InStage, Settled
<1>5. Asked(w) = {} /\ Held(w) = {} /\ Sending(w) = {}
  BY <1>1, <1>3 DEF OneStage
<1>6. /\ Asked(w)' = {} /\ Held(w)' = {} /\ Sending(w)' = {}
      /\ Watched(w)' \subseteq Watched(w)
  BY <1>2, <1>5 DEF Asked, Held, Sending, Watched
<1>7. PICK tx : tx = Store[w].tx
  OBVIOUS
<1>8. OneStage(w)'
  BY <1>6 DEF OneStage, Alone
<1>9. InStage(w, tx, "Confirmed", tx)'
  BY <1>2, <1>3, <1>4, <1>6, <1>7 DEF InStage
<1>10. Settled(tx, "Confirmed", tx)'
  BY <1>2, <1>4, <1>7 DEF Settled
<1>11. Writes(w, tx, "Confirmed", tx)
  BY <1>2, <1>4, <1>7
<1>12. StageOK(w)'
  BY <1>1, <1>2, <1>8, <1>9, <1>10, <1>11, StageWritten DEF StageInv
<1> QED BY <1>1, <1>2, <1>12, StageFocus

LEMMA StageNext ==
  ASSUME PlainUse, IInv, PaymentInv, StageInv, [Next]_vars
  PROVE  StageInv'
<1>1. TypeOK /\ RowsAtHome /\ Kind
  BY IInvTypeOK, PaymentAtHome, KindOfStep
<1>2. CASE KQuiet
  <2>1. Lasting /\ chain' = chain
    BY <1>2 DEF KQuiet, Lasting, StageInv, PlainUse
  <2> QED BY <1>1, <1>2, <2>1, QuietFocus, StageQuiet
<1>3. CASE \E id \in TxIds : KHandedOut(id) \/ \E tx \in Txs : KCopied(id, tx)
  <2>1. /\ AsksForPending /\ Lasting /\ chain' = chain
    BY <1>3, SameReceipts
       DEF KHandedOut, KCopied, Lasting, Here, networkVars
  <2>2. UNCHANGED <<txs, nonceRpc, device, sendRpc>>
    BY <1>3 DEF KHandedOut, KCopied, Requests
  <2>3. \A id \in TxIds : Untouched(id)
    BY <2>2 DEF Untouched, Row, Asked, Held, Sending
  <2> QED BY <1>1, <2>1, <2>3, StageQuiet
<1>4. CASE \E c \in Chains, tx \in Txs : KMined(c, tx)
  <2>1. PICK c \in Chains, tx \in Txs : KMined(c, tx)
    BY <1>4
  <2>2. AsksForPending /\ \A id \in TxIds : Untouched(id)
    BY <1>1, <2>1, MinedFocus
  <2>3. Lasting /\ chain' = chain
    BY <1>1, <2>1 DEF KMined, Lasting, TypeOK
  <2> QED BY <1>1, <2>2, <2>3, StageQuiet
<1>5. CASE \E id \in TxIds, tx \in Txs :
             \/ KAdded(id, tx) \/ KSigned(id, tx)
             \/ \E status \in Status : KEdited(id, tx, status)
  BY <1>1, <1>5, StageAdded, StageSigned, StageEdited
<1>6. CASE \E id \in TxIds : \/ KFailed(id) \/ KShown(id)
                             \/ \E r \in NonceRequests : KAsked(id, r)
  BY <1>1, <1>6, StageFailed, StageShown, StageAsked
<1>7. CASE \E r \in nonceRpc : KNonceFailed(r)
  <2>1. PICK r \in nonceRpc : KNonceFailed(r)
    BY <1>7
  <2>2. r.meta.tx \in Txs
    BY <1>1, AskedType
  <2> QED BY <1>1, <2>1, <2>2, StageNonce
<1>8. CASE \E r \in nonceRpc, tx \in Txs : KNumbered(r, tx) \/ KAnswered(r, tx)
  BY <1>1, <1>8, StageNonce
<1>9. CASE \E r \in sendRpc : KSubmitted(r) \/ KSent(r)
  BY <1>1, <1>9, StageSend
<1>10. CASE \/ \E d \in device, tx \in Txs : KHwSigned(d, tx)
            \/ \E q \in receiptRpc : KConfirmed(q)
  BY <1>1, <1>10, StageHwSigned, StageConfirmed
<1> QED BY <1>1, <1>2, <1>3, <1>4, <1>5, <1>6, <1>7, <1>8, <1>9, <1>10 DEF Kind

LEMMA StageInit ==
  ASSUME Init
  PROVE  StageInv
<1>1. ASSUME NEW id \in TxIds
      PROVE  /\ \A c \in Chains : Row(c, id) = NoTx
             /\ Asked(id) = {} /\ Held(id) = {} /\ Sending(id) = {}
             /\ Watched(id) = {}
  BY DEF Init, Fresh, Row, EmptyStore, Asked, Held, Sending, Watched
<1>2. chain = DefaultChain /\ chain \in Chains
  BY ChainsAssumption DEF Init
<1>3. ASSUME NEW id \in TxIds
      PROVE  StageOK(id)
  BY <1>1, <1>2 DEF StageOK, OneStage, Alone
<1> QED BY <1>2, <1>3 DEF StageInv

(***************************************************************************)
(* Under PlainUse an id waits for one thing at a time, a nonce, a device,  *)
(* a node or receipts, and its row is as that stage leaves it.             *)
(***************************************************************************)
THEOREM StageInvariance ==
  ASSUME PlainUse
  PROVE  Spec => []StageInv
<1>1. Init => StageInv
  BY StageInit
<1>2. IInv /\ PaymentInv /\ StageInv /\ [Next]_vars => StageInv'
  BY StageNext
<1> QED BY <1>1, <1>2, Invariance, PaymentInvariance, PTL DEF Spec

\* A confirmed record has nothing under way but receipts.
LEMMA ConfirmedIsAlone ==
  ASSUME TypeOK, StageInv, NEW id \in TxIds, HasStatus(id, "Confirmed")
  PROVE  Asked(id) = {} /\ Held(id) = {} /\ Sending(id) = {}
BY FoundStage DEF HasStatus, InStage

\* Whatever step there is, it leaves a confirmed record alone or confirms it.
LEMMA ConfirmedStep ==
  ASSUME PlainUse, TypeOK, RowsAtHome, PaymentInv, StageInv, Kind,
         NEW id \in TxIds, HasStatus(id, "Confirmed")
  PROVE  \/ Untouched(id) \/ UNCHANGED txs
         \/ \E tx, hash : Writes(id, tx, "Confirmed", hash)
<1>1. /\ Asked(id) = {} /\ Held(id) = {} /\ Sending(id) = {}
      /\ Found(id) /\ Store[id].status = "Confirmed" /\ id \in used
  BY ConfirmedIsAlone, KnownIsUsed DEF HasStatus
<1>2. CASE KQuiet
  BY <1>2, QuietFocus
<1>3. CASE \E c \in Chains, tx \in Txs : KMined(c, tx)
  BY <1>3 DEF KMined
<1>4. CASE \E w \in TxIds, tx \in Txs :
             \/ KAdded(w, tx) \/ KSigned(w, tx)
             \/ \E status \in Status : KEdited(w, tx, status)
  <2>1. PICK w \in TxIds, tx \in Txs :
               \/ KAdded(w, tx) \/ KSigned(w, tx)
               \/ \E status \in Status : KEdited(w, tx, status)
    BY <1>4
  <2>2. w # id
    BY <1>1, <2>1
       DEF KAdded, KSigned, KEdited, PanelOffersApproval, HasStatus, PlainUse
  <2>3. Focus(w)
    BY <2>1, RecordFocus, SignedFocus
  <2> QED BY <2>2, <2>3 DEF Focus
<1>5. CASE \E w \in TxIds : KFailed(w)
  <2>1. PICK w \in TxIds : KFailed(w)
    BY <1>5
  <2>2. Sending(w) # {} \/ Held(w) # {}
    BY <2>1 DEF KFailed, Sending, Held
  <2> QED BY <1>1, <2>1, <2>2, FailedFocus DEF Focus
<1>6. CASE \E w \in TxIds : \/ KShown(w) \/ KHandedOut(w)
                            \/ \E r \in NonceRequests : KAsked(w, r)
                            \/ \E tx \in Txs : KCopied(w, tx)
  BY <1>6 DEF KShown, KHandedOut, KAsked, KCopied
<1>7. CASE \E r \in nonceRpc :
             KNonceFailed(r) \/ (\E tx \in Txs :
               KNumbered(r, tx) \/ KAnswered(r, tx))
  <2>1. PICK r \in nonceRpc :
          KNonceFailed(r) \/ \E tx : KNumbered(r, tx) \/ KAnswered(r, tx)
    BY <1>7
  <2>2. r \in Asked(r.meta.id)
    BY DEF Asked
  <2>3. Focus(r.meta.id)
    BY <2>1, AskedFocus
  <2> QED BY <1>1, <2>2, <2>3 DEF Focus
<1>8. CASE \E r \in sendRpc : KSubmitted(r) \/ KSent(r)
  <2>1. PICK r \in sendRpc : KSubmitted(r) \/ KSent(r)
    BY <1>8
  <2>2. r \in Sending(r.id)
    BY DEF Sending
  <2> QED BY <1>1, <2>1, <2>2, SendFocus DEF Focus
<1>9. CASE \E d \in device, tx \in Txs : KHwSigned(d, tx)
  <2>1. PICK d \in device, tx \in Txs : KHwSigned(d, tx)
    BY <1>9
  <2>2. d \in Held(d.id)
    BY DEF Held
  <2> QED BY <1>1, <2>1, <2>2, HwSignedFocus DEF Focus
<1>10. CASE \E q \in receiptRpc : KConfirmed(q)
  <2>1. PICK q \in receiptRpc : KConfirmed(q)
    BY <1>10
  <2>2. CASE q.id = id
    BY <2>1, <2>2 DEF KConfirmed
  <2> QED BY <2>1, <2>2, ConfirmedFocus DEF Focus
<1> QED BY <1>2, <1>3, <1>4, <1>5, <1>6, <1>7, <1>8, <1>9, <1>10 DEF Kind

FinalStep ==
  \A c \in Chains : \A id \in TxIds :
    txs[c][id] # NoTx /\ txs[c][id].status = "Confirmed" =>
      txs'[c][id] = NoTx \/ txs'[c][id].status = "Confirmed"

(***************************************************************************)
(* With one network, one approval per record, no late rejection and no     *)
(* nonces set by hand, a confirmed record stays confirmed until it goes:   *)
(* no answer to an earlier request takes it back.                          *)
(***************************************************************************)
THEOREM ConfirmedIsFinalAlways ==
  ASSUME PlainUse
  PROVE  Spec => ConfirmedIsFinal
<1>1. IInv /\ PaymentInv /\ StageInv /\ [Next]_vars => [FinalStep]_vars
  <2> SUFFICES ASSUME IInv, PaymentInv, StageInv, [Next]_vars,
                      NEW c \in Chains, NEW id \in TxIds, txs[c][id] # NoTx,
                      txs[c][id].status = "Confirmed"
               PROVE  txs'[c][id] = NoTx \/ txs'[c][id].status = "Confirmed"
    BY DEF FinalStep
  <2>1. TypeOK /\ RowsAtHome /\ Kind
    BY IInvTypeOK, PaymentAtHome, KindOfStep
  <2>2. c = chain /\ HasStatus(id, "Confirmed")
    BY DEF StageInv, StageOK, Row, HasStatus, Found, Store
  <2>3. \/ Untouched(id) \/ UNCHANGED txs
        \/ \E tx, hash : Writes(id, tx, "Confirmed", hash)
    BY <2>1, <2>2, ConfirmedStep
  <2>4. CASE Untouched(id) \/ UNCHANGED txs
    BY <2>4 DEF Untouched, Row
  <2>5. CASE \E tx, hash : Writes(id, tx, "Confirmed", hash)
    BY <2>2, <2>5 DEF Writes, Row
  <2> QED BY <2>3, <2>4, <2>5
<1>2. Spec => [][FinalStep]_vars
  BY <1>1, Invariance, PaymentInvariance, StageInvariance, PTL DEF Spec
<1> QED BY <1>2 DEF ConfirmedIsFinal, FinalStep

(***************************************************************************)
(* And it is a transaction that the chain has executed successfully.       *)
(***************************************************************************)
THEOREM ConfirmedSucceededAlways ==
  ASSUME PlainUse
  PROVE  Spec => []ConfirmedSucceeded
<1>1. StageInv => ConfirmedSucceeded
  <2> SUFFICES ASSUME StageInv, NEW c \in Chains, NEW id \in TxIds,
                      txs[c][id] # NoTx, txs[c][id].status = "Confirmed"
               PROVE  txs[c][id].hash \in mined[c] \ reverted[c]
    BY DEF ConfirmedSucceeded
  <2>1. StageOK(id) /\ Row(c, id) # NoTx /\ Row(c, id).status = "Confirmed"
    BY DEF StageInv, Row
  <2>2. c = chain
    BY <2>1 DEF StageOK
  <2> QED BY <2>1, <2>2 DEF StageOK, Settled, Row
<1> QED BY <1>1, StageInvariance, PTL

-----------------------------------------------------------------------------
(* The transactions of one payment have one nonce.                         *)

\* Transactions that have got a nonce, and all there are.
Numbered(t) ==
  \/ \E s \in sendRpc : s.tx = t
  \/ t \in gasRpc
  \/ \E c \in Chains : t \in pool[c]

Carried ==
  {t \in Txs : \/ Numbered(t)
               \/ \E r \in nonceRpc : r.meta.tx = t
               \/ \E c \in Chains, id \in TxIds :
                    Row(c, id) # NoTx /\ Row(c, id).tx = t}

SamePayment(t, u) ==
  t.what.req = u.what.req => t.what.from = u.what.from /\ t.nonce = u.nonce

\* A payment keeps its nonce, or has none yet and only the record it began as.
OneNonce ==
  /\ \A t \in Carried : t.what.req \in used
  /\ \A t, u \in Carried : SamePayment(t, u)

WithoutNonce ==
  /\ \A c \in Chains, id \in TxIds :
       Row(c, id) # NoTx /\ Row(c, id).tx.nonce = NoNonce =>
         Row(c, id).tx.what.req = id
  /\ \A r \in nonceRpc :
       r.meta.tx.nonce = NoNonce /\ r.meta.tx.what.req = r.meta.id
  /\ \A t \in Txs : Numbered(t) => t.nonce # NoNonce

\* A chain executes what its pool has, one transaction per nonce.
Executes(c) ==
  /\ mined[c] \subseteq pool[c]
  /\ \A t \in mined[c] : t.nonce \in Nat /\ t.nonce < count[c][t.what.from]
  /\ \A t, u \in mined[c] :
       t.what.from = u.what.from /\ t.nonce = u.nonce => t = u

PayInv == OneNonce /\ WithoutNonce /\ \A c \in Chains : Executes(c)

LEMMA CarriedRow ==
  ASSUME TypeOK, NEW id \in TxIds, Found(id)
  PROVE  Store[id].tx \in Carried
<1>1. chain \in Chains /\ Row(chain, id) # NoTx /\ Store[id] = Row(chain, id)
  BY FoundRow
<1>2. Store[id] \in Metas
  BY FoundRow
<1>3. Store[id].tx \in Txs
  BY <1>2 DEF Metas
<1> QED BY <1>1, <1>3 DEF Carried

LEMMA CarriedRequests ==
  ASSUME TypeOK
  PROVE  /\ \A r \in nonceRpc : r.meta.tx \in Carried
         /\ \A s \in sendRpc : s.tx \in Carried
         /\ gasRpc \subseteq Carried
         /\ \A c \in Chains : pool[c] \subseteq Carried
<1>1. \A r \in nonceRpc : r.meta.tx \in Txs
  BY AskedType
<1>2. \A s \in sendRpc : s.tx \in Txs
  BY DEF TypeOK, SendRequests
<1>3. gasRpc \subseteq Txs /\ \A c \in Chains : pool[c] \subseteq Txs
  BY DEF TypeOK
<1> QED BY <1>1, <1>2, <1>3 DEF Carried, Numbered

\* Nothing is carried that is not like something carried before.
LEMMA OneNonceKept ==
  ASSUME OneNonce, used \subseteq used',
         \A t \in Carried' : \E u \in Carried : Like(t, u)
  PROVE  OneNonce'
<1>1. \A t \in Carried' : t.what.req \in used'
  BY DEF OneNonce, Like
<1>2. ASSUME NEW t \in Carried', NEW u \in Carried'
      PROVE  SamePayment(t, u)
  <2>1. PICK t0 \in Carried : Like(t, t0)
    OBVIOUS
  <2>2. PICK u0 \in Carried : Like(u, u0)
    OBVIOUS
  <2> QED BY <2>1, <2>2 DEF OneNonce, SamePayment, Like
<1> QED BY <1>1, <1>2 DEF OneNonce, SamePayment

\* A step about the id w brings the transaction T.
Brings(w, T) ==
  /\ \A c \in Chains, id \in TxIds : Row(c, id)' # NoTx =>
       Row(c, id)' = Row(c, id) \/ (id = w /\ Row(c, id)'.tx = T)
  /\ \A r \in nonceRpc' :
       \/ r \in nonceRpc
       \/ r.meta.id = w /\ r.meta.tx = T /\ T.nonce = NoNonce
  /\ \A t \in Txs : Numbered(t)' =>
       Numbered(t) \/ (t = T /\ T.nonce # NoNonce)
  /\ used \subseteq used'

LEMMA PayBrought ==
  ASSUME OneNonce, WithoutNonce, NEW w \in TxIds, NEW T, Brings(w, T),
         \E u \in Carried : Like(T, u), T.nonce = NoNonce => T.what.req = w
  PROVE  OneNonce' /\ WithoutNonce'
<1>1. ASSUME NEW t \in Carried'
      PROVE  t \in Carried \/ t = T
  <2>1. t \in Txs
    BY DEF Carried
  <2>2. CASE Numbered(t)'
    BY <2>1, <2>2 DEF Brings, Carried
  <2>3. CASE \E r \in nonceRpc' : r.meta.tx = t
    BY <2>1, <2>3 DEF Brings, Carried
  <2>4. CASE \E c \in Chains, id \in TxIds :
               Row(c, id)' # NoTx /\ Row(c, id)'.tx = t
    BY <2>1, <2>4 DEF Brings, Carried
  <2> QED BY <2>2, <2>3, <2>4 DEF Carried
<1>2. \A t \in Carried' : \E u \in Carried : Like(t, u)
  BY <1>1 DEF Like
<1>3. OneNonce'
  BY <1>2, OneNonceKept DEF Brings
<1>4. WithoutNonce'
  BY DEF WithoutNonce, Brings
<1> QED BY <1>3, <1>4

LEMMA PayUnchanged ==
  ASSUME OneNonce, WithoutNonce, WritesNothing, nonceRpc' \subseteq nonceRpc,
         \A t \in Txs : Numbered(t)' => Numbered(t), used \subseteq used'
  PROVE  OneNonce' /\ WithoutNonce'
<1>1. \A t \in Carried' : t \in Carried
  BY DEF Carried, WritesNothing
<1>2. OneNonce'
  BY <1>1, OneNonceKept DEF Like
<1> QED BY <1>2 DEF WithoutNonce, WritesNothing

\* Nothing is executed in this step.
LEMMA ExecutesKept ==
  ASSUME TypeOK, TypeOK', \A c \in Chains : Executes(c), mined' = mined,
         \A c \in Chains : pool[c] \subseteq pool'[c],
         \A c \in Chains, a \in Accounts : count'[c][a] >= count[c][a]
  PROVE  \A c \in Chains : Executes(c)'
<1> SUFFICES ASSUME NEW c \in Chains
             PROVE  Executes(c)'
  OBVIOUS
<1>1. mined'[c] \subseteq pool'[c]
  BY DEF Executes
<1>2. ASSUME NEW t \in mined'[c]
      PROVE  t.nonce \in Nat /\ t.nonce < count'[c][t.what.from]
  <2>1. t.nonce \in Nat /\ t.nonce < count[c][t.what.from]
    BY <1>2 DEF Executes
  <2>2. t \in Txs
    BY <1>2 DEF TypeOK
  <2>3. t.what.from \in Accounts
    BY <2>2 DEF Txs, Contents
  <2>4. count[c][t.what.from] \in Nat /\ count'[c][t.what.from] \in Nat
    BY <2>3 DEF TypeOK
  <2> QED BY <2>1, <2>3, <2>4
<1> QED BY <1>1, <1>2 DEF Executes

LEMMA ExecutesHere ==
  ASSUME TypeOK, TypeOK', \A c \in Chains : Executes(c), Here
  PROVE  \A c \in Chains : Executes(c)'
<1>1. \A c \in Chains, a \in Accounts : count[c][a] \in Nat
  BY DEF TypeOK
<1>2. \A c \in Chains, a \in Accounts : count'[c][a] >= count[c][a]
  BY <1>1 DEF Here, networkVars
<1> QED BY <1>2, ExecutesKept DEF Here, networkVars

LEMMA ExecutesMined ==
  ASSUME TypeOK, \A c \in Chains : Executes(c), NEW net \in Chains,
         NEW tx \in Txs, KMined(net, tx)
  PROVE  \A c \in Chains : Executes(c)'
<1> SUFFICES ASSUME NEW c \in Chains
             PROVE  Executes(c)'
  OBVIOUS
<1>1. /\ tx \in pool[net] /\ tx.nonce = count[net][tx.what.from]
      /\ pool' = pool
      /\ mined'[c] = IF c = net THEN mined[c] \cup {tx} ELSE mined[c]
      /\ \A a \in Accounts : count'[c][a] =
           IF c = net /\ a = tx.what.from THEN count[c][a] + 1 ELSE count[c][a]
  BY DEF KMined, TypeOK
<1>2. /\ \A a \in Accounts : count[c][a] \in Nat
      /\ tx.what.from \in Accounts
      /\ \A t \in mined[c] : t.what.from \in Accounts
  BY DEF TypeOK, Txs, Contents
<1>3. ASSUME NEW t \in mined'[c]
      PROVE  t.nonce \in Nat /\ t.nonce < count'[c][t.what.from]
  <2>1. CASE t \in mined[c]
    BY <1>1, <1>2, <2>1 DEF Executes
  <2>2. CASE t = tx /\ c = net
    BY <1>1, <1>2, <2>2
  <2> QED BY <1>1, <2>1, <2>2
<1>4. ASSUME NEW t \in mined[c], c = net,
             t.what.from = tx.what.from, t.nonce = tx.nonce
      PROVE  FALSE
  BY <1>1, <1>2, <1>4 DEF Executes
<1> QED BY <1>1, <1>3, <1>4 DEF Executes

\* Or only of a payment nothing else is carried for.
LEMMA OneNonceSplit ==
  ASSUME OneNonce, used \subseteq used', NEW T, T.what.req \in used',
         \A t \in Carried' :
           t = T \/ (t \in Carried /\ t.what.req # T.what.req)
  PROVE  OneNonce'
<1>1. \A t \in Carried' : t.what.req \in used'
  BY DEF OneNonce
<1>2. \A t, u \in Carried' : SamePayment(t, u)
  BY DEF OneNonce, SamePayment
<1> QED BY <1>1, <1>2 DEF OneNonce, SamePayment

LEMMA BringsWritten ==
  ASSUME TypeOK, NEW w \in TxIds, NEW T, NEW status, NEW hash,
         Writes(w, T, status, hash), nonceRpc' \subseteq nonceRpc,
         gasRpc' \subseteq gasRpc, used \subseteq used',
         \A c \in Chains : pool'[c] = pool[c],
         \A s \in sendRpc' : s \in sendRpc \/ (s.tx = T /\ T.nonce # NoNonce)
  PROVE  Brings(w, T)
<1>1. \A t \in Txs : Numbered(t)' =>
        Numbered(t) \/ (t = T /\ T.nonce # NoNonce)
  BY DEF Numbered
<1>2. \A c \in Chains, id \in TxIds : Row(c, id)' # NoTx =>
        Row(c, id)' = Row(c, id) \/ (id = w /\ Row(c, id)'.tx = T)
  BY DEF Writes
<1> QED BY <1>1, <1>2 DEF Brings

LEMMA BringsSigned ==
  ASSUME TypeOK, NEW w \in TxIds, NEW T, NEW h, Signs(w, T, h),
         T.nonce # NoNonce, nonceRpc' \subseteq nonceRpc, Here,
         UNCHANGED <<gasRpc, used>>
  PROVE  /\ Brings(w, T)
         /\ \E status, hash : Writes(w, T, status, hash)
<1>1. \A c \in Chains : pool'[c] = pool[c]
  BY DEF Here, networkVars
<1>2. \A s \in sendRpc' : s \in sendRpc \/ (s.tx = T /\ T.nonce # NoNonce)
  BY DEF Signs
<1>3. PICK status, hash : Writes(w, T, status, hash)
  BY DEF Signs
<1> QED BY <1>1, <1>2, <1>3, BringsWritten

\* A record's own transaction, which has no nonce, gets its nonce.
LEMMA FirstNonce ==
  ASSUME TypeOK, PaymentInv, StageInv, OneNonce, WithoutNonce,
         NEW r \in nonceRpc, NEW T \in Txs, T.what = r.meta.tx.what,
         T.nonce # NoNonce, Brings(r.meta.id, T), nonceRpc' = nonceRpc \ {r},
         NEW status, NEW hash, Writes(r.meta.id, T, status, hash)
  PROVE  OneNonce' /\ WithoutNonce'
<1> DEFINE w == r.meta.id
<1>1. /\ w \in TxIds /\ Asked(w) = {r} /\ r.meta.tx \in Carried
      /\ r.meta.tx.nonce = NoNonce /\ r.meta.tx.what.req = w
  BY AskedStage, CarriedRequests DEF WithoutNonce
<1>2. T.what.req = w /\ w \in used
  BY <1>1 DEF OneNonce
<1> HIDE DEF w
<1>3. \A t \in Carried : t.what.req = w => t.nonce = NoNonce
  BY <1>1 DEF OneNonce, SamePayment
<1>4. ASSUME NEW t \in Carried', t # T
      PROVE  t \in Carried /\ t.what.req # w
  <2>1. t \in Txs
    BY DEF Carried
  <2>2. CASE Numbered(t)'
    <3>1. Numbered(t)
      BY <1>4, <2>1, <2>2 DEF Brings
    <3>2. t \in Carried /\ t.nonce # NoNonce
      BY <2>1, <3>1 DEF Carried, WithoutNonce
    <3> QED BY <1>3, <3>2
  <2>3. CASE \E a \in nonceRpc' : a.meta.tx = t
    <3>1. PICK a \in nonceRpc : a # r /\ a.meta.tx = t
      BY <2>3
    <3>2. a.meta.id # w
      BY <1>1, <3>1 DEF Asked
    <3> QED BY <3>1, <3>2, CarriedRequests DEF WithoutNonce
  <2>4. CASE \E c \in Chains, id \in TxIds :
               Row(c, id)' # NoTx /\ Row(c, id)'.tx = t
    <3>1. PICK c \in Chains, id \in TxIds :
                 Row(c, id)' # NoTx /\ Row(c, id)'.tx = t
      BY <2>4
    <3>2. ~(c = chain /\ id = w) /\ Row(c, id)' = Row(c, id)
      BY <1>4, <3>1 DEF Writes, w
    <3>3. t \in Carried
      BY <2>1, <3>1, <3>2 DEF Carried
    <3>4. ASSUME t.what.req = w
          PROVE  FALSE
      <4>1. id = w
        BY <1>3, <3>1, <3>2, <3>3, <3>4 DEF WithoutNonce
      <4>2. StageOK(w)
        BY <1>1 DEF StageInv
      <4> QED BY <3>1, <3>2, <4>1, <4>2 DEF StageOK
    <3> QED BY <3>3, <3>4
  <2> QED BY <2>2, <2>3, <2>4 DEF Carried
<1>5. OneNonce'
  <2>1. used \subseteq used'
    BY DEF Brings
  <2> QED BY <1>2, <1>4, <2>1, OneNonceSplit
<1>6. WithoutNonce'
  BY DEF WithoutNonce, Brings
<1> QED BY <1>5, <1>6

LEMMA PayAdded ==
  ASSUME TypeOK, PaymentInv, OneNonce, WithoutNonce, NEW id \in TxIds,
         NEW tx \in Txs, KAdded(id, tx)
  PROVE  OneNonce' /\ WithoutNonce'
<1>1. /\ \A c \in Chains : pool'[c] = pool[c]
      /\ UNCHANGED <<nonceRpc, sendRpc>> /\ gasRpc' \subseteq gasRpc
      /\ used' = used \cup {id} /\ id \notin used
      /\ Writes(id, tx, "Unapproved", NoHash)
  BY DEF KAdded, Here, networkVars
<1>2. Brings(id, tx)
  BY <1>1, BringsWritten
<1>3. CASE tx.what.req = id /\ tx.nonce = NoNonce
  <2>1. \A t \in Txs : Numbered(t)' => Numbered(t)
    BY <1>1 DEF Numbered
  <2>2. \A c \in Chains, i \in TxIds : Row(c, i)' # NoTx =>
          Row(c, i)' = Row(c, i) \/ Row(c, i)'.tx = tx
    BY <1>1 DEF Writes
  <2>3. \A t \in Carried' : t = tx \/ t \in Carried
    BY <1>1, <2>1, <2>2 DEF Carried
  <2>4. \A t \in Carried : t.what.req # id
    BY <1>1 DEF OneNonce
  <2>5. OneNonce'
    BY <1>1, <1>3, <2>3, <2>4, OneNonceSplit
  <2>6. WithoutNonce'
    BY <1>1, <1>2, <1>3, <2>1 DEF WithoutNonce, Brings
  <2> QED BY <2>5, <2>6
<1>4. CASE /\ tx.nonce # NoNonce
           /\ \/ \E old \in gasRpc : Like(tx, old)
              \/ \E i \in TxIds : Found(i) /\ Like(tx, Store[i].tx)
  <2>1. \E u \in Carried : Like(tx, u)
    BY <1>4, CarriedRow, CarriedRequests
  <2> QED BY <1>2, <1>4, <2>1, PayBrought
<1> QED BY <1>3, <1>4 DEF KAdded

LEMMA PayRecord ==
  ASSUME PlainUse, TypeOK, StageInv, OneNonce, WithoutNonce,
         NEW id \in TxIds, NEW tx \in Txs, NEW status,
         KCopied(id, tx) \/ KEdited(id, tx, status)
  PROVE  OneNonce' /\ WithoutNonce'
<1>1. Found(id) /\ Like(tx, Store[id].tx) /\ UNCHANGED <<used, nonceRpc>>
  BY DEF KCopied, KEdited, PlainUse, Requests, HasStatus
<1>2. /\ Store[id].tx \in Carried /\ Store[id] = Row(chain, id)
      /\ Row(chain, id) # NoTx /\ chain \in Chains
  BY <1>1, CarriedRow, FoundRow
<1>3. tx.nonce = NoNonce => tx.what.req = id
  BY <1>1, <1>2 DEF WithoutNonce, Like
<1>4. \A c \in Chains : pool'[c] = pool[c]
  BY DEF KCopied, KEdited, Here, networkVars
<1>5. CASE KCopied(id, tx)
  <2>1. Store[id].tx.nonce # NoNonce
    BY <1>1, <1>5, FoundStage DEF KCopied, HasStatus, Settled
  <2>2. tx.nonce # NoNonce /\ gasRpc' = gasRpc \cup {tx}
        /\ UNCHANGED <<txs, sendRpc>>
    BY <1>1, <1>5, <2>1 DEF KCopied, Like
  <2>3. \A t \in Txs : Numbered(t)' => Numbered(t) \/ t = tx
    BY <1>4, <2>2 DEF Numbered
  <2>4. Brings(id, tx)
    BY <1>1, <2>2, <2>3 DEF Brings, Row
  <2> QED BY <1>1, <1>2, <1>3, <2>4, PayBrought
<1>6. CASE KEdited(id, tx, status)
  <2>1. Brings(id, tx)
    BY <1>1, <1>4, <1>6, BringsWritten DEF KEdited, Requests
  <2> QED BY <1>1, <1>2, <1>3, <2>1, PayBrought
<1> QED BY <1>5, <1>6

LEMMA PaySigned ==
  ASSUME TypeOK, RowsAtHome, OneNonce, WithoutNonce, NEW id \in TxIds,
         NEW tx \in Txs, KSigned(id, tx)
  PROVE  OneNonce' /\ WithoutNonce'
<1>1. Found(id) /\ tx.nonce # NoNonce /\ Like(tx, Store[id].tx)
  BY DEF KSigned, HasStatus, PanelOffersApproval, Like
<1>2. Store[id].id = id /\ Store[id].tx \in Carried
  BY <1>1, FoundRow, CarriedRow
<1>3. Brings(id, tx)
  BY <1>1, <1>2, BringsSigned DEF KSigned
<1> QED BY <1>1, <1>2, <1>3, PayBrought

LEMMA PayAsked ==
  ASSUME TypeOK, RowsAtHome, OneNonce, WithoutNonce, NEW id \in TxIds, NEW r,
         KAsked(id, r)
  PROVE  OneNonce' /\ WithoutNonce'
<1>1. Found(id) /\ Store[id].tx.nonce = NoNonce
  BY DEF KAsked, PanelOffersApproval, HasStatus
<1>2. /\ Store[id].id = id /\ Store[id].tx \in Carried
      /\ chain \in Chains /\ Row(chain, id) # NoTx
      /\ Store[id] = Row(chain, id)
  BY <1>1, FoundRow, CarriedRow
<1>3. PICK row : row = Store[id]
  OBVIOUS
<1>4. /\ r.meta = row /\ nonceRpc' = nonceRpc \cup {r} /\ row.id = id
      /\ row.tx.nonce = NoNonce /\ row.tx.what.req = id
      /\ row.tx \in Carried
      /\ UNCHANGED <<txs, sendRpc, gasRpc, used, pool>>
  BY <1>1, <1>2, <1>3 DEF KAsked, WithoutNonce, Here, networkVars
<1>5. Brings(id, row.tx)
  BY <1>4 DEF Brings, Row, Numbered
<1> QED BY <1>4, <1>5, PayBrought DEF Like

LEMMA PayNonce ==
  ASSUME TypeOK, PaymentInv, StageInv, OneNonce, WithoutNonce,
         NEW r \in nonceRpc, NEW tx \in Txs,
         KAnswered(r, tx) \/ KNumbered(r, tx) \/ KNonceFailed(r)
  PROVE  OneNonce' /\ WithoutNonce'
<1>1. r.meta.id \in TxIds /\ r.meta.tx \in Carried
      /\ r.meta.tx.what.req = r.meta.id
  BY AskedType, CarriedRequests DEF WithoutNonce
<1>2. /\ nonceRpc' = nonceRpc \ {r} /\ UNCHANGED <<used, gasRpc>>
      /\ Here /\ \A c \in Chains : pool'[c] = pool[c]
  BY DEF KAnswered, KNumbered, KNonceFailed, Here, networkVars
<1>3. CASE KAnswered(r, tx)
  <2>1. /\ tx.nonce # NoNonce /\ tx.what = r.meta.tx.what
        /\ Signs(r.meta.id, tx, r.meta.hash)
    BY <1>3, NoNonceAssumption DEF KAnswered, Nonces
  <2>2. PICK status, hash : Writes(r.meta.id, tx, status, hash)
    BY <2>1 DEF Signs
  <2>3. Brings(r.meta.id, tx)
    BY <1>1, <1>2, <2>1, BringsSigned
  <2> QED BY <1>2, <2>1, <2>2, <2>3, FirstNonce
<1>4. CASE KNumbered(r, tx)
  <2>1. /\ tx.nonce # NoNonce /\ tx.what = r.meta.tx.what
        /\ Writes(r.meta.id, tx, r.meta.status, r.meta.hash)
        /\ sendRpc' = sendRpc
    BY <1>4, NoNonceAssumption DEF KNumbered, Nonces
  <2>2. Brings(r.meta.id, tx)
    BY <1>1, <1>2, <2>1, BringsWritten
  <2> QED BY <1>2, <2>1, <2>2, FirstNonce
<1>5. CASE KNonceFailed(r)
  <2>1. /\ Writes(r.meta.id, r.meta.tx, "Error", r.meta.hash)
        /\ sendRpc' = sendRpc
    BY <1>5 DEF KNonceFailed
  <2>2. Brings(r.meta.id, r.meta.tx)
    BY <1>1, <1>2, <2>1, BringsWritten
  <2>3. Like(r.meta.tx, r.meta.tx)
    BY DEF Like
  <2> QED BY <1>1, <2>2, <2>3, PayBrought
<1> QED BY <1>3, <1>4, <1>5

\* The transaction of a record is written as it is.
LEMMA PayRewritten ==
  ASSUME TypeOK, StageInv, OneNonce, WithoutNonce, NEW id \in TxIds,
         Found(id), NEW status, NEW hash,
         Writes(id, Store[id].tx, status, hash), Here,
         sendRpc' \subseteq sendRpc, UNCHANGED <<used, nonceRpc, gasRpc>>
  PROVE  OneNonce' /\ WithoutNonce'
<1>1. /\ Store[id].tx \in Carried /\ Store[id] = Row(chain, id)
      /\ chain \in Chains /\ Row(chain, id) # NoTx
  BY CarriedRow, FoundRow
<1>2. PICK tx : tx = Store[id].tx
  OBVIOUS
<1>3. tx \in Carried /\ Like(tx, tx)
  BY <1>1, <1>2 DEF Like
<1>4. tx.nonce = NoNonce => tx.what.req = id
  BY <1>1, <1>2 DEF WithoutNonce
<1>5. \A c \in Chains : pool'[c] = pool[c]
  BY DEF Here, networkVars
<1>6. Brings(id, tx)
  BY <1>2, <1>5, BringsWritten
<1> QED BY <1>3, <1>4, <1>6, PayBrought

LEMMA PayHwSigned ==
  ASSUME TypeOK, StageInv, OneNonce, WithoutNonce, NEW d \in device,
         NEW tx \in Txs, KHwSigned(d, tx)
  PROVE  OneNonce' /\ WithoutNonce'
<1>1. /\ d.id \in TxIds /\ Found(d.id)
      /\ Store[d.id].tx \in Carried /\ Store[d.id].tx.nonce # NoNonce
  BY HeldStage, CarriedRow DEF KHwSigned
<1>2. Like(tx, Store[d.id].tx) /\ tx.nonce # NoNonce
  BY <1>1 DEF KHwSigned, Like
<1>3. \A s \in sendRpc' : s \in sendRpc \/ (s.tx = tx /\ tx.nonce # NoNonce)
  BY <1>2 DEF KHwSigned
<1>4. PICK status, hash : Writes(d.id, tx, status, hash)
  BY DEF KHwSigned
<1>5. \A c \in Chains : pool'[c] = pool[c]
  BY DEF KHwSigned, Here, networkVars
<1>6. Brings(d.id, tx)
  BY <1>1, <1>3, <1>4, <1>5, BringsWritten DEF KHwSigned
<1> QED BY <1>1, <1>2, <1>6, PayBrought

\* What a node gets.
LEMMA PaySent ==
  ASSUME TypeOK, OneNonce, WithoutNonce, NEW r \in sendRpc, KSent(r)
  PROVE  OneNonce' /\ WithoutNonce'
<1>1. r.tx \in Carried /\ r.tx \in Txs /\ r.id \in TxIds
  BY CarriedRequests DEF TypeOK, SendRequests
<1>2. Numbered(r.tx)
  BY DEF Numbered
<1>3. \A t \in Txs : Numbered(t)' => Numbered(t)
  <2>1. \A s \in sendRpc' : s.tx = r.tx \/ s \in sendRpc
    BY DEF KSent
  <2>2. \A c \in Chains : pool'[c] \subseteq pool[c] \cup {r.tx}
    BY DEF KSent
  <2> QED BY <1>2, <2>1, <2>2 DEF Numbered, KSent
<1>4. WritesNothing /\ UNCHANGED <<nonceRpc, used>>
  BY SameRows DEF KSent
<1> QED BY <1>3, <1>4, PayUnchanged

LEMMA PayHandedOut ==
  ASSUME TypeOK, StageInv, OneNonce, WithoutNonce, NEW id \in TxIds,
         KHandedOut(id)
  PROVE  OneNonce' /\ WithoutNonce'
<1>1. Found(id) /\ Store[id].status = "Signed"
  BY DEF KHandedOut, HasStatus
<1>2. Store[id].hash = Store[id].tx /\ Store[id].tx.nonce # NoNonce
  BY <1>1, FoundStage DEF Settled
<1>3. PICK tx : tx = Store[id].tx
  OBVIOUS
<1>4. tx \in Carried /\ tx.nonce # NoNonce /\ Like(tx, tx)
  BY <1>1, <1>2, <1>3, CarriedRow DEF Like
<1>5. \A c \in Chains : pool'[c] \subseteq pool[c] \cup {tx}
  BY <1>2, <1>3 DEF KHandedOut
<1>6. UNCHANGED <<txs, used, nonceRpc, sendRpc, gasRpc>>
  BY DEF KHandedOut, Requests
<1>7. Brings(id, tx)
  BY <1>4, <1>5, <1>6 DEF Brings, Row, Numbered
<1> QED BY <1>4, <1>7, PayBrought

LEMMA PayNext ==
  ASSUME PlainUse, IInv, PaymentInv, StageInv, PayInv, [Next]_vars, TypeOK'
  PROVE  PayInv'
<1>1. /\ TypeOK /\ RowsAtHome /\ Kind
      /\ OneNonce /\ WithoutNonce /\ \A c \in Chains : Executes(c)
  BY IInvTypeOK, PaymentAtHome, KindOfStep DEF PayInv
<1>3. CASE KQuiet
  <2>1. /\ WritesNothing /\ nonceRpc' \subseteq nonceRpc /\ used' = used
        /\ sendRpc' \subseteq sendRpc /\ gasRpc' \subseteq gasRpc
        /\ UNCHANGED <<pool, mined>>
        /\ \A c \in Chains, a \in Accounts : count'[c][a] >= count[c][a]
    BY <1>3 DEF KQuiet
  <2>2. \A t \in Txs : Numbered(t)' => Numbered(t)
    BY <2>1 DEF Numbered
  <2>3. OneNonce' /\ WithoutNonce'
    BY <1>1, <2>1, <2>2, PayUnchanged
  <2> QED BY <1>1, <2>1, <2>3, ExecutesKept DEF PayInv
<1>4. CASE \E c \in Chains, tx \in Txs : KMined(c, tx)
  <2>1. PICK c \in Chains, tx \in Txs : KMined(c, tx)
    BY <1>4
  <2>2. /\ WritesNothing /\ \A t \in Txs : Numbered(t)' => Numbered(t)
        /\ UNCHANGED <<nonceRpc, used>>
    BY <2>1, SameRows DEF KMined, Requests, Numbered
  <2>3. OneNonce' /\ WithoutNonce'
    BY <1>1, <2>2, PayUnchanged
  <2> QED BY <1>1, <2>1, <2>3, ExecutesMined DEF PayInv
<1>5. CASE \/ \E id \in TxIds : KHandedOut(id)
           \/ \E r \in sendRpc : KSent(r)
  <2>1. OneNonce' /\ WithoutNonce'
    BY <1>1, <1>5, PayHandedOut, PaySent
  <2>2. /\ mined' = mined /\ count' = count
        /\ \A c \in Chains : pool[c] \subseteq pool'[c]
    BY <1>5 DEF KHandedOut, KSent
  <2>3. \A c \in Chains, a \in Accounts : count'[c][a] >= count[c][a]
    BY <1>1, <2>2 DEF TypeOK
  <2> QED BY <1>1, <2>1, <2>2, <2>3, ExecutesKept DEF PayInv
<1>6. ASSUME Here, OneNonce', WithoutNonce'
      PROVE  PayInv'
  BY <1>1, <1>6, ExecutesHere DEF PayInv
<1>7. CASE \E id \in TxIds, tx \in Txs :
             \/ KAdded(id, tx) \/ KCopied(id, tx) \/ KSigned(id, tx)
             \/ \E status \in Status : KEdited(id, tx, status)
  <2>1. OneNonce' /\ WithoutNonce'
    BY <1>1, <1>7, PayAdded, PayRecord, PaySigned
  <2>2. Here
    BY <1>7 DEF KAdded, KCopied, KSigned, KEdited
  <2> QED BY <1>6, <2>1, <2>2
<1>8. CASE \E id \in TxIds : \E r \in NonceRequests : KAsked(id, r)
  <2>1. OneNonce' /\ WithoutNonce'
    BY <1>1, <1>8, PayAsked
  <2>2. Here
    BY <1>8 DEF KAsked
  <2> QED BY <1>6, <2>1, <2>2
<1>9. CASE \/ \E id \in TxIds : KFailed(id)
           \/ \E r \in sendRpc : KSubmitted(r)
           \/ \E q \in receiptRpc : KConfirmed(q)
  <2>1. \E id \in TxIds : \E status, hash :
          /\ Found(id) /\ Writes(id, Store[id].tx, status, hash)
          /\ Here /\ sendRpc' \subseteq sendRpc
          /\ UNCHANGED <<used, nonceRpc, gasRpc>>
    <3>1. CASE \E id \in TxIds : KFailed(id)
      BY <3>1 DEF KFailed
    <3>2. CASE \E r \in sendRpc : KSubmitted(r)
      <4>1. \A r \in sendRpc : r.id \in TxIds
        BY <1>1 DEF TypeOK, SendRequests
      <4> QED BY <3>2, <4>1 DEF KSubmitted
    <3>3. CASE \E q \in receiptRpc : KConfirmed(q)
      <4>1. \A q \in receiptRpc : q.id \in TxIds
        BY <1>1 DEF TypeOK, ReceiptRequests
      <4> QED BY <3>3, <4>1 DEF KConfirmed, Requests
    <3> QED BY <1>9, <3>1, <3>2, <3>3
  <2>2. PICK id \in TxIds : \E status, hash :
          /\ Found(id) /\ Writes(id, Store[id].tx, status, hash)
          /\ Here /\ sendRpc' \subseteq sendRpc
          /\ UNCHANGED <<used, nonceRpc, gasRpc>>
    BY <2>1
  <2> QED BY <1>1, <1>6, <2>2, PayRewritten
<1>10. CASE \E id \in TxIds : KShown(id)
  <2>1. /\ UNCHANGED <<txs, used, nonceRpc, sendRpc, gasRpc, pool>> /\ Here
    BY <1>10 DEF KShown, Here, networkVars
  <2>2. WritesNothing /\ \A t \in Txs : Numbered(t)' => Numbered(t)
    BY <2>1, SameRows DEF Numbered
  <2>3. OneNonce' /\ WithoutNonce'
    BY <1>1, <2>1, <2>2, PayUnchanged
  <2> QED BY <1>6, <2>1, <2>3
<1>11. CASE \E r \in nonceRpc :
              KNonceFailed(r) \/ (\E tx \in Txs :
               KNumbered(r, tx) \/ KAnswered(r, tx))
  <2>1. PICK r \in nonceRpc, tx \in Txs :
               KNonceFailed(r) \/ KNumbered(r, tx) \/ KAnswered(r, tx)
    BY <1>1, <1>11, AskedType
  <2>2. Here
    BY <2>1 DEF KNonceFailed, KNumbered, KAnswered
  <2> QED BY <1>1, <1>6, <2>1, <2>2, PayNonce
<1>12. CASE \E d \in device, tx \in Txs : KHwSigned(d, tx)
  <2>1. PICK d \in device, tx \in Txs : KHwSigned(d, tx)
    BY <1>12
  <2>2. Here
    BY <2>1 DEF KHwSigned
  <2> QED BY <1>1, <1>6, <2>1, <2>2, PayHwSigned
<1> QED BY <1>1, <1>3, <1>4, <1>5, <1>7, <1>8, <1>9, <1>10, <1>11, <1>12
        DEF Kind

LEMMA PayInit ==
  ASSUME Init
  PROVE  PayInv
<1>1. /\ nonceRpc = {} /\ \A t \in Txs : ~Numbered(t)
      /\ \A c \in Chains, id \in TxIds : Row(c, id) = NoTx
  BY DEF Init, Fresh, Row, EmptyStore, Numbered
<1>2. Carried = {}
  BY <1>1 DEF Carried
<1>3. \A c \in Chains : Executes(c)
  BY DEF Init, Executes
<1> QED BY <1>1, <1>2, <1>3 DEF PayInv, OneNonce, WithoutNonce

(***************************************************************************)
(* Under PlainUse all transactions of a payment, in whatever record,       *)
(* request, device or node they are, have one nonce, and a chain executes  *)
(* one transaction for a nonce.                                            *)
(***************************************************************************)
THEOREM PayInvariance ==
  ASSUME PlainUse
  PROVE  Spec => []PayInv
<1>1. Init => PayInv
  BY PayInit
<1>2. IInv /\ PaymentInv /\ StageInv /\ PayInv /\ [Next]_vars /\ TypeOK' =>
        PayInv'
  BY PayNext
<1> QED BY <1>1, <1>2, Invariance, TypeCorrect, PaymentInvariance,
           StageInvariance, PTL
        DEF Spec

LEMMA OncePerPayment ==
  ASSUME TypeOK, PayInv, NEW c \in Chains, NEW t \in mined[c],
         NEW u \in mined[c], t.what.req = u.what.req
  PROVE  t = u
<1>1. Executes(c) /\ t \in pool[c] /\ u \in pool[c]
  BY DEF PayInv, Executes
<1>2. t \in Carried /\ u \in Carried
  BY <1>1, CarriedRequests
<1>3. SamePayment(t, u)
  BY <1>2 DEF PayInv, OneNonce
<1> QED BY <1>1, <1>3 DEF Executes, SamePayment

(***************************************************************************)
(* With one network, one approval per record, no late rejection and no     *)
(* nonces set by hand, a payment is executed at most once, through any     *)
(* number of speedups, cancellations, retries, restarts, resets and        *)
(* foreign transactions.                                                   *)
(***************************************************************************)
THEOREM PaidAtMostOnceAlways ==
  ASSUME PlainUse
  PROVE  Spec => []PaidAtMostOnce
<1>1. IInv /\ PayInv => PaidAtMostOnce
  BY IInvTypeOK, OncePerPayment DEF PaidAtMostOnce
<1> QED BY <1>1, Invariance, PayInvariance, PTL

-----------------------------------------------------------------------------
(* The manager implements the wallet of WalletPayments.                    *)

\* What a step means to the wallet.
Approves ==
  /\ \E what \in Contents, c \in Chains :
       approved' = approved \cup {[what |-> what, chain |-> c]}
  /\ UNCHANGED <<pool, mined>>

Accepts ==
  /\ \E c \in Chains, tx \in Txs : pool' = [pool EXCEPT ![c] = @ \cup {tx}]
  /\ UNCHANGED <<approved, mined>>

Mines ==
  /\ \E c \in Chains : \E tx \in pool[c] \ mined[c] :
       mined' = [mined EXCEPT ![c] = @ \cup {tx}]
  /\ UNCHANGED <<approved, pool>>

LEMMA StepOfWallet ==
  ASSUME TypeOK, TypeOK', [Next]_vars
  PROVE  \/ Approves \/ Accepts \/ Mines
         \/ UNCHANGED <<approved, pool, mined>>
<1>1. CASE \E id \in TxIds : \/ ApproveTransaction(id)
                             \/ GetTransactionMessageToSign(id)
  <2>1. PICK id \in TxIds : \/ ApproveTransaction(id)
                            \/ GetTransactionMessageToSign(id)
    BY <1>1
  <2>2. Found(id) /\ chain \in Chains
    BY <2>1 DEF ApproveTransaction, GetTransactionMessageToSign,
       PanelOffersApproval, HasStatus, TypeOK
  <2>3. Store[id] \in Metas
    BY <2>2, FoundRow
  <2>4. Store[id].tx \in Txs
    BY <2>3 DEF Metas
  <2>5. /\ Store[id].tx.what \in Contents
        /\ SigningChain(Store[id].tx, chain) \in Chains
    BY <2>2, <2>4 DEF Txs, SigningChain
  <2>6. approved' = approved \cup
          {[what  |-> Store[id].tx.what,
            chain |-> SigningChain(Store[id].tx, chain)]}
    BY <2>1 DEF ApproveTransaction, GetTransactionMessageToSign, SignatureOf
  <2>7. UNCHANGED <<pool, mined>>
    BY <2>1 DEF ApproveTransaction, GetTransactionMessageToSign, networkVars
  <2> QED BY <2>5, <2>6, <2>7 DEF Approves
<1>2. CASE \E r \in sendRpc : NodeAccepts(r)
  <2>1. \A r \in sendRpc : r.net \in Chains /\ r.tx \in Txs
    BY DEF TypeOK, SendRequests
  <2> QED BY <1>2, <2>1 DEF NodeAccepts, Accepts
<1>3. CASE \E id \in TxIds : DappSubmits(id)
  <2>1. PICK id \in TxIds : DappSubmits(id)
    BY <1>3
  <2>2. PICK tx, c : pool' = [pool EXCEPT ![c] = @ \cup {tx}]
    BY <2>1 DEF DappSubmits
  <2>3. UNCHANGED <<approved, mined>>
    BY <2>1 DEF DappSubmits
  <2>4. CASE c \in Chains
    <3>1. tx \in pool'[c]
      BY <2>2, <2>4 DEF TypeOK
    <3>2. tx \in Txs
      BY <2>4, <3>1 DEF TypeOK
    <3> QED BY <2>2, <2>3, <2>4, <3>2 DEF Accepts
  <2>5. CASE c \notin Chains
    BY <2>2, <2>3, <2>5 DEF TypeOK
  <2> QED BY <2>4, <2>5
<1>4. CASE \E c \in Chains : \E tx \in pool[c], reverts \in BOOLEAN :
             Mine(c, tx, reverts)
  BY <1>4 DEF Mine, Mines
<1>5. CASE UNCHANGED vars
  BY <1>5 DEF vars, networkVars
<1>6. CASE \/ \E id \in TxIds, from \in Accounts, signOnly \in BOOLEAN,
                 chainId \in Chains \cup {NoChain} :
                AddUnapprovedTransaction(id, from, signOnly, chainId)
           \/ \E id, newId \in TxIds : RetryTransaction(id, newId)
           \/ \E id \in TxIds, cancel \in BOOLEAN :
                SpeedupOrCancelTransaction(id, cancel)
           \/ \E id \in TxIds : SetGasOrDataForUnapprovedTransaction(id)
           \/ \E id \in TxIds, nonce \in OptNonces :
                SetNonceForUnapprovedTransaction(id, nonce)
           \/ \E id \in TxIds : RejectTransaction(id)
           \/ \E id \in TxIds : GetNonceForHardwareTransaction(id)
  BY <1>6 DEF AddUnapprovedTransaction, RetryTransaction,
     SpeedupOrCancelTransaction, SetGasOrDataForUnapprovedTransaction,
     SetNonceForUnapprovedTransaction, RejectTransaction,
     GetNonceForHardwareTransaction, networkVars
<1>7. CASE \/ Lock
           \/ \E notice \in {"Unlocked", "KeyringCreated"} : Unlock(notice)
           \/ \E c \in Chains : SetNetwork(c)
           \/ Reset \/ Restart
           \/ \E r \in sendRpc : NodeRefuses(r)
           \/ \E c \in Chains, a \in Accounts : MineForeign(c, a)
  BY <1>7 DEF Lock, Unlock, SetNetwork, Reset, Restart, NodeRefuses,
     MineForeign, networkVars
<1>8. CASE Callback
  BY <1>8 DEF Callback, ContinueSpeedupOrCancelTransaction, GasEstimateFails,
     OnGetNextNonce, OnGetNextNonceForHardware, GetNextNonceFails,
     ProcessHardwareSignature, OnPublishTransaction, GetBlockNumber, OnNewBlock,
     OnSameBlock, OnGetTxReceipt, NoTxReceipt, OnGetNetworkNonce,
     OnKeyringNotice, networkVars
<1> QED BY <1>1, <1>2, <1>3, <1>4, <1>5, <1>6, <1>7, <1>8
        DEF Next, UserStep, NetworkStep


LEMMA ContentsAdded ==
  ASSUME NEW A, NEW x
  PROVE  {a.what : a \in A \cup {x}} = {a.what : a \in A} \cup {x.what}
OBVIOUS

LEMMA ApprovalConsents ==
  ASSUME Approves
  PROVE  \E v \in Contents : Wallet!Consent(v)
<1>1. PICK what \in Contents, c \in Chains :
        approved' = approved \cup {[what |-> what, chain |-> c]}
  BY DEF Approves
<1>2. {a.what : a \in approved'} = {a.what : a \in approved} \cup {what}
  <2> DEFINE x == [what |-> what, chain |-> c]
  <2>1. x.what = what
    OBVIOUS
  <2> HIDE DEF x
  <2>2. approved' = approved \cup {x}
    BY <1>1 DEF x
  <2> QED BY <2>1, <2>2, ContentsAdded
<1>3. pool' = pool /\ mined' = mined
  BY DEF Approves
<1>4. /\ ContentsOf(pool[DefaultChain])' = ContentsOf(pool[DefaultChain])
      /\ ExecutionsOn(DefaultChain)' = ExecutionsOn(DefaultChain)
  BY <1>3 DEF ContentsOf, ExecutionsOn
<1>5. Wallet!Consent(what)
  BY <1>2, <1>4 DEF Wallet!Consent
<1> QED BY <1>5

LEMMA AcceptanceOffers ==
  ASSUME TypeOK, TypeOK', SentWasApproved', Accepts
  PROVE  (\E v \in Contents : Wallet!Offer(v)) \/ UNCHANGED Wallet!pvars
<1>1. PICK c \in Chains, tx \in Txs : pool' = [pool EXCEPT ![c] = @ \cup {tx}]
  BY DEF Accepts
<1>2. approved' = approved /\ mined' = mined
  BY DEF Accepts
<1>3. ExecutionsOn(DefaultChain)' = ExecutionsOn(DefaultChain)
  BY <1>2 DEF ExecutionsOn
<1>4. CASE c = DefaultChain
  <2>1. pool'[DefaultChain] = pool[DefaultChain] \cup {tx}
    BY <1>1, <1>4 DEF TypeOK
  <2>2. tx.what \in Contents /\ tx \in pool'[c]
    BY <1>1, <1>4, <2>1 DEF Txs
  <2>3. [what |-> tx.what, chain |-> c] \in approved
    BY <1>2, <2>2 DEF SentWasApproved
  <2>4. tx.what \in {a.what : a \in approved}
    BY <2>3
  <2>5. ContentsOf(pool[DefaultChain])' =
          ContentsOf(pool[DefaultChain]) \cup {tx.what}
    BY <2>1 DEF ContentsOf
  <2>6. Wallet!Offer(tx.what)
    BY <1>2, <1>3, <2>4, <2>5 DEF Wallet!Offer
  <2> QED BY <2>2, <2>6
<1>5. CASE c # DefaultChain
  <2>1. pool'[DefaultChain] = pool[DefaultChain]
    BY <1>1, <1>5, ChainsAssumption DEF TypeOK
  <2>2. ContentsOf(pool[DefaultChain])' = ContentsOf(pool[DefaultChain])
    BY <2>1 DEF ContentsOf
  <2> QED BY <1>2, <1>3, <2>2 DEF Wallet!pvars
<1> QED BY <1>4, <1>5

LEMMA MiningExecutes ==
  ASSUME TypeOK, TypeOK', PaidAtMostOnce', Mines
  PROVE  (\E v \in Contents : Wallet!Execute(v)) \/ UNCHANGED Wallet!pvars
<1>1. PICK c \in Chains : \E tx \in pool[c] \ mined[c] :
        mined' = [mined EXCEPT ![c] = @ \cup {tx}]
  BY DEF Mines
<1>2. PICK tx \in pool[c] \ mined[c] :
        mined' = [mined EXCEPT ![c] = @ \cup {tx}]
  BY <1>1
<1>3. approved' = approved /\ pool' = pool
  BY DEF Mines
<1>4. ContentsOf(pool[DefaultChain])' = ContentsOf(pool[DefaultChain])
  BY <1>3 DEF ContentsOf
<1>5. CASE c # DefaultChain
  <2>1. mined'[DefaultChain] = mined[DefaultChain]
    BY <1>2, <1>5, ChainsAssumption DEF TypeOK
  <2>2. ExecutionsOn(DefaultChain)' = ExecutionsOn(DefaultChain)
    BY <2>1 DEF ExecutionsOn
  <2> QED BY <1>3, <1>4, <2>2 DEF Wallet!pvars
<1>6. CASE c = DefaultChain
  <2> DEFINE before(p) == {t \in mined[DefaultChain] : t.what.req = p}
             after(p)  == {t \in mined'[DefaultChain] : t.what.req = p}
             paid == tx.what.req
  <2>1. mined'[DefaultChain] = mined[DefaultChain] \cup {tx}
    BY <1>2, <1>6 DEF TypeOK
  <2>2. /\ tx \in Txs /\ tx \in pool[DefaultChain]
        /\ tx \notin mined[DefaultChain]
    BY <1>2, <1>6 DEF TypeOK
  <2>3. tx.what \in Contents /\ paid \in TxIds
    BY <2>2 DEF Txs, Contents
  <2>4. \A p \in TxIds \ {paid} : after(p) = before(p)
    BY <2>1
  <2>5. after(paid) = {tx}
    BY <2>1, ChainsAssumption DEF PaidAtMostOnce
  <2>6. before(paid) = {}
    BY <2>1, <2>2, <2>5
  <2>7. Cardinality(after(paid)) = 1 /\ Cardinality(before(paid)) = 0
    BY <2>5, <2>6, FS_Singleton, FS_EmptySet
  <2>8. /\ ExecutionsOn(DefaultChain) =
             [p \in TxIds |-> Cardinality(before(p))]
        /\ ExecutionsOn(DefaultChain)' =
             [p \in TxIds |-> Cardinality(after(p))]
    BY DEF ExecutionsOn
  <2> HIDE DEF before, after
  <2>9. ExecutionsOn(DefaultChain)' =
          [ExecutionsOn(DefaultChain) EXCEPT ![paid] = 1]
    BY <2>3, <2>4, <2>7, <2>8
  <2>10. ExecutionsOn(DefaultChain)[paid] = 0
    BY <2>3, <2>7, <2>8
  <2>11. tx.what \in ContentsOf(pool[DefaultChain])
    BY <2>2 DEF ContentsOf
  <2>12. [what \in Contents |-> what.req][tx.what] = paid
    BY <2>3
  <2>13. Wallet!Execute(tx.what)
    BY <1>3, <1>4, <2>9, <2>10, <2>11, <2>12 DEF Wallet!Execute
  <2> QED BY <2>3, <2>13
<1> QED BY <1>5, <1>6

LEMMA WalletInit ==
  ASSUME Init
  PROVE  Wallet!Init
<1>1. mined[DefaultChain] = {} /\ pool[DefaultChain] = {} /\ approved = {}
  BY ChainsAssumption DEF Init
<1>2. ContentsOf(pool[DefaultChain]) = {}
  BY <1>1 DEF ContentsOf
<1>3. \A p \in TxIds : {tx \in mined[DefaultChain] : tx.what.req = p} = {}
  BY <1>1
<1>4. ExecutionsOn(DefaultChain) = [p \in TxIds |-> 0]
  BY <1>3, FS_EmptySet DEF ExecutionsOn
<1>5. {a.what : a \in approved} = {}
  BY <1>1
<1> QED BY <1>2, <1>4, <1>5 DEF Wallet!Init

LEMMA WalletNext ==
  ASSUME TypeOK, TypeOK', SentWasApproved', PaidAtMostOnce', [Next]_vars
  PROVE  [Wallet!Next]_(Wallet!pvars)
<1>1. CASE UNCHANGED <<approved, pool, mined>>
  <2>1. /\ ContentsOf(pool[DefaultChain])' = ContentsOf(pool[DefaultChain])
        /\ ExecutionsOn(DefaultChain)' = ExecutionsOn(DefaultChain)
    BY <1>1 DEF ContentsOf, ExecutionsOn
  <2> QED BY <1>1, <2>1 DEF Wallet!pvars
<1>2. CASE Approves \/ Accepts \/ Mines
  <2>1. \/ \E v \in Contents :
             Wallet!Consent(v) \/ Wallet!Offer(v) \/ Wallet!Execute(v)
        \/ UNCHANGED Wallet!pvars
    BY <1>2, ApprovalConsents, AcceptanceOffers, MiningExecutes
  <2> QED BY <2>1 DEF Wallet!Next
<1> QED BY <1>1, <1>2, StepOfWallet

(***************************************************************************)
(* The same surroundings given, the manager, its requests, its records,    *)
(* its nodes and its chain together are a wallet as WalletPayments has it. *)
(***************************************************************************)
THEOREM WalletImplemented ==
  ASSUME PlainUse
  PROVE  Spec => ImplementsWallet
<1>1. Init => Wallet!Init
  BY WalletInit
<1>2. TypeOK /\ TypeOK' /\ SentWasApproved' /\ PaidAtMostOnce' /\ [Next]_vars
        => [Wallet!Next]_(Wallet!pvars)
  BY WalletNext
<1>3. IInv => SentWasApproved
  BY DEF IInv
<1> QED BY <1>1, <1>2, <1>3, Invariance, TypeCorrect, PaidAtMostOnceAlways, PTL
        DEF Spec, ImplementsWallet, Wallet!Spec

-----------------------------------------------------------------------------
(* Why a record may go.                                                    *)

\* Another transaction is confirmed with the nonce.
TakenFrom(id, nonce) ==
  \E other \in TxIds \ {id} :
    HasStatus(other, "Confirmed") /\ Store[other].tx.nonce = nonce

Goes(c, id) == Row(c, id) # NoTx /\ Row(c, id)' = NoTx

Retired(c, id) == Row(c, id).status \in {"Confirmed", "Rejected"}

\* Its nonce is taken, whether it was pending or is so in this step; or it
\* has failed on the chain.
Decided(c, id) ==
  \/ /\ Row(c, id).status \in {"Submitted", "Signed"}
     /\ TakenFrom(id, Row(c, id).tx.nonce)
  \/ /\ \E s \in sendRpc : s.id = id /\ sendRpc' = sendRpc \ {s}
     /\ TakenFrom(id, Row(c, id).tx.nonce)
  \/ \E q \in receiptRpc : q.id = id /\ q.hash \in reverted[q.net]

\* It is being signed: what it becomes may go at once.
BeingSigned(c, id) ==
  Row(c, id).status = "Unapproved" \/ \E r \in nonceRpc : r.meta.id = id

Leaves(c, id) ==
  \/ Retired(c, id) \/ "Reset" \in Env
  \/ c = chain /\ (Decided(c, id) \/ BeingSigned(c, id))

LEMMA SaveRetires ==
  ASSUME TypeOK, NEW meta \in Metas, Save(meta),
         NEW c \in Chains, NEW id \in TxIds, Goes(c, id)
  PROVE  Retired(c, id)
<1>1. /\ chain \in Chains /\ Store \in [TxIds -> Metas \cup {NoTx}]
      /\ meta.id \in TxIds
  BY DEF TypeOK, Stores, Store, Metas
<1>2. c = chain /\ Store[id] = Row(c, id)
      /\ AddOrUpdateTx(Store, meta)[id] = NoTx
  BY <1>1 DEF Goes, Row, Save, Store, TypeOK
<1>3. Aged(Metas)
  BY NoTxAssumption DEF Aged, Metas, AgeStamp
<1>4. \/ RetiredFairly(Store, AddOrUpdateTx(Store, meta), id, "Confirmed",
                       KMaxConfirmed)
      \/ RetiredFairly(Store, AddOrUpdateTx(Store, meta), id, "Rejected",
                       KMaxRejected)
  BY <1>1, <1>2, <1>3, AddOrUpdateRetires DEF Goes
<1> QED BY <1>2, <1>4 DEF RetiredFairly, Retired

LEMMA UpdateDrops ==
  ASSUME TypeOK, NEW store \in Stores, NEW isRunning,
         UpdatePendingTransactions(store, isRunning),
         NEW c \in Chains, NEW id \in TxIds, Goes(c, id)
  PROVE  /\ c = chain
         /\ \/ store[id] = NoTx
            \/ /\ store[id].status \in {"Submitted", "Signed"}
               /\ \E other \in TxIds \ {id} :
                    /\ store[other] # NoTx
                    /\ store[other].status = "Confirmed"
                    /\ store[other].tx.nonce = store[id].tx.nonce
<1>1. \A net \in Chains :
        txs'[net] = IF net = chain THEN DropNonceTaken(store) ELSE txs[net]
  BY DEF UpdatePendingTransactions, TypeOK
<1>2. c = chain /\ DropNonceTaken(store)[id] = NoTx
  BY <1>1 DEF Goes, Row
<1>3. id \in NonceTakenIds(store) \/ store[id] = NoTx
  BY <1>2 DEF DropNonceTaken
<1> QED BY <1>2, <1>3
        DEF NonceTakenIds, IsNonceTaken, PendingIds, IdsByStatus

LEMMA UpdateDecides ==
  ASSUME TypeOK, NEW isRunning, UpdatePendingTransactions(Store, isRunning),
         NEW c \in Chains, NEW id \in TxIds, Goes(c, id)
  PROVE  Leaves(c, id)
<1>1. Store \in Stores /\ (c = chain => Store[id] = Row(c, id))
  BY DEF TypeOK, Store, Row
<1>2. /\ c = chain
      /\ Store[id].status \in {"Submitted", "Signed"}
      /\ \E other \in TxIds \ {id} :
           /\ Store[other] # NoTx
           /\ Store[other].status = "Confirmed"
           /\ Store[other].tx.nonce = Store[id].tx.nonce
  BY <1>1, UpdateDrops DEF Goes
<1> QED BY <1>1, <1>2 DEF Leaves, Decided, TakenFrom, HasStatus, Found

\* The record saved last is among those updated.
LEMMA SavedDecides ==
  ASSUME TypeOK, NEW meta \in Metas, NEW isRunning,
         UpdatePendingTransactions(AddOrUpdateTx(Store, meta), isRunning),
         meta.status # "Confirmed",
         NEW c \in Chains, NEW id \in TxIds, Goes(c, id)
  PROVE  \/ Leaves(c, id)
         \/ c = chain /\ id = meta.id /\ TakenFrom(id, meta.tx.nonce)
<1> DEFINE store == AddOrUpdateTx(Store, meta)
<1>1. /\ chain \in Chains /\ Store \in [TxIds -> Metas \cup {NoTx}]
      /\ meta.id \in TxIds /\ (c = chain => Store[id] = Row(c, id))
  BY DEF TypeOK, Stores, Store, Metas, Row
<1>2. /\ store \in Stores
      /\ \A i \in TxIds :
           store[i] \in {NoTx, IF i = meta.id THEN meta ELSE Store[i]}
  BY <1>1, AddOrUpdateEffect DEF Stores
<1>3. Store[id] # NoTx /\ store[id] = NoTx =>
        Store[id].status \in {"Confirmed", "Rejected"}
  <2>1. Aged(Metas)
    BY NoTxAssumption DEF Aged, Metas, AgeStamp
  <2>2. Store[id] # NoTx /\ store[id] = NoTx =>
          \/ RetiredFairly(Store, store, id, "Confirmed", KMaxConfirmed)
          \/ RetiredFairly(Store, store, id, "Rejected", KMaxRejected)
    BY <1>1, <2>1, AddOrUpdateRetires
  <2> QED BY <2>2 DEF RetiredFairly
<1> HIDE DEF store
<1>4. UpdatePendingTransactions(store, isRunning)
  BY DEF store
<1>5. /\ c = chain
      /\ \/ store[id] = NoTx
         \/ /\ store[id].status \in {"Submitted", "Signed"}
            /\ \E other \in TxIds \ {id} :
                 /\ store[other] # NoTx
                 /\ store[other].status = "Confirmed"
                 /\ store[other].tx.nonce = store[id].tx.nonce
  BY <1>2, <1>4, UpdateDrops
<1>6. Store[id] = Row(c, id) /\ Store[id] # NoTx
  BY <1>1, <1>5 DEF Goes
<1>7. CASE store[id] = NoTx
  BY <1>3, <1>6, <1>7 DEF Leaves, Retired
<1>8. CASE store[id] # NoTx
  <2>1. PICK other \in TxIds \ {id} :
          /\ store[other] # NoTx
          /\ store[other].status = "Confirmed"
          /\ store[other].tx.nonce = store[id].tx.nonce
    BY <1>5, <1>8
  <2>2. store[other] = Store[other]
    BY <1>2, <2>1
  <2>3. TakenFrom(id, store[id].tx.nonce)
    BY <2>1, <2>2 DEF TakenFrom, HasStatus, Found
  <2>4. store[id] = IF id = meta.id THEN meta ELSE Store[id]
    BY <1>2, <1>8
  <2> QED BY <1>5, <1>6, <1>8, <2>3, <2>4 DEF Leaves, Decided
<1> QED BY <1>7, <1>8

LEMMA SignLeaves ==
  ASSUME TypeOK, NEW meta \in Metas, NEW from, NEW nonce \in OptNonces,
         SignAndPublish(meta, from, nonce), from \in Chains,
         NEW c \in Chains, NEW id \in TxIds, Goes(c, id)
  PROVE  Leaves(c, id) \/ (c = chain /\ id = meta.id)
<1> DEFINE numbered == [meta.tx EXCEPT !.nonce = nonce]
           tx   == SignTransactionByDefaultKeyring(numbered, from)
           done == [meta EXCEPT !.tx = tx, !.status = "Approved"]
           sgnd == [done EXCEPT !.status = "Signed", !.hash = tx]
<1>1. meta.tx \in Txs
  BY DEF Metas
<1>2. numbered \in Txs
  BY <1>1 DEF Txs
<1>3. SignatureOf(numbered, from) \in Signatures
  BY <1>2, SignatureOfType
<1> HIDE DEF numbered
<1>4. tx \in Txs
  BY <1>2, <1>3 DEF SignTransactionByDefaultKeyring, Txs
<1>5. \/ Save(done)
      \/ UpdatePendingTransactions(AddOrUpdateTx(Store, sgnd), running)
  BY DEF SignAndPublish, numbered
<1> HIDE DEF tx
<1>6. /\ done \in Metas /\ sgnd \in Metas /\ sgnd.id = meta.id
      /\ sgnd.status = "Signed"
  BY <1>4 DEF Metas, Status
<1> HIDE DEF done, sgnd
<1>7. CASE Save(done)
  BY <1>6, <1>7, SaveRetires DEF Leaves
<1>8. CASE UpdatePendingTransactions(AddOrUpdateTx(Store, sgnd), running)
  BY <1>6, <1>8, SavedDecides
<1> QED BY <1>5, <1>7, <1>8

LEMMA EditedTypes ==
  ASSUME NEW meta \in Metas
  PROVE  /\ \A s \in Status : [meta EXCEPT !.status = s] \in Metas
         /\ meta.tx.what.ver < MaxVer =>
              [meta EXCEPT !.tx.what.ver = @ + 1] \in Metas
         /\ \A n \in OptNonces : [meta EXCEPT !.tx.nonce = n] \in Metas
         /\ \A s \in Status, t \in Nat :
              [meta EXCEPT !.status = s, !.confirmedTime = t] \in Metas
         /\ \A s \in Status, tx \in Txs :
              /\ [meta EXCEPT !.tx = tx, !.status = s] \in Metas
              /\ [meta EXCEPT !.status = s, !.hash = tx] \in Metas
<1> DEFINE tx == meta.tx
<1>1. tx \in Txs /\ tx.what \in Contents
  BY DEF Metas, Txs
<1>2. tx.what.ver < MaxVer => [tx EXCEPT !.what.ver = @ + 1] \in Txs
  <2>1. tx.what.ver < MaxVer => [tx.what EXCEPT !.ver = @ + 1] \in Contents
    BY <1>1, BoundsAssumption DEF Contents
  <2>2. [tx EXCEPT !.what.ver = @ + 1] =
          [tx EXCEPT !.what = [tx.what EXCEPT !.ver = @ + 1]]
    BY <1>1 DEF Txs, Contents
  <2> HIDE DEF tx
  <2> QED BY <1>1, <2>1, <2>2 DEF Txs
<1>3. \A n \in OptNonces : [tx EXCEPT !.nonce = n] \in Txs
  BY <1>1 DEF Txs
<1>4. \A t \in Txs : [meta EXCEPT !.tx = t] \in Metas
  BY DEF Metas
<1>5. /\ [meta EXCEPT !.tx.what.ver = @ + 1] =
           [meta EXCEPT !.tx = [tx EXCEPT !.what.ver = @ + 1]]
      /\ \A n \in OptNonces : [meta EXCEPT !.tx.nonce = n] =
           [meta EXCEPT !.tx = [tx EXCEPT !.nonce = n]]
  OBVIOUS
<1>6. /\ \A s \in Status : [meta EXCEPT !.status = s] \in Metas
      /\ \A s \in Status, t \in Nat :
           [meta EXCEPT !.status = s, !.confirmedTime = t] \in Metas
      /\ \A s \in Status, t \in Txs :
           /\ [meta EXCEPT !.tx = t, !.status = s] \in Metas
           /\ [meta EXCEPT !.status = s, !.hash = t] \in Metas
  BY DEF Metas
<1> QED BY <1>2, <1>3, <1>4, <1>5, <1>6

LEMMA NewLeaves ==
  ASSUME TypeOK, NEW newId \in TxIds, NEW tx \in Txs, NEW signOnly \in BOOLEAN,
         ContinueAddUnapprovedTransaction(newId, tx, signOnly),
         NEW c \in Chains, NEW id \in TxIds, Goes(c, id)
  PROVE  Leaves(c, id)
<1> DEFINE meta == NewMeta(newId, tx, signOnly)
<1>1. Cardinality(used) \in Nat
  <2>1. used \in SUBSET TxIds
    BY DEF TypeOK
  <2> QED BY <2>1, CardinalityOfIds
<1>2. meta \in Metas
  BY <1>1 DEF NewMeta, Metas, Status
<1>3. Save(meta)
  BY DEF ContinueAddUnapprovedTransaction
<1> HIDE DEF meta
<1> QED BY <1>2, <1>3, SaveRetires DEF Leaves

LEMMA WhyNewLeaves ==
  ASSUME TypeOK,
         \/ \E i \in TxIds, from \in Accounts, signOnly \in BOOLEAN,
               chainId \in Chains \cup {NoChain} :
              AddUnapprovedTransaction(i, from, signOnly, chainId)
         \/ \E i, newId \in TxIds : RetryTransaction(i, newId)
         \/ \E old \in gasRpc, newId \in TxIds :
              ContinueSpeedupOrCancelTransaction(old, newId),
         NEW c \in Chains, NEW id \in TxIds, Goes(c, id)
  PROVE  Leaves(c, id)
<1>1. ASSUME NEW i \in TxIds, NEW from \in Accounts, NEW signOnly \in BOOLEAN,
             NEW chainId \in Chains \cup {NoChain},
             AddUnapprovedTransaction(i, from, signOnly, chainId)
      PROVE  Leaves(c, id)
  <2> DEFINE tx == [what |-> [req |-> i, ver |-> 0, cancel |-> FALSE,
                              from |-> from],
                    chainId |-> chainId, nonce |-> NoNonce, sig |-> NoSig]
  <2>1. tx \in Txs
    BY BoundsAssumption DEF Txs, Contents, OptNonces
  <2>2. ContinueAddUnapprovedTransaction(i, tx, signOnly)
    BY <1>1 DEF AddUnapprovedTransaction
  <2> HIDE DEF tx
  <2> QED BY <2>1, <2>2, NewLeaves
<1>2. ASSUME NEW i \in TxIds, NEW newId \in TxIds, RetryTransaction(i, newId)
      PROVE  Leaves(c, id)
  <2>1. Store[i].tx \in Txs
    BY <1>2, FoundRow DEF RetryTransaction, HasStatus, Metas
  <2>2. CopyOf(Store[i].tx, newId) \in Txs
    BY <2>1, CopyEffect
  <2>3. ContinueAddUnapprovedTransaction(newId, CopyOf(Store[i].tx, newId),
                                         FALSE)
    BY <1>2 DEF RetryTransaction
  <2> QED BY <2>2, <2>3, NewLeaves
<1>3. ASSUME NEW old \in gasRpc, NEW newId \in TxIds,
             ContinueSpeedupOrCancelTransaction(old, newId)
      PROVE  Leaves(c, id)
  <2> DEFINE raised == [old EXCEPT !.what.ver = @ + 1]
  <2>1. /\ old \in Txs /\ old.what \in Contents /\ old.what.ver < MaxVer
    BY <1>3 DEF TypeOK, Txs, ContinueSpeedupOrCancelTransaction
  <2>2. [old.what EXCEPT !.ver = @ + 1] \in Contents
    BY <2>1, BoundsAssumption DEF Contents
  <2>3. raised = [old EXCEPT !.what = [old.what EXCEPT !.ver = @ + 1]]
    BY <2>1 DEF Txs, Contents
  <2>4. raised \in Txs
    BY <2>1, <2>2, <2>3 DEF Txs
  <2>5. ContinueAddUnapprovedTransaction(newId, CopyOf(raised, newId), FALSE)
    BY <1>3 DEF ContinueSpeedupOrCancelTransaction
  <2> HIDE DEF raised
  <2>6. CopyOf(raised, newId) \in Txs
    BY <2>4, CopyEffect
  <2> QED BY <2>5, <2>6, NewLeaves
<1> QED BY <1>1, <1>2, <1>3

LEMMA WhyEditedLeaves ==
  ASSUME TypeOK, NEW i \in TxIds,
         \/ SetGasOrDataForUnapprovedTransaction(i)
         \/ \E nonce \in OptNonces : SetNonceForUnapprovedTransaction(i, nonce)
         \/ RejectTransaction(i),
         NEW c \in Chains, NEW id \in TxIds, Goes(c, id)
  PROVE  Leaves(c, id)
<1>1. Store[i] \in Metas
  BY FoundRow DEF SetGasOrDataForUnapprovedTransaction, RejectTransaction,
     HasStatus, SetNonceForUnapprovedTransaction
<1>2. \/ /\ Store[i].tx.what.ver < MaxVer
         /\ Save([Store[i] EXCEPT !.tx.what.ver = @ + 1])
      \/ \E nonce \in OptNonces : Save([Store[i] EXCEPT !.tx.nonce = nonce])
      \/ Save([Store[i] EXCEPT !.status = "Rejected"])
  BY DEF SetGasOrDataForUnapprovedTransaction, RejectTransaction,
         SetNonceForUnapprovedTransaction
<1>3. \E meta \in Metas : Save(meta)
  <2>1. /\ [Store[i] EXCEPT !.status = "Rejected"] \in Metas
        /\ Store[i].tx.what.ver < MaxVer =>
             [Store[i] EXCEPT !.tx.what.ver = @ + 1] \in Metas
        /\ \A n \in OptNonces : [Store[i] EXCEPT !.tx.nonce = n] \in Metas
    BY <1>1, EditedTypes DEF Status
  <2> QED BY <1>2, <2>1
<1> QED BY <1>3, SaveRetires DEF Leaves

LEMMA WhySignedLeaves ==
  ASSUME TypeOK, NEW i \in TxIds, ApproveTransaction(i), RowsAtHome,
         NEW c \in Chains, NEW id \in TxIds, Goes(c, id)
  PROVE  Leaves(c, id)
<1>1. HasStatus(i, "Unapproved") /\ Found(i)
  BY DEF ApproveTransaction, PanelOffersApproval, HasStatus
<1>2. /\ Store[i] \in Metas /\ Store[i].id = i /\ chain \in Chains
      /\ Store[i] = Row(chain, i) /\ Store[i].tx \in Txs
  BY <1>1, FoundRow DEF Metas
<1>3. SignAndPublish(Store[i], chain, Store[i].tx.nonce)
  BY DEF ApproveTransaction, Goes, Row
<1>4. Store[i].tx.nonce \in OptNonces
  BY <1>2 DEF Txs
<1>5. Leaves(c, id) \/ (c = chain /\ id = i)
  BY <1>2, <1>3, <1>4, SignLeaves
<1> QED BY <1>1, <1>2, <1>5 DEF Leaves, BeingSigned, HasStatus

LEMMA WhyAnsweredLeaves ==
  ASSUME TypeOK, NEW r \in nonceRpc,
         \/ OnGetNextNonce(r) \/ OnGetNextNonceForHardware(r)
         \/ GetNextNonceFails(r),
         NEW c \in Chains, NEW id \in TxIds, Goes(c, id)
  PROVE  Leaves(c, id)
<1>1. r.meta \in Metas /\ r.chain \in Chains
  BY AskedType
<1>2. CASE OnGetNextNonce(r)
  <2>1. PICK nonce \in Nonces : SignAndPublish(r.meta, r.chain, nonce)
    BY <1>2 DEF OnGetNextNonce
  <2>2. Leaves(c, id) \/ (c = chain /\ id = r.meta.id)
    BY <1>1, <2>1, SignLeaves DEF OptNonces
  <2> QED BY <2>2 DEF Leaves, BeingSigned
<1>3. CASE OnGetNextNonceForHardware(r) \/ GetNextNonceFails(r)
  <2>1. \/ \E nonce \in Nonces : Save([r.meta EXCEPT !.tx.nonce = nonce])
        \/ Save([r.meta EXCEPT !.status = "Error"])
    BY <1>3 DEF OnGetNextNonceForHardware, GetNextNonceFails
  <2>2. \E meta \in Metas : Save(meta)
    BY <1>1, <2>1, EditedTypes DEF OptNonces, Status
  <2> QED BY <2>2, SaveRetires DEF Leaves
<1> QED BY <1>2, <1>3

LEMMA WhyPublishedLeaves ==
  ASSUME TypeOK, RowsAtHome, NEW r \in sendRpc, OnPublishTransaction(r),
         NEW c \in Chains, NEW id \in TxIds, Goes(c, id)
  PROVE  Leaves(c, id)
<1> DEFINE sent == [Store[r.id] EXCEPT !.status = "Submitted", !.hash = r.tx]
<1>1. r.id \in TxIds /\ r.tx \in Txs /\ txs' # txs
  BY DEF TypeOK, SendRequests, Goes, Row
<1>2. /\ Found(r.id) /\ sendRpc' = sendRpc \ {r}
      /\ \/ UpdatePendingTransactions(AddOrUpdateTx(Store, sent), running)
         \/ Save([Store[r.id] EXCEPT !.status = "Error"])
  BY <1>1 DEF OnPublishTransaction
<1>3. /\ Store[r.id] \in Metas /\ Store[r.id].id = r.id
      /\ Store[r.id] = Row(chain, r.id)
  BY <1>1, <1>2, FoundRow
<1>4. CASE Save([Store[r.id] EXCEPT !.status = "Error"])
  <2>1. [Store[r.id] EXCEPT !.status = "Error"] \in Metas
    BY <1>3, EditedTypes DEF Status
  <2> QED BY <1>4, <2>1, SaveRetires DEF Leaves
<1>5. CASE UpdatePendingTransactions(AddOrUpdateTx(Store, sent), running)
  <2>1. sent \in Metas
    BY <1>1, <1>3, EditedTypes DEF Status
  <2>2. /\ sent.status = "Submitted" /\ sent.id = r.id
        /\ sent.tx = Store[r.id].tx
    BY <1>3 DEF Metas
  <2> HIDE DEF sent
  <2>3. \/ Leaves(c, id)
        \/ c = chain /\ id = r.id /\ TakenFrom(id, Store[r.id].tx.nonce)
    BY <1>5, <2>1, <2>2, SavedDecides
  <2>4. c = chain /\ id = r.id /\ TakenFrom(id, Store[r.id].tx.nonce) =>
          Decided(c, id)
    BY <1>2, <1>3 DEF Decided
  <2> QED BY <2>3, <2>4 DEF Leaves
<1> QED BY <1>2, <1>4, <1>5

LEMMA WhyHardwareLeaves ==
  ASSUME TypeOK, NEW d \in device, ProcessHardwareSignature(d),
         NEW c \in Chains, NEW id \in TxIds, Goes(c, id)
  PROVE  Leaves(c, id)
<1> DEFINE tx == [Store[d.id].tx EXCEPT !.sig = d.sig]
<1>1. d.id \in TxIds /\ d.sig \in Signatures /\ txs' # txs
  BY DEF TypeOK, DeviceRequests, Goes, Row
<1>2. /\ Found(d.id)
      /\ \/ Save([Store[d.id] EXCEPT !.tx = tx, !.status = "Approved"])
         \/ Save([Store[d.id] EXCEPT !.status = "Error"])
  BY <1>1 DEF ProcessHardwareSignature
<1>3. Store[d.id] \in Metas
  BY <1>1, <1>2, FoundRow
<1>4. tx \in Txs
  BY <1>1, <1>3 DEF Metas, Txs
<1> HIDE DEF tx
<1>5. \E meta \in Metas : Save(meta)
  BY <1>2, <1>3, <1>4, EditedTypes DEF Status
<1> QED BY <1>5, SaveRetires DEF Leaves

LEMMA WhyReceiptLeaves ==
  ASSUME TypeOK, NEW r \in receiptRpc, OnGetTxReceipt(r),
         NEW c \in Chains, NEW id \in TxIds, Goes(c, id)
  PROVE  Leaves(c, id)
<1>1. r.id \in TxIds /\ txs' # txs
  BY DEF TypeOK, ReceiptRequests, Goes, Row
<1>2. CASE ReceiptSucceeded(r) /\ Found(r.id)
  <2>1. PICK t \in Ticks : Save([Store[r.id] EXCEPT !.status = "Confirmed",
                                                    !.confirmedTime = t])
    BY <1>1, <1>2 DEF OnGetTxReceipt, ReceiptSucceeded, ReceiptFailed
  <2>2. t \in Nat
    BY <2>1, TxIdsAssumption, FS_CardinalityType DEF Ticks
  <2>3. [Store[r.id] EXCEPT !.status = "Confirmed", !.confirmedTime = t]
          \in Metas
    BY <1>1, <1>2, <2>2, FoundRow, EditedTypes DEF Status
  <2> QED BY <2>1, <2>3, SaveRetires DEF Leaves
<1>3. CASE /\ ReceiptFailed(r)
           /\ txs' = [txs EXCEPT ![chain] = DeleteTx(Store, r.id)]
  <2>1. c = chain /\ id = r.id
    BY <1>3 DEF Goes, Row, DeleteTx, Store, TypeOK, Stores
  <2> QED BY <1>3, <2>1 DEF Leaves, Decided, ReceiptFailed
<1> QED BY <1>1, <1>2, <1>3 DEF OnGetTxReceipt

(***************************************************************************)
(* A record only goes for one of these reasons.                            *)
(***************************************************************************)
LEMMA WhyItLeaves ==
  ASSUME TypeOK, RowsAtHome, [Next]_vars,
         NEW c \in Chains, NEW id \in TxIds, Goes(c, id)
  PROVE  Leaves(c, id)
<1>1. txs' # txs
  BY DEF Goes, Row
<1>2. CASE \/ \E i \in TxIds, from \in Accounts, signOnly \in BOOLEAN,
                 chainId \in Chains \cup {NoChain} :
                AddUnapprovedTransaction(i, from, signOnly, chainId)
           \/ \E i, newId \in TxIds : RetryTransaction(i, newId)
           \/ \E old \in gasRpc, newId \in TxIds :
                ContinueSpeedupOrCancelTransaction(old, newId)
  BY <1>2, WhyNewLeaves
<1>3. CASE \E i \in TxIds :
             \/ SetGasOrDataForUnapprovedTransaction(i)
             \/ \E nonce \in OptNonces :
                  SetNonceForUnapprovedTransaction(i, nonce)
             \/ RejectTransaction(i)
  BY <1>3, WhyEditedLeaves
<1>4. CASE \E i \in TxIds : ApproveTransaction(i)
  BY <1>4, WhySignedLeaves
<1>5. CASE \E r \in nonceRpc : \/ OnGetNextNonce(r)
                               \/ OnGetNextNonceForHardware(r)
                               \/ GetNextNonceFails(r)
  BY <1>5, WhyAnsweredLeaves
<1>6. CASE \E r \in sendRpc : OnPublishTransaction(r)
  BY <1>6, WhyPublishedLeaves
<1>7. CASE \E d \in device : ProcessHardwareSignature(d)
  BY <1>7, WhyHardwareLeaves
<1>8. CASE \E r \in receiptRpc : OnGetTxReceipt(r)
  BY <1>8, WhyReceiptLeaves
<1>9. CASE OnNewBlock \/ OnKeyringNotice
  <2>1. \E isRunning : UpdatePendingTransactions(Store, isRunning)
    BY <1>1, <1>9 DEF OnNewBlock, OnKeyringNotice
  <2> QED BY <2>1, UpdateDecides
<1>10. CASE Reset
  BY <1>10 DEF Reset, Leaves
<1>11. CASE \/ \E i \in TxIds, cancel \in BOOLEAN :
                 SpeedupOrCancelTransaction(i, cancel)
            \/ \E i \in TxIds : \/ GetNonceForHardwareTransaction(i)
                                \/ GetTransactionMessageToSign(i)
                                \/ DappSubmits(i)
            \/ Lock \/ Restart \/ GetBlockNumber \/ OnSameBlock
            \/ \E notice \in {"Unlocked", "KeyringCreated"} : Unlock(notice)
            \/ \E net \in Chains : SetNetwork(net)
            \/ \E tx \in gasRpc : GasEstimateFails(tx)
            \/ \E r \in receiptRpc : NoTxReceipt(r)
            \/ \E q \in countRpc : OnGetNetworkNonce(q)
            \/ \E r \in sendRpc : NodeAccepts(r) \/ NodeRefuses(r)
            \/ \E net \in Chains : \E tx \in pool[net], reverts \in BOOLEAN :
                 Mine(net, tx, reverts)
            \/ \E net \in Chains, a \in Accounts : MineForeign(net, a)
            \/ UNCHANGED vars
  BY <1>1, <1>11 DEF SpeedupOrCancelTransaction, GetNonceForHardwareTransaction,
     GetTransactionMessageToSign, DappSubmits, Lock, Restart, GetBlockNumber,
     OnSameBlock, Unlock, SetNetwork, GasEstimateFails, NoTxReceipt,
     OnGetNetworkNonce, NodeAccepts, NodeRefuses, Mine, MineForeign, vars,
     prefsVars
<1> QED BY <1>2, <1>3, <1>4, <1>5, <1>6, <1>7, <1>8, <1>9, <1>10, <1>11
        DEF Next, UserStep, Callback, NetworkStep

-----------------------------------------------------------------------------
(* With one account, what goes has been decided.                           *)

RevertedRan == \A c \in Chains : reverted[c] \subseteq mined[c]

LEMMA RevertedRanNext ==
  ASSUME TypeOK, RevertedRan, Kind
  PROVE  RevertedRan'
<1> SUFFICES ASSUME NEW c \in Chains
             PROVE  reverted'[c] \subseteq mined'[c]
  BY DEF RevertedRan
<1>1. CASE UNCHANGED <<mined, reverted>>
  BY <1>1 DEF RevertedRan
<1>2. CASE \E net \in Chains, tx \in Txs : KMined(net, tx)
  <2>1. PICK net \in Chains, tx \in Txs : KMined(net, tx)
    BY <1>2
  <2>2. /\ mined'[c] = IF c = net THEN mined[c] \cup {tx} ELSE mined[c]
        /\ reverted'[c] \subseteq reverted[c] \cup
             IF c = net THEN {tx} ELSE {}
    BY <2>1 DEF KMined, TypeOK
  <2> QED BY <2>2 DEF RevertedRan
<1> QED BY <1>1, <1>2
        DEF Kind, KQuiet, KAdded, KCopied, KSigned, KEdited, KFailed, KShown,
            KHandedOut, KAsked, KNonceFailed, KNumbered, KAnswered, KSubmitted,
            KSent, KHwSigned, KConfirmed, Here, networkVars

\* A single network is in use, a single account, and nobody resets.
SingleAccount == PlainUse /\ "Reset" \notin Env /\ Alone(Accounts)

\* What the network has executed uses up its nonce for the account.
LEMMA MinedIsCounted ==
  ASSUME TypeOK, PayInv, Alone(Accounts), chain \in Chains,
         NEW t \in mined[chain], NEW a \in Accounts
  PROVE  t.nonce \in Nat /\ t.nonce < count[chain][a]
<1>1. t \in Txs
  BY DEF TypeOK
<1>2. t.what.from \in Accounts
  BY <1>1 DEF Txs, Contents
<1>3. t.what.from = a
  BY <1>2 DEF Alone
<1>4. t.nonce \in Nat /\ t.nonce < count[chain][t.what.from]
  BY DEF PayInv, Executes
<1> QED BY <1>3, <1>4

LEMMA TakenIsCounted ==
  ASSUME TypeOK, StageInv, PayInv, Alone(Accounts), NEW id \in TxIds,
         NEW nonce, TakenFrom(id, nonce), NEW a \in Accounts
  PROVE  nonce \in Nat /\ nonce < count[chain][a]
<1>1. PICK other \in TxIds \ {id} :
        HasStatus(other, "Confirmed") /\ Store[other].tx.nonce = nonce
  BY DEF TakenFrom
<1>2. Found(other) /\ Store[other].status = "Confirmed"
  BY <1>1 DEF HasStatus
<1>3. Store[other].hash = Store[other].tx /\ Store[other].hash \in mined[chain]
  BY <1>2, FoundStage DEF Settled
<1>4. chain \in Chains
  BY DEF TypeOK
<1> QED BY <1>1, <1>3, <1>4, MinedIsCounted

\* From its approval on, a record holds the transaction it was approved as.
Approval == {"Approved", "Submitted", "Signed", "Error", "Confirmed"}

Holds(id, tx) ==
  Found(id) /\ Store[id].tx = tx /\ Store[id].status \in Approval

\* It only goes once its nonce is used up.
LEMMA GoneIsCounted ==
  ASSUME SingleAccount, TypeOK, PaymentInv, StageInv, PayInv, RevertedRan,
         [Next]_vars, NEW id \in TxIds, Found(id),
         Store[id].status \in Approval,
         NEW c \in Chains, c = chain, Row(c, id)' = NoTx, NEW a \in Accounts
  PROVE  Store[id].tx.nonce \in Nat /\ Store[id].tx.nonce < count[chain][a]
<1>1. /\ chain \in Chains /\ Store[id] = Row(chain, id)
      /\ Row(chain, id) # NoTx
  BY FoundRow
<1>2. /\ InStage(id, Store[id].tx, Store[id].status, Store[id].hash)
      /\ Settled(Store[id].tx, Store[id].status, Store[id].hash)
  BY FoundStage
<1>3. Goes(c, id)
  BY <1>1 DEF Goes
<1>4. Leaves(c, id)
  BY <1>1, <1>3, PaymentAtHome, WhyItLeaves
<1>5. ASSUME Store[id].hash \in mined[chain], Store[id].hash = Store[id].tx
      PROVE  Store[id].tx.nonce \in Nat /\ Store[id].tx.nonce < count[chain][a]
  BY <1>1, <1>5, MinedIsCounted DEF SingleAccount
<1>6. CASE Retired(c, id)
  <2>1. Store[id].status = "Confirmed"
    BY <1>1, <1>6 DEF Retired, Approval
  <2> QED BY <1>2, <1>5, <2>1 DEF Settled
<1>7. CASE TakenFrom(id, Store[id].tx.nonce)
  BY <1>7, TakenIsCounted DEF SingleAccount
<1>8. CASE \E q \in receiptRpc : q.id = id /\ q.hash \in reverted[q.net]
  <2>1. PICK q \in receiptRpc : q.id = id /\ q.hash \in reverted[q.net]
    BY <1>8
  <2>2. /\ q.net = chain /\ q.hash = Store[id].hash
        /\ Store[id].status \in {"Submitted", "Signed", "Confirmed"}
    BY <1>2, <2>1 DEF InStage, Watched
  <2> QED BY <1>1, <1>2, <1>5, <2>1, <2>2 DEF Settled, RevertedRan
<1>9. ~BeingSigned(c, id)
  <2>1. Store[id].status \notin {"Unapproved", "Rejected"}
    BY DEF Approval
  <2>2. Asked(id) = {}
    BY <1>2, <2>1 DEF InStage
  <2> QED BY <1>1, <2>1, <2>2 DEF BeingSigned, Asked
<1> QED BY <1>1, <1>4, <1>6, <1>7, <1>8, <1>9
        DEF Leaves, Decided, SingleAccount

DropStep ==
  \A c \in Chains : \A id \in TxIds :
    IsPending(txs[c][id]) /\ txs'[c][id] = NoTx =>
      txs[c][id].tx.nonce < count[c][txs[c][id].tx.what.from]

LEMMA RevertedRanAlways == Spec => []RevertedRan
<1>1. Init => RevertedRan
  BY DEF Init, RevertedRan
<1>2. IInv /\ PaymentInv /\ RevertedRan /\ [Next]_vars => RevertedRan'
  BY IInvTypeOK, PaymentAtHome, KindOfStep, RevertedRanNext
<1> QED BY <1>1, <1>2, Invariance, PaymentInvariance, PTL DEF Spec

(***************************************************************************)
(* With one account on one network and no reset, a pending record is only  *)
(* dropped when its nonce is used up: whatever is confirmed, reverted or   *)
(* forgotten around it, no transaction that may still be executed is.      *)
(***************************************************************************)
THEOREM DroppedOnlyWhenDecidedAlways ==
  ASSUME SingleAccount
  PROVE  Spec => DroppedOnlyWhenDecided
<1>1. IInv /\ PaymentInv /\ StageInv /\ PayInv /\ RevertedRan /\ [Next]_vars =>
        [DropStep]_vars
  <2> SUFFICES ASSUME IInv, PaymentInv, StageInv, PayInv, RevertedRan,
                      [Next]_vars, NEW c \in Chains, NEW id \in TxIds,
                      IsPending(txs[c][id]), txs'[c][id] = NoTx
               PROVE  txs[c][id].tx.nonce < count[c][txs[c][id].tx.what.from]
    BY DEF DropStep
  <2>1. TypeOK
    BY IInvTypeOK
  <2>2. Row(c, id) # NoTx /\ Row(c, id).status \in {"Submitted", "Signed"}
    BY DEF IsPending, Row
  <2>3. c = chain
    BY <2>2 DEF StageInv, StageOK
  <2>4. /\ Found(id) /\ Store[id] = Row(c, id) /\ Row(c, id)' = NoTx
        /\ Store[id].status \in Approval
    BY <2>1, <2>2, <2>3 DEF Found, Store, Row, Approval
  <2>5. Store[id].tx.what.from \in Accounts
    BY <2>1, <2>4, FoundRow DEF Metas, Txs, Contents
  <2>6. Store[id].tx.nonce < count[chain][Store[id].tx.what.from]
    BY <2>1, <2>3, <2>4, <2>5, GoneIsCounted
  <2> QED BY <2>3, <2>4, <2>6 DEF Row
<1>2. PlainUse
  BY DEF SingleAccount
<1>3. Spec => [][DropStep]_vars
  BY <1>1, <1>2, Invariance, PaymentInvariance, StageInvariance, PayInvariance,
     RevertedRanAlways, PTL DEF Spec
<1> QED BY <1>3 DEF DroppedOnlyWhenDecided, DropStep

-----------------------------------------------------------------------------
(* What may still be executed has its record.                              *)

\* A step that leaves the record there leaves it what it holds.
LEMMA HoldsStays ==
  ASSUME PlainUse, TypeOK, PaymentInv, StageInv, Kind, chain' = chain,
         NEW id \in TxIds, NEW t, Holds(id, t), NEW c \in Chains, c = chain,
         Row(c, id)' # NoTx
  PROVE  Holds(id, t)'
<1>1. /\ Found(id) /\ id \in used /\ RowsAtHome /\ Store[id] = Row(c, id)
      /\ Store[id].tx = t /\ Store[id].status \in Approval
  BY KnownIsUsed, PaymentAtHome, FoundRow DEF Holds
<1>2. /\ Store[id].status \notin {"Unapproved", "Rejected"}
      /\ Asked(id) = {} /\ Held(id) = {}
  BY <1>1, FoundStage DEF Approval, InStage
<1>3. Row(c, id)' = Store'[id]
  BY DEF Row, Store
<1>4. CASE Row(c, id)' = Row(c, id)
  BY <1>1, <1>3, <1>4 DEF Holds, Found
<1>5. ASSUME NEW status \in Approval, NEW hash, Writes(id, t, status, hash)
      PROVE  Holds(id, t)'
  BY <1>3, <1>5 DEF Writes, Holds, Found, Approval
<1>6. ASSUME NEW w \in TxIds \ {id}, Focus(w)
      PROVE  Holds(id, t)'
  BY <1>4, <1>6 DEF Focus, Untouched
<1>7. CASE KQuiet
  BY <1>4, <1>7, QuietFocus DEF Untouched
<1>8. CASE UNCHANGED txs
  BY <1>4, <1>8 DEF Row
<1>9. CASE \E w \in TxIds, tx \in Txs :
             \/ KAdded(w, tx) \/ KSigned(w, tx)
             \/ \E status \in Status : KEdited(w, tx, status)
  <2>1. PICK w \in TxIds, tx \in Txs :
               \/ KAdded(w, tx) \/ KSigned(w, tx)
               \/ \E status \in Status : KEdited(w, tx, status)
    BY <1>9
  <2>2. w # id
    BY <1>1, <1>2, <2>1
       DEF KAdded, KSigned, KEdited, PanelOffersApproval, HasStatus, PlainUse
  <2>3. Focus(w)
    BY <1>1, <2>1, RecordFocus, SignedFocus
  <2> QED BY <1>6, <2>2, <2>3
<1>10. CASE \E w \in TxIds : KFailed(w)
  <2>1. PICK w \in TxIds : KFailed(w)
    BY <1>10
  <2>2. CASE w = id
    BY <1>1, <1>5, <2>1, <2>2 DEF KFailed, Approval
  <2> QED BY <1>6, <2>1, <2>2, FailedFocus
<1>11. CASE \E r \in nonceRpc :
              KNonceFailed(r) \/ (\E tx \in Txs :
                KNumbered(r, tx) \/ KAnswered(r, tx))
  <2>1. PICK r \in nonceRpc :
          KNonceFailed(r) \/ \E tx : KNumbered(r, tx) \/ KAnswered(r, tx)
    BY <1>11
  <2>2. r.meta.id \in TxIds \ {id} /\ Focus(r.meta.id)
    BY <1>2, <2>1, AskedType, AskedFocus DEF Asked
  <2> QED BY <1>6, <2>2
<1>12. CASE \E r \in sendRpc : KSubmitted(r)
  <2>1. PICK r \in sendRpc : KSubmitted(r)
    BY <1>12
  <2>2. CASE r.id = id
    BY <1>1, <1>5, <2>1, <2>2 DEF KSubmitted, Approval
  <2>3. r.id \in TxIds
    BY DEF TypeOK, SendRequests
  <2> QED BY <1>6, <2>1, <2>2, <2>3, SendFocus
<1>13. CASE \E d \in device, tx \in Txs : KHwSigned(d, tx)
  <2>1. PICK d \in device, tx \in Txs : KHwSigned(d, tx)
    BY <1>13
  <2>2. d.id \in TxIds \ {id} /\ Focus(d.id)
    BY <1>2, <2>1, HwSignedFocus DEF Held, TypeOK, DeviceRequests
  <2> QED BY <1>6, <2>2
<1>14. CASE \E q \in receiptRpc : KConfirmed(q)
  <2>1. PICK q \in receiptRpc : KConfirmed(q)
    BY <1>14
  <2>2. CASE q.id = id
    BY <1>1, <1>5, <2>1, <2>2 DEF KConfirmed, Approval
  <2>3. q.id \in TxIds
    BY DEF TypeOK, ReceiptRequests
  <2> QED BY <1>6, <2>1, <2>2, <2>3, ConfirmedFocus
<1>15. CASE \/ \E w \in TxIds : \/ KShown(w) \/ KHandedOut(w)
                                \/ \E r \in NonceRequests : KAsked(w, r)
                                \/ \E tx \in Txs : KCopied(w, tx)
            \/ \E r \in sendRpc : KSent(r)
            \/ \E net \in Chains, tx \in Txs : KMined(net, tx)
  BY <1>8, <1>15 DEF KShown, KHandedOut, KAsked, KCopied, KSent, KMined
<1> QED BY <1>7, <1>9, <1>10, <1>11, <1>12, <1>13, <1>14, <1>15 DEF Kind

\* What is being sent has its record, and so has what a node has accepted,
\* as long as its nonce is open.
Open(t) == t.nonce >= count[chain][t.what.from]

LiveInv ==
  /\ \A s \in sendRpc : Found(s.id)
  /\ \A t \in pool[chain] : Open(t) => \E id \in TxIds : Holds(id, t)

\* A record does not go while its transaction is being sent.
LEMMA SendingStays ==
  ASSUME SingleAccount, TypeOK, PaymentInv, StageInv, [Next]_vars,
         NEW s \in sendRpc, s \in sendRpc', Found(s.id), NEW c \in Chains,
         c = chain
  PROVE  Row(c, s.id)' # NoTx
<1> SUFFICES ASSUME Row(c, s.id)' = NoTx
             PROVE  FALSE
  OBVIOUS
<1>1. s.id \in TxIds
  BY DEF TypeOK, SendRequests
<1>2. PICK id \in TxIds : id = s.id
  BY <1>1
<1>3. /\ Store[id] = Row(c, id) /\ Goes(c, id)
  BY <1>2, FoundRow DEF Goes
<1>4. Leaves(c, id)
  BY <1>3, PaymentAtHome, WhyItLeaves
<1>5. /\ OneStage(id)
      /\ InStage(id, Store[id].tx, Store[id].status, Store[id].hash)
  BY <1>2, FoundStage
<1>6. s \in Sending(id)
  BY <1>2 DEF Sending
<1>7. /\ Store[id].status = "Approved"
      /\ Asked(id) = {} /\ Watched(id) = {} /\ Sending(id) = {s}
  BY <1>5, <1>6 DEF InStage, OneStage, Alone
<1>8. ~\E other \in sendRpc : other.id = id /\ sendRpc' = sendRpc \ {other}
  BY <1>7 DEF Sending
<1> QED BY <1>3, <1>4, <1>7, <1>8
        DEF Leaves, Retired, Decided, BeingSigned, SingleAccount, Asked, Watched

LEMMA SendingFound ==
  ASSUME SingleAccount, TypeOK, PaymentInv, StageInv, LiveInv, Kind,
         [Next]_vars, chain' = chain, NEW s \in sendRpc'
  PROVE  Found(s.id)'
<1>0. chain \in Chains
  BY DEF TypeOK
<1>1. PICK c \in Chains : c = chain
  BY <1>0
<1>2. \A i : Row(c, i)' = Store'[i]
  BY <1>1 DEF Row, Store
<1>3. CASE s \in sendRpc
  <2>1. Row(c, s.id)' # NoTx
    BY <1>1, <1>3, SendingStays DEF LiveInv
  <2> QED BY <1>2, <2>1 DEF Found
<1>4. CASE \E r \in sendRpc : KSent(r)
  <2>1. \A old \in sendRpc : Found(old.id)'
    BY <1>4 DEF LiveInv, KSent, Found, Store
  <2> QED BY <1>4, <2>1 DEF KSent
<1>5. CASE /\ s \notin sendRpc
           /\ \/ \E id \in TxIds : \E tx, hash : Signs(id, tx, hash)
              \/ \E r \in nonceRpc : \E tx, hash : Signs(r.meta.id, tx, hash)
              \/ \E d \in device, tx \in Txs : KHwSigned(d, tx)
  <2>1. PICK id : s.id = id /\ Row(chain, id)' # NoTx
    BY <1>5 DEF Signs, KHwSigned
  <2> QED BY <2>1 DEF Row, Found, Store
<1>6. s \in sendRpc \/ (\E r \in sendRpc : KSent(r))
      \/ (\E id \in TxIds, tx \in Txs : KSigned(id, tx))
      \/ (\E r \in nonceRpc, tx \in Txs : KAnswered(r, tx))
      \/ (\E d \in device, tx \in Txs : KHwSigned(d, tx))
  BY DEF Kind, KQuiet, KAdded, KCopied, KEdited, KFailed, KShown, KHandedOut,
     KAsked, KNonceFailed, KNumbered, KSubmitted, KConfirmed, KMined, Requests
<1>7. CASE \E id \in TxIds, tx \in Txs : KSigned(id, tx)
  <2>1. \E id \in TxIds : \E tx, hash : Signs(id, tx, hash)
    BY <1>7 DEF KSigned
  <2> QED BY <1>3, <1>5, <2>1
<1>8. CASE \E r \in nonceRpc, tx \in Txs : KAnswered(r, tx)
  <2>1. \E r \in nonceRpc : \E tx, hash : Signs(r.meta.id, tx, hash)
    BY <1>8 DEF KAnswered
  <2> QED BY <1>3, <1>5, <2>1
<1> QED BY <1>3, <1>4, <1>5, <1>6, <1>7, <1>8

LEMMA CountsGrow ==
  ASSUME TypeOK, Kind, NEW c \in Chains, NEW a \in Accounts
  PROVE  count'[c][a] >= count[c][a]
<1>1. count[c][a] \in Nat
  BY DEF TypeOK
<1>2. CASE count' = count
  BY <1>1, <1>2
<1>3. CASE \E net \in Chains, tx \in Txs : KMined(net, tx)
  <2>1. PICK net \in Chains, tx \in Txs : KMined(net, tx)
    BY <1>3
  <2>2. tx.what.from \in Accounts
    BY DEF Txs, Contents
  <2>3. count'[c][a] \in {count[c][a], count[c][a] + 1}
    BY <2>1, <2>2 DEF KMined, TypeOK
  <2> QED BY <1>1, <2>3
<1> QED BY <1>2, <1>3
        DEF Kind, KQuiet, KAdded, KCopied, KSigned, KEdited, KFailed, KShown,
            KHandedOut, KAsked, KNonceFailed, KNumbered, KAnswered, KSubmitted,
            KSent, KHwSigned, KConfirmed, Here, networkVars

\* What a step brings to the pool has its record.
LEMMA BroughtHeld ==
  ASSUME TypeOK, StageInv, LiveInv, Kind, chain' = chain,
         NEW c \in Chains, c = chain, NEW t \in pool'[c] \ pool[c]
  PROVE  \E id \in TxIds : Holds(id, t)'
<1>1. \/ \E r \in sendRpc : KSent(r)
      \/ \E id \in TxIds : KHandedOut(id)
  BY DEF Kind, KQuiet, KAdded, KCopied, KSigned, KEdited, KFailed, KShown,
     KAsked, KNonceFailed, KNumbered, KAnswered, KSubmitted, KHwSigned,
     KConfirmed, KMined, Here, networkVars
<1>2. ASSUME NEW id \in TxIds, Holds(id, t), txs' = txs
      PROVE  Holds(id, t)'
  BY <1>2 DEF Holds, Found, Store
<1>3. CASE \E r \in sendRpc : KSent(r)
  <2>1. PICK r \in sendRpc : KSent(r)
    BY <1>3
  <2>2. r.id \in TxIds /\ Found(r.id)
    BY DEF TypeOK, SendRequests, LiveInv
  <2>3. InStage(r.id, Store[r.id].tx, Store[r.id].status, Store[r.id].hash)
    BY <2>2, FoundStage
  <2>4. r \in Sending(r.id)
    BY DEF Sending
  <2>5. Store[r.id].status = "Approved" /\ Store[r.id].tx = r.tx
    BY <2>3, <2>4 DEF InStage
  <2>6. t = r.tx /\ txs' = txs
    BY <2>1 DEF KSent
  <2>7. Holds(r.id, t)
    BY <2>2, <2>5, <2>6 DEF Holds, Approval
  <2> QED BY <1>2, <2>2, <2>6, <2>7
<1>4. CASE \E id \in TxIds : KHandedOut(id)
  <2>1. PICK id \in TxIds : KHandedOut(id)
    BY <1>4
  <2>2. /\ Found(id) /\ Store[id].status = "Signed" /\ t = Store[id].hash
        /\ txs' = txs
    BY <2>1 DEF KHandedOut, HasStatus
  <2>3. Store[id].hash = Store[id].tx
    BY <2>2, FoundStage DEF Settled
  <2>4. Holds(id, t)
    BY <2>2, <2>3 DEF Holds, Approval
  <2> QED BY <1>2, <2>2, <2>4
<1> QED BY <1>1, <1>3, <1>4

LEMMA LiveNext ==
  ASSUME SingleAccount, IInv, PaymentInv, StageInv, PayInv, RevertedRan,
         LiveInv, [Next]_vars, StageInv', TypeOK'
  PROVE  LiveInv'
<1>1. TypeOK /\ Kind /\ chain' = chain /\ PlainUse
  BY IInvTypeOK, PaymentAtHome, KindOfStep DEF StageInv, SingleAccount
<1>2. PICK c \in Chains : c = chain
  BY <1>1 DEF TypeOK
<1>3. \A s \in sendRpc' : Found(s.id)'
  BY <1>1, SendingFound
<1>4. ASSUME NEW t \in pool'[c], t.nonce >= count'[c][t.what.from]
      PROVE  \E id \in TxIds : Holds(id, t)'
  <2>1. CASE t \notin pool[c]
    BY <1>1, <1>2, <2>1, BroughtHeld
  <2>2. CASE t \in pool[c]
    <3>1. t \in Txs
      BY <1>1, <2>2 DEF TypeOK
    <3>2. t.what.from \in Accounts /\ t.nonce \in Nat
      <4>1. t.nonce # NoNonce
        BY <2>2, <3>1 DEF PayInv, WithoutNonce, Numbered
      <4> QED BY <3>1, <4>1, BoundsAssumption
              DEF Txs, Contents, OptNonces, Nonces
    <3>3. /\ count[c][t.what.from] \in Nat /\ count'[c][t.what.from] \in Nat
          /\ count'[c][t.what.from] >= count[c][t.what.from]
      BY <1>1, <3>2, CountsGrow DEF TypeOK
    <3>4. t.nonce >= count[c][t.what.from]
      <4>1. \A m, n, k \in Nat : k >= n /\ m >= k => m >= n
        OBVIOUS
      <4> QED BY <1>4, <3>2, <3>3, <4>1
    <3>5. PICK id \in TxIds : Holds(id, t)
      BY <1>2, <2>2, <3>4 DEF LiveInv, Open
    <3>6. Row(c, id)' # NoTx
      <4> SUFFICES ASSUME Row(c, id)' = NoTx
                   PROVE  FALSE
        OBVIOUS
      <4>1. /\ Found(id) /\ Store[id].status \in Approval
            /\ Store[id].tx = t
        BY <3>5 DEF Holds
      <4>2. t.nonce < count[c][t.what.from]
        BY <1>1, <1>2, <3>2, <4>1, GoneIsCounted
      <4> QED BY <3>2, <3>3, <3>4, <4>2
    <3> QED BY <1>1, <1>2, <3>5, <3>6, HoldsStays
  <2> QED BY <2>1, <2>2
<1>5. \A t \in pool'[chain'] : Open(t)' => \E id \in TxIds : Holds(id, t)'
  BY <1>1, <1>2, <1>4 DEF Open
<1> QED BY <1>3, <1>5 DEF LiveInv

(***************************************************************************)
(* With one account and no reset, the record of a transaction that is      *)
(* being sent is there, and so is a record of every transaction that a     *)
(* node of the selected network has accepted and whose nonce is open.      *)
(***************************************************************************)
THEOREM LiveInvariance ==
  ASSUME SingleAccount
  PROVE  Spec => []LiveInv
<1>1. Init => LiveInv
  <2> SUFFICES ASSUME Init
               PROVE  LiveInv
    OBVIOUS
  <2>1. chain \in Chains /\ sendRpc = {} /\ \A c \in Chains : pool[c] = {}
    BY ChainsAssumption DEF Init, Fresh
  <2> QED BY <2>1 DEF LiveInv
<1>2. IInv /\ PaymentInv /\ StageInv /\ PayInv /\ RevertedRan /\ LiveInv /\
      [Next]_vars /\ StageInv' /\ TypeOK' => LiveInv'
  BY LiveNext
<1>3. PlainUse
  BY DEF SingleAccount
<1> QED BY <1>1, <1>2, <1>3, Invariance, PaymentInvariance, StageInvariance,
           PayInvariance, RevertedRanAlways, TypeCorrect, PTL
        DEF Spec

(***************************************************************************)
(* And nothing that can still be executed is without a record: whatever    *)
(* was accepted by a node of the one network and whose nonce is open, some *)
(* record holds exactly that transaction.                                  *)
(***************************************************************************)
THEOREM LiveTxHasRecordAlways ==
  ASSUME SingleAccount, Chains = {DefaultChain}
  PROVE  Spec => []LiveTxHasRecord
<1>1. LiveInv /\ StageInv => LiveTxHasRecord
  <2> SUFFICES ASSUME LiveInv, StageInv, NEW c \in Chains, NEW tx \in pool[c],
                      tx.nonce >= count[c][tx.what.from]
               PROVE  \E id \in TxIds : txs[c][id] # NoTx /\ txs[c][id].tx = tx
    BY DEF LiveTxHasRecord
  <2>1. c = chain
    BY DEF StageInv
  <2>2. PICK id \in TxIds : Holds(id, tx)
    BY <2>1 DEF LiveInv, Open
  <2> QED BY <2>1, <2>2 DEF Holds, Found, Store
<1>2. PlainUse
  BY DEF SingleAccount
<1> QED BY <1>1, <1>2, LiveInvariance, StageInvariance, PTL
=============================================================================
