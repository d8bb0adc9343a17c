------------------------- MODULE FilTxManagerProofs -------------------------
(***************************************************************************)
(* Every property of FilTxManagerProperties holds for every value of the   *)
(* constants: TypeOK and RetiresOldestBeyondLimit in all surroundings, the *)
(* others as long as the network is not switched while an approval is      *)
(* under way and a transaction that waits for its nonce is not approved    *)
(* again.  What the nonce tracker and the store do with one sequence or    *)
(* one store is proved in NonceTrackerProofs and TxStateManagerProofs.     *)
(***************************************************************************)
EXTENDS FilTxManagerProperties, TxStateManagerProofs, NonceTrackerProofs

-----------------------------------------------------------------------------
(* Types.  Every step leaves the stores alone, saves one record, or wipes  *)
(* them.                                                                   *)

Wiped == txs' = [net \in Networks |-> EmptyStore]
Saved == txs' = txs \/ (\E meta \in Metas : Save(meta)) \/ Wiped

TypeStep == TypeOK' /\ Saved

LEMMA StoreType ==
  ASSUME TypeOK
  PROVE  /\ network \in Networks
         /\ Store \in [TxIds -> Metas \cup {NoTx}]
         /\ \A id \in TxIds : Found(id) => Store[id] \in Metas
BY DEF TypeOK, Store, Found

LEMMA SaveType ==
  ASSUME TypeOK, NEW meta \in Metas, Save(meta)
  PROVE  txs' \in [Networks -> [TxIds -> Metas \cup {NoTx}]] /\ Saved
<1> DEFINE after == AddOrUpdateTx(Store, meta)
<1>1. meta.id \in TxIds
  BY DEF Metas
<1>2. after \in [TxIds -> Metas \cup {NoTx}]
  BY <1>1, StoreType, AddOrUpdateEffect
<1>3. txs' = [txs EXCEPT ![network] = after]
  BY DEF Save
<1> HIDE DEF after
<1> QED BY <1>2, <1>3 DEF TypeOK, Saved

LEMMA UpdatePendingType ==
  ASSUME TypeOK, NEW store \in [TxIds -> Metas \cup {NoTx}],
         NEW isRunning \in BOOLEAN,
         UpdatePendingTransactions(store, isRunning)
  PROVE  /\ txs' = [txs EXCEPT ![network] = store]
         /\ txs' \in [Networks -> [TxIds -> Metas \cup {NoTx}]]
         /\ running' \in BOOLEAN /\ knownNoPending' \in BOOLEAN
         /\ searchRpc' \subseteq [id : TxIds, net : Networks,
                                  cid : Messages \cup {NoCid}]
<1>1. txs' = [txs EXCEPT ![network] = store]
  BY DEF UpdatePendingTransactions
<1>2. txs' \in [Networks -> [TxIds -> Metas \cup {NoTx}]]
  BY <1>1 DEF TypeOK
<1>3. running' \in BOOLEAN /\ knownNoPending' \in BOOLEAN
  BY DEF TypeOK, UpdatePendingTransactions, CheckIfBlockTrackerShouldRun
<1>4. \A id \in IdsByStatus(store, {"Submitted"}) :
        id \in TxIds /\ store[id].cid \in Messages \cup {NoCid}
  BY DEF IdsByStatus, Metas
<1>5. searchRpc' = searchRpc \cup
        {[id |-> id, net |-> network, cid |-> store[id].cid] :
           id \in IdsByStatus(store, {"Submitted"})}
  BY DEF UpdatePendingTransactions
<1>6. searchRpc' \subseteq [id : TxIds, net : Networks,
                            cid : Messages \cup {NoCid}]
  BY <1>4, <1>5 DEF TypeOK
<1> QED BY <1>1, <1>2, <1>3, <1>6

LEMMA SameStore ==
  ASSUME TypeOK, txs' = [txs EXCEPT ![network] = Store]
  PROVE  txs' = txs
BY DEF TypeOK, Store

\* Fields of a record written by a handler.
LEMMA MetaEdits ==
  ASSUME NEW meta \in Metas, NEW nonce \in Nonces, NEW m \in Messages,
         NEW status \in Status, NEW time \in Nat
  PROVE  /\ [meta EXCEPT !.status = status] \in Metas
         /\ [meta EXCEPT !.nonce = nonce, !.status = status] \in Metas
         /\ [meta EXCEPT !.status = status, !.cid = m] \in Metas
         /\ [meta EXCEPT !.status = status, !.confirmedTime = time] \in Metas
         /\ [what |-> meta.id, nonce |-> nonce] \in Messages
BY DEF Metas, Messages, OptNonces

LEMMA SignAndSendType ==
  ASSUME TypeOK, NEW meta \in Metas, NEW nonce \in Nonces,
         SignAndSend(meta, nonce)
  PROVE  /\ txs' \in [Networks -> [TxIds -> Metas \cup {NoTx}]] /\ Saved
         /\ sendRpc' \subseteq SendRequests
<1> DEFINE saved   == [meta EXCEPT !.nonce = nonce, !.status = "Approved"]
           message == [what |-> meta.id, nonce |-> nonce]
<1>1. saved \in Metas /\ message \in Messages /\ meta.id \in TxIds
  BY DEF Status, Metas, Messages, OptNonces
<1>2. Save(saved)
  BY DEF SignAndSend
<1>3. sendRpc' \in {sendRpc, sendRpc \cup
        {[id |-> meta.id, net |-> network, message |-> message,
          state |-> "sent"]}}
  BY DEF SignAndSend, SendFilecoinTransaction
<1> HIDE DEF saved, message
<1>4. sendRpc' \subseteq SendRequests
  BY <1>1, <1>3 DEF TypeOK, SendRequests
<1> QED BY <1>1, <1>2, <1>4, SaveType

LEMMA MessageToSignType ==
  ASSUME TypeOK, NEW meta \in Metas, NEW nonce \in Nonces,
         MessageToSign(meta, nonce)
  PROVE  /\ txs' \in [Networks -> [TxIds -> Metas \cup {NoTx}]] /\ Saved
         /\ device' \subseteq [id : TxIds, message : Messages]
<1> DEFINE saved   == [meta EXCEPT !.nonce = nonce, !.status = "Approved"]
           message == [what |-> meta.id, nonce |-> nonce]
<1>1. saved \in Metas /\ message \in Messages /\ meta.id \in TxIds
  BY DEF Status, Metas, Messages, OptNonces
<1>2. Save(saved)
  BY DEF MessageToSign
<1>3. device' = device \cup {[id |-> meta.id, message |-> message]}
  BY DEF MessageToSign
<1> HIDE DEF saved, message
<1>4. device' \subseteq [id : TxIds, message : Messages]
  BY <1>1, <1>3 DEF TypeOK
<1> QED BY <1>1, <1>2, <1>4, SaveType

LEMMA StatusEdits ==
  ASSUME NEW meta \in Metas, NEW status \in Status
  PROVE  [meta EXCEPT !.status = status] \in Metas
BY DEF Metas

LEMMA InitType ==
  ASSUME Init
  PROVE  TypeOK
<1>1. /\ env \in Surroundings /\ network \in Networks /\ used \subseteq TxIds
      /\ pool \in [Networks -> SUBSET Messages]
      /\ executed \in [Networks -> SUBSET Messages]
      /\ failed \in [Networks -> SUBSET Messages]
      /\ count \in [Networks -> Nat]
  BY NetworksAssumption DEF Init
<1>2. txs \in [Networks -> [TxIds -> Metas \cup {NoTx}]]
  BY DEF Init, EmptyStore
<1>3. /\ locked \in BOOLEAN
      /\ running \in BOOLEAN /\ heightRpc \in BOOLEAN
      /\ knownNoPending \in BOOLEAN
      /\ nonceRpc = {} /\ device = {} /\ sendRpc = {} /\ searchRpc = {}
  BY DEF Init, Fresh
<1>4. notices \in Seq(KeyringNotices)
  <2>1. notices = <<>>
    BY DEF Init, Fresh
  <2> QED BY <2>1
<1> QED BY <1>1, <1>2, <1>3, <1>4 DEF TypeOK

LEMMA AddType ==
  ASSUME TypeOK, NEW id \in TxIds, NEW nonce \in {NoNonce, 0},
         ContinueAddUnapprovedTransaction(id, nonce)
  PROVE  TypeStep
<1> DEFINE c    == Cardinality(used) + 1
           meta == [id |-> id, nonce |-> nonce, status |-> "Unapproved",
                    cid |-> NoCid, createdTime |-> c, confirmedTime |-> 0]
<1>1. c \in Nat
  <2>1. IsFiniteSet(used)
    BY TxIdsAssumption, FS_Subset DEF TypeOK
  <2> QED BY <2>1, FS_CardinalityType
<1>2. Save(meta)
  BY DEF ContinueAddUnapprovedTransaction
<1> HIDE DEF c
<1>3. nonce \in OptNonces
  BY BoundsAssumption DEF OptNonces, Nonces
<1>4. meta \in Metas
  BY <1>1, <1>3 DEF Metas, Status
<1> HIDE DEF meta
<1>5. txs' \in [Networks -> [TxIds -> Metas \cup {NoTx}]] /\ Saved
  BY <1>2, <1>4, SaveType
<1> QED BY <1>5 DEF TypeStep, TypeOK, ContinueAddUnapprovedTransaction,
           keyringVars, trackerVars, networkVars

LEMMA RejectType ==
  ASSUME TypeOK, NEW id \in TxIds, RejectTransaction(id)
  PROVE  TypeStep
<1> DEFINE meta == [Store[id] EXCEPT !.status = "Rejected"]
<1>1. meta \in Metas
  BY StoreType, StatusEdits DEF RejectTransaction, HasStatus, Status
<1>2. Save(meta)
  BY DEF RejectTransaction
<1> HIDE DEF meta
<1>3. txs' \in [Networks -> [TxIds -> Metas \cup {NoTx}]] /\ Saved
  BY <1>1, <1>2, SaveType
<1> QED BY <1>3 DEF TypeStep, TypeOK, RejectTransaction,
           keyringVars, trackerVars, networkVars

LEMMA NonceRequestType ==
  ASSUME TypeOK, NEW id \in TxIds, Found(id), NEW isHardware \in BOOLEAN,
         NonceRequest(id, isHardware)
  PROVE  nonceRpc' \subseteq NonceRequests
<1>1. QueueLength \in Nat
  <2>1. IsFiniteSet(IdsByStatus(Store, {"Unapproved"}))
    BY TxIdsAssumption, FS_Subset DEF IdsByStatus
  <2> QED BY <2>1, FS_CardinalityType DEF QueueLength
<1> QED BY <1>1, StoreType DEF NonceRequest, TypeOK, NonceRequests

LEMMA KnownNonceType ==
  ASSUME TypeOK, NEW id \in TxIds, Found(id), Store[id].nonce # NoNonce
  PROVE  Store[id].nonce \in Nonces
BY StoreType DEF Metas, OptNonces

LEMMA ApproveType ==
  ASSUME TypeOK, NEW id \in TxIds, ApproveTransaction(id)
  PROVE  TypeStep
<1>1. Found(id) /\ Store[id] \in Metas
  BY StoreType DEF ApproveTransaction, PanelOffersApproval, HasStatus
<1>2. CASE /\ NonceRequest(id, FALSE)
           /\ UNCHANGED <<txs, sendRpc>>
  <2>1. nonceRpc' \subseteq NonceRequests
    BY <1>1, <1>2, NonceRequestType
  <2> QED BY <1>2, <2>1 DEF TypeStep, Saved, TypeOK, ApproveTransaction,
             keyringVars, trackerVars, networkVars
<1>3. CASE /\ Store[id].nonce # NoNonce
           /\ SignAndSend(Store[id], Store[id].nonce)
           /\ UNCHANGED nonceRpc
  <2>1. Store[id].nonce \in Nonces
    BY <1>1, <1>3, KnownNonceType
  <2>2. /\ txs' \in [Networks -> [TxIds -> Metas \cup {NoTx}]] /\ Saved
        /\ sendRpc' \subseteq SendRequests
    BY <1>1, <1>3, <2>1, SignAndSendType
  <2> QED BY <1>3, <2>2 DEF TypeStep, TypeOK, ApproveTransaction,
             keyringVars, trackerVars, networkVars
<1> QED BY <1>2, <1>3 DEF ApproveTransaction

LEMMA ToSignType ==
  ASSUME TypeOK, NEW id \in TxIds, GetTransactionMessageToSign(id)
  PROVE  TypeStep
<1>1. Found(id) /\ Store[id] \in Metas
  BY StoreType DEF GetTransactionMessageToSign, PanelOffersApproval, HasStatus
<1>2. CASE /\ NonceRequest(id, TRUE)
           /\ UNCHANGED <<txs, device>>
  <2>1. nonceRpc' \subseteq NonceRequests
    BY <1>1, <1>2, NonceRequestType
  <2> QED BY <1>2, <2>1 DEF TypeStep, Saved, TypeOK,
             GetTransactionMessageToSign, keyringVars, trackerVars, networkVars
<1>3. CASE /\ Store[id].nonce # NoNonce
           /\ MessageToSign(Store[id], Store[id].nonce)
           /\ UNCHANGED nonceRpc
  <2>1. Store[id].nonce \in Nonces
    BY <1>1, <1>3, KnownNonceType
  <2>2. /\ txs' \in [Networks -> [TxIds -> Metas \cup {NoTx}]] /\ Saved
        /\ device' \subseteq [id : TxIds, message : Messages]
    BY <1>1, <1>3, <2>1, MessageToSignType
  <2> QED BY <1>3, <2>2 DEF TypeStep, TypeOK, GetTransactionMessageToSign,
             keyringVars, trackerVars, networkVars
<1> QED BY <1>2, <1>3 DEF GetTransactionMessageToSign

LEMMA NonceAnswerType ==
  ASSUME TypeOK, NEW r \in nonceRpc,
         OnGetNextNonce(r) \/ OnGetNextNonceForHardware(r)
           \/ GetNextNonceFails(r)
  PROVE  TypeStep
<1>1. r.meta \in Metas /\ nonceRpc \subseteq NonceRequests
  BY DEF TypeOK, NonceRequests
<1>2. CASE OnGetNextNonce(r)
  <2>1. PICK nonce \in Nonces : SignAndSend(r.meta, nonce)
    BY <1>2 DEF OnGetNextNonce
  <2>2. /\ txs' \in [Networks -> [TxIds -> Metas \cup {NoTx}]] /\ Saved
        /\ sendRpc' \subseteq SendRequests
    BY <1>1, <2>1, SignAndSendType
  <2> QED BY <1>1, <1>2, <2>2 DEF TypeStep, TypeOK, OnGetNextNonce,
             keyringVars, trackerVars, networkVars
<1>3. CASE OnGetNextNonceForHardware(r)
  <2>1. PICK nonce \in Nonces : MessageToSign(r.meta, nonce)
    BY <1>3 DEF OnGetNextNonceForHardware
  <2>2. /\ txs' \in [Networks -> [TxIds -> Metas \cup {NoTx}]] /\ Saved
        /\ device' \subseteq [id : TxIds, message : Messages]
    BY <1>1, <2>1, MessageToSignType
  <2> QED BY <1>1, <1>3, <2>2 DEF TypeStep, TypeOK, OnGetNextNonceForHardware,
             keyringVars, trackerVars, networkVars
<1>4. CASE GetNextNonceFails(r)
  <2> DEFINE meta == [r.meta EXCEPT !.status = "Error"]
  <2>1. meta \in Metas /\ Save(meta)
    BY <1>1, <1>4, StatusEdits DEF GetNextNonceFails, Status
  <2> HIDE DEF meta
  <2>2. txs' \in [Networks -> [TxIds -> Metas \cup {NoTx}]] /\ Saved
    BY <2>1, SaveType
  <2> QED BY <1>1, <1>4, <2>2 DEF TypeStep, TypeOK, GetNextNonceFails,
             keyringVars, trackerVars, networkVars
<1> QED BY <1>2, <1>3, <1>4

LEMMA SignatureType ==
  ASSUME TypeOK, NEW d \in device, ProcessFilHardwareSignature(d)
  PROVE  TypeStep
<1>1. d.id \in TxIds /\ d.message \in Messages
  BY DEF TypeOK
<1>2. CASE ~Found(d.id)
  BY <1>2 DEF TypeStep, Saved, TypeOK, ProcessFilHardwareSignature,
     keyringVars, trackerVars, networkVars
<1>3. CASE Found(d.id)
  <2> DEFINE meta == [Store[d.id] EXCEPT !.status = "Approved"]
  <2>1. meta \in Metas
    BY <1>1, <1>3, StoreType, StatusEdits DEF Status
  <2>2. Save(meta) /\ SendFilecoinTransaction(d.id, d.message)
    BY <1>3 DEF ProcessFilHardwareSignature
  <2> HIDE DEF meta
  <2>3. txs' \in [Networks -> [TxIds -> Metas \cup {NoTx}]] /\ Saved
    BY <2>1, <2>2, SaveType
  <2>4. sendRpc' \subseteq SendRequests
    BY <1>1, <2>2 DEF SendFilecoinTransaction, TypeOK, SendRequests
  <2> QED BY <2>3, <2>4 DEF TypeStep, TypeOK, ProcessFilHardwareSignature,
             keyringVars, trackerVars, networkVars
<1> QED BY <1>2, <1>3

LEMMA SentAnswerType ==
  ASSUME TypeOK, NEW r \in sendRpc, OnSendFilecoinTransaction(r)
  PROVE  TypeStep
<1>1. r.id \in TxIds /\ r.message \in Messages
  BY DEF TypeOK, SendRequests
<1>2. CASE ~Found(r.id) /\ UNCHANGED <<txs, trackerVars>>
  BY <1>2 DEF TypeStep, Saved, TypeOK, OnSendFilecoinTransaction,
     keyringVars, trackerVars, networkVars
<1>3. CASE /\ Found(r.id)
           /\ UpdatePendingTransactions(
                AddOrUpdateTx(Store, [Store[r.id] EXCEPT !.status = "Submitted",
                                                         !.cid = r.message]),
                running)
  <2> DEFINE meta  == [Store[r.id] EXCEPT !.status = "Submitted",
                                          !.cid = r.message]
             after == AddOrUpdateTx(Store, meta)
  <2>1. meta \in Metas
    BY <1>1, <1>3, StoreType DEF Metas, Status
  <2>2. UpdatePendingTransactions(after, running)
    BY <1>3
  <2> HIDE DEF meta
  <2>3. meta.id \in TxIds
    BY <2>1 DEF Metas
  <2>4. after \in [TxIds -> Metas \cup {NoTx}]
    BY <2>1, <2>3, StoreType, AddOrUpdateEffect
  <2> HIDE DEF after
  <2>5. /\ txs' = [txs EXCEPT ![network] = after]
        /\ txs' \in [Networks -> [TxIds -> Metas \cup {NoTx}]]
        /\ running' \in BOOLEAN /\ knownNoPending' \in BOOLEAN
        /\ searchRpc' \subseteq [id : TxIds, net : Networks,
                                 cid : Messages \cup {NoCid}]
    BY <2>2, <2>4, UpdatePendingType DEF TypeOK
  <2>6. Saved
    BY <2>1, <2>5 DEF after, Saved, Save
  <2> QED BY <2>5, <2>6 DEF TypeStep, TypeOK, OnSendFilecoinTransaction,
             keyringVars, networkVars
<1>4. CASE /\ Found(r.id)
           /\ Save([Store[r.id] EXCEPT !.status = "Error"])
           /\ UNCHANGED trackerVars
  <2> DEFINE meta == [Store[r.id] EXCEPT !.status = "Error"]
  <2>1. meta \in Metas /\ Save(meta)
    BY <1>1, <1>4, StoreType, StatusEdits DEF Status
  <2> HIDE DEF meta
  <2>2. txs' \in [Networks -> [TxIds -> Metas \cup {NoTx}]] /\ Saved
    BY <2>1, SaveType
  <2> QED BY <1>4, <2>2 DEF TypeStep, TypeOK, OnSendFilecoinTransaction,
             keyringVars, trackerVars, networkVars
<1> QED BY <1>2, <1>3, <1>4 DEF OnSendFilecoinTransaction

LEMMA HeightType ==
  ASSUME TypeOK, GetFilBlockHeight \/ OnLatestHeightUpdated
  PROVE  TypeStep
<1>1. CASE GetFilBlockHeight
  BY <1>1 DEF TypeStep, Saved, TypeOK, GetFilBlockHeight, prefsVars,
     keyringVars, trackerVars, networkVars
<1>2. CASE OnLatestHeightUpdated /\ UNCHANGED <<txs, trackerVars>>
  BY <1>2 DEF TypeStep, Saved, TypeOK, OnLatestHeightUpdated,
     keyringVars, trackerVars, networkVars
<1>3. CASE OnLatestHeightUpdated /\ UpdatePendingTransactions(Store, running)
  <2>1. /\ txs' = [txs EXCEPT ![network] = Store]
        /\ running' \in BOOLEAN /\ knownNoPending' \in BOOLEAN
        /\ searchRpc' \subseteq [id : TxIds, net : Networks,
                                 cid : Messages \cup {NoCid}]
    BY <1>3, StoreType, UpdatePendingType DEF TypeOK
  <2>2. txs' = txs
    BY <2>1, SameStore
  <2> QED BY <1>3, <2>1, <2>2 DEF TypeStep, Saved, TypeOK,
             OnLatestHeightUpdated, keyringVars, networkVars
<1> QED BY <1>1, <1>2, <1>3 DEF OnLatestHeightUpdated

LEMMA SearchType ==
  ASSUME TypeOK, NEW r \in searchRpc,
         OnGetFilStateSearchMsgLimited(r) \/ NotFoundYet(r)
  PROVE  TypeStep
<1>0. r.id \in TxIds
  BY DEF TypeOK
<1>1. CASE NotFoundYet(r)
  BY <1>1 DEF TypeStep, Saved, TypeOK, NotFoundYet, prefsVars,
     keyringVars, networkVars
<1>2. CASE OnGetFilStateSearchMsgLimited(r)
  <2>1. \/ txs' = txs
        \/ \E meta \in Metas : Save(meta)
    <3>1. CASE UNCHANGED txs
      BY <3>1
    <3>2. ASSUME Found(r.id), NEW t \in Ticks,
                 Save([Store[r.id] EXCEPT !.status = "Confirmed",
                                          !.confirmedTime = t])
          PROVE  \E meta \in Metas : Save(meta)
      <4> DEFINE meta == [Store[r.id] EXCEPT !.status = "Confirmed",
                                             !.confirmedTime = t]
      <4>1. t \in Nat
        BY DEF Ticks
      <4>2. meta \in Metas
        BY <1>0, <3>2, <4>1, StoreType DEF Metas, Status
      <4> HIDE DEF meta
      <4>3. Save(meta)
        BY <3>2 DEF meta
      <4> QED BY <4>2, <4>3
    <3>3. ASSUME Found(r.id), Save([Store[r.id] EXCEPT !.status = "Error"])
          PROVE  \E meta \in Metas : Save(meta)
      <4> DEFINE meta == [Store[r.id] EXCEPT !.status = "Error"]
      <4>1. meta \in Metas
        BY <1>0, <3>3, StoreType, StatusEdits DEF Status
      <4>2. Save(meta)
        BY <3>3
      <4> HIDE DEF meta
      <4> QED BY <4>1, <4>2
    <3> QED BY <1>2, <3>1, <3>2, <3>3 DEF OnGetFilStateSearchMsgLimited
  <2>2. txs' \in [Networks -> [TxIds -> Metas \cup {NoTx}]] /\ Saved
    BY <2>1, SaveType DEF Saved, TypeOK
  <2> QED BY <1>2, <2>2 DEF TypeStep, TypeOK, OnGetFilStateSearchMsgLimited,
             keyringVars, networkVars
<1> QED BY <1>1, <1>2

LEMMA KeyringType ==
  ASSUME TypeOK,
         Lock \/ \E notice \in {"Unlocked", "KeyringCreated"} : Unlock(notice)
  PROVE  TypeStep
<1>1. PICK notice \in KeyringNotices : notices' = Append(notices, notice)
  BY DEF Lock, Unlock, KeyringNotices
<1>2. notices' \in Seq(KeyringNotices)
  BY <1>1 DEF TypeOK
<1>3. locked' \in BOOLEAN
  BY DEF Lock, Unlock
<1> QED BY <1>2, <1>3 DEF TypeStep, Saved, TypeOK, Lock, Unlock, prefsVars,
           trackerVars, networkVars

LEMMA NoticeType ==
  ASSUME TypeOK, OnKeyringNotice
  PROVE  TypeStep
<1>1. notices' \in Seq(KeyringNotices)
  BY DEF TypeOK, OnKeyringNotice
<1> DEFINE isRunning == IF ChecksTracker(Head(notices))
                        THEN CheckIfBlockTrackerShouldRun(locked, running,
                                                          knownNoPending)
                        ELSE running
<1>2. isRunning \in BOOLEAN
  BY DEF TypeOK, CheckIfBlockTrackerShouldRun
<1>3. \/ UpdatePendingTransactions(Store, isRunning)
      \/ running' = isRunning /\ UNCHANGED <<txs, knownNoPending, searchRpc>>
  BY DEF OnKeyringNotice
<1> HIDE DEF isRunning
<1>4. /\ txs' = txs
      /\ running' \in BOOLEAN /\ knownNoPending' \in BOOLEAN
      /\ searchRpc' \subseteq [id : TxIds, net : Networks,
                               cid : Messages \cup {NoCid}]
  <2>1. CASE UpdatePendingTransactions(Store, isRunning)
    <3>1. /\ txs' = [txs EXCEPT ![network] = Store]
          /\ running' \in BOOLEAN /\ knownNoPending' \in BOOLEAN
          /\ searchRpc' \subseteq [id : TxIds, net : Networks,
                                   cid : Messages \cup {NoCid}]
      BY <1>2, <2>1, StoreType, UpdatePendingType
    <3> QED BY <3>1, SameStore
  <2>2. CASE running' = isRunning /\ UNCHANGED <<txs, knownNoPending, searchRpc>>
    BY <1>2, <2>2 DEF TypeOK
  <2> QED BY <1>3, <2>1, <2>2
<1> QED BY <1>1, <1>4 DEF TypeStep, Saved, TypeOK, OnKeyringNotice, networkVars

LEMMA SetNetworkType ==
  ASSUME TypeOK, NEW net \in Networks, SetNetwork(net)
  PROVE  TypeStep
BY DEF TypeStep, Saved, TypeOK, SetNetwork, keyringVars, trackerVars,
   networkVars

LEMMA ResetType ==
  ASSUME TypeOK, Reset
  PROVE  TypeStep
<1>1. notices' \in Seq(KeyringNotices)
  BY DEF TypeOK, Reset, KeyringNotices
<1>2. Wiped /\ txs' \in [Networks -> [TxIds -> Metas \cup {NoTx}]]
  BY DEF Reset, Wiped, EmptyStore
<1> QED BY <1>1, <1>2, NetworksAssumption
        DEF TypeStep, Saved, TypeOK, Reset, networkVars

LEMMA RestartType ==
  ASSUME TypeOK, Restart
  PROVE  TypeStep
<1>1. notices' \in Seq(KeyringNotices)
  BY DEF Restart
<1> QED BY <1>1 DEF TypeStep, Saved, TypeOK, Restart, prefsVars, networkVars

LEMMA NodeType ==
  ASSUME TypeOK, NEW r \in sendRpc, NodeAccepts(r) \/ NodeRefuses(r)
  PROVE  TypeStep
<1>1. r \in SendRequests
  BY DEF TypeOK
<1>2. ASSUME NEW state \in {"accepted", "refused"},
             sendRpc' = (sendRpc \ {r}) \cup {[r EXCEPT !.state = state]}
      PROVE  sendRpc' \subseteq SendRequests
  <2>1. [r EXCEPT !.state = state] \in SendRequests
    BY <1>1 DEF SendRequests
  <2> QED BY <1>2, <2>1 DEF TypeOK
<1>3. sendRpc' \subseteq SendRequests
  BY <1>2 DEF NodeAccepts, NodeRefuses
<1>4. pool' \in [Networks -> SUBSET Messages]
  <2>1. r.message \in Messages
    BY <1>1 DEF SendRequests
  <2>2. pool' \in {pool, [pool EXCEPT ![r.net] = @ \cup {r.message}]}
    BY DEF NodeAccepts, NodeRefuses, networkVars
  <2>3. pool \in [Networks -> SUBSET Messages]
    BY DEF TypeOK
  <2>4. [pool EXCEPT ![r.net] = @ \cup {r.message}]
          \in [Networks -> SUBSET Messages]
    BY <2>1, <2>3
  <2> QED BY <2>2, <2>3, <2>4
<1> QED BY <1>3, <1>4 DEF TypeStep, Saved, TypeOK, NodeAccepts, NodeRefuses,
           prefsVars, keyringVars, trackerVars, networkVars

LEMMA ExecuteType ==
  ASSUME TypeOK, NEW net \in Networks, NEW m \in pool[net],
         NEW fails \in BOOLEAN, Execute(net, m, fails)
  PROVE  TypeStep
<1>1. m \in Messages
  BY DEF TypeOK
<1>2. /\ executed' \in [Networks -> SUBSET Messages]
      /\ failed' \in [Networks -> SUBSET Messages]
      /\ count' \in [Networks -> Nat]
  BY <1>1 DEF TypeOK, Execute
<1> QED BY <1>2 DEF TypeStep, Saved, TypeOK, Execute, prefsVars, keyringVars,
           trackerVars

LEMMA NextType ==
  ASSUME TypeOK, [Next]_vars
  PROVE  TypeStep
<1>1. CASE UNCHANGED vars
  BY <1>1 DEF TypeStep, Saved, TypeOK, vars, prefsVars, keyringVars,
     trackerVars, networkVars
<1>2. CASE Next
  BY <1>2, AddType, RejectType, ApproveType, ToSignType, NonceAnswerType,
     SignatureType, SentAnswerType, HeightType, SearchType, KeyringType,
     NoticeType, SetNetworkType, ResetType, RestartType, NodeType, ExecuteType
     DEF Next
<1> QED BY <1>1, <1>2

(***************************************************************************)
(* Type correctness, in all surroundings.                                  *)
(***************************************************************************)
THEOREM TypeCorrect == Spec => []TypeOK
<1>1. Init => TypeOK
  BY InitType
<1>2. TypeOK /\ [Next]_vars => TypeOK'
  BY NextType DEF TypeStep
<1> QED BY <1>1, <1>2, PTL DEF Spec

-----------------------------------------------------------------------------
(* Retiring.                                                               *)

RetiresOldest ==
  \A net \in Networks : \A id \in TxIds :
    txs[net][id] # NoTx /\ txs'[net][id] = NoTx
      /\ txs' # [n \in Networks |-> EmptyStore] =>
      LET status == txs[net][id].status
          stay   == IdsByStatus(txs'[net], {status})
      IN  /\ status \in {"Confirmed", "Rejected"}
          /\ Cardinality(stay) >= Limit[status]
          /\ \A other \in stay :
               AgeStamp(txs[net][id]) <= AgeStamp(txs'[net][other])

LEMMA SavedRetires ==
  ASSUME TypeOK, Saved
  PROVE  RetiresOldest
<1> SUFFICES ASSUME NEW net \in Networks, NEW id \in TxIds,
                    txs[net][id] # NoTx, txs'[net][id] = NoTx, ~Wiped
             PROVE  LET status == txs[net][id].status
                        stay   == IdsByStatus(txs'[net], {status})
                    IN  /\ status \in {"Confirmed", "Rejected"}
                        /\ Cardinality(stay) >= Limit[status]
                        /\ \A other \in stay :
                             AgeStamp(txs[net][id])
                               <= AgeStamp(txs'[net][other])
  BY DEF RetiresOldest, Wiped
<1>1. PICK meta \in Metas : Save(meta)
  BY DEF Saved
<1>2. /\ network \in Networks
      /\ txs' = [txs EXCEPT ![network] = AddOrUpdateTx(Store, meta)]
  BY <1>1 DEF TypeOK, Save
<1>3. net = network /\ txs'[net] = AddOrUpdateTx(Store, meta)
  BY <1>2 DEF TypeOK
<1>4. txs[net] = Store /\ Store \in [TxIds -> Metas \cup {NoTx}]
  BY <1>3, StoreType DEF Store
<1>5. Aged(Metas) /\ meta.id \in TxIds
  BY NoTxAssumption DEF Aged, Metas, AgeStamp
<1>6. \/ RetiredFairly(txs[net], txs'[net], id, "Confirmed", KMaxConfirmed)
      \/ RetiredFairly(txs[net], txs'[net], id, "Rejected", KMaxRejected)
  BY <1>3, <1>4, <1>5, AddOrUpdateRetires
<1>7. Limit["Confirmed"] = KMaxConfirmed /\ Limit["Rejected"] = KMaxRejected
  BY DEF Limit
<1> QED BY <1>6, <1>7 DEF RetiredFairly

(***************************************************************************)
(* Retiring (TxStateManager::AddOrUpdateTx) takes the oldest confirmed or  *)
(* rejected record beyond the limit and no other, in all surroundings.     *)
(***************************************************************************)
THEOREM RetiringTakesOldest == Spec => RetiresOldestBeyondLimit
<1>1. TypeOK /\ [Next]_vars => [RetiresOldest]_vars
  BY NextType, SavedRetires DEF TypeStep
<1>2. Spec => [][RetiresOldest]_vars
  BY <1>1, TypeCorrect, PTL DEF Spec
<1> QED BY <1>2 DEF RetiresOldestBeyondLimit, RetiresOldest

-----------------------------------------------------------------------------
(* The order of the dictionary, and the nonces listed in it.               *)

Ordered(s) == \A i, j \in DOMAIN s : i < j => s[i] < s[j]
Orderable(ids) == \E s \in [1 .. Cardinality(ids) -> ids] : Ordered(s)

LEMMA IdsFinite ==
  ASSUME NEW ids \in SUBSET TxIds
  PROVE  /\ IsFiniteSet(ids) /\ Cardinality(ids) \in Nat
         /\ ids \in SUBSET Nat
<1>1. IsFiniteSet(ids)
  BY TxIdsAssumption, FS_Subset
<1> QED BY <1>1, TxIdsAssumption, FS_CardinalityType

\* The least id goes before the others.
LEMMA OneMoreOrdered ==
  ASSUME NEW ids \in SUBSET TxIds, NEW id \in ids,
         \A other \in ids : id <= other,
         Orderable(ids \ {id})
  PROVE  Orderable(ids)
<1> DEFINE rest == ids \ {id}
           k    == Cardinality(rest)
           n    == Cardinality(ids)
<1>1. n = k + 1 /\ n \in Nat /\ k \in Nat
  BY IdsFinite, FS_RemoveElement
<1>2. PICK s \in [1 .. k -> rest] : Ordered(s)
  BY DEF Orderable
<1> HIDE DEF n, k
<1> DEFINE t == [i \in 1 .. n |-> IF i = 1 THEN id ELSE s[i - 1]]
<1>3. \A i \in 1 .. n : i = 1 \/ i - 1 \in 1 .. k
  BY <1>1
<1>4. t \in [1 .. n -> ids]
  BY <1>2, <1>3 DEF rest
<1>5. \A i \in 1 .. k : s[i] \in ids /\ s[i] \in Nat /\ id < s[i] /\ id \in Nat
  <2> SUFFICES ASSUME NEW i \in 1 .. k
               PROVE  s[i] \in ids /\ s[i] \in Nat /\ id < s[i] /\ id \in Nat
    OBVIOUS
  <2>1. s[i] \in ids /\ s[i] # id
    BY <1>2
  <2>2. s[i] \in Nat /\ id \in Nat
    BY <2>1, TxIdsAssumption
  <2> QED BY <2>1, <2>2
<1>6. Ordered(t)
  <2> SUFFICES ASSUME NEW i \in 1 .. n, NEW j \in 1 .. n, i < j
               PROVE  t[i] < t[j]
    BY DEF Ordered
  <2>1. j # 1 /\ j - 1 \in 1 .. k /\ t[j] = s[j - 1]
    BY <1>1
  <2>2. CASE i = 1
    BY <1>5, <2>1, <2>2
  <2>3. CASE i # 1
    <3>1. i - 1 \in 1 .. k /\ t[i] = s[i - 1] /\ i - 1 < j - 1
      BY <1>1, <2>3
    <3> QED BY <1>2, <2>1, <3>1 DEF Ordered
  <2> QED BY <2>2, <2>3
<1> HIDE DEF t
<1> QED BY <1>4, <1>6 DEF Orderable, n

LEMMA AllOrderable ==
  ASSUME NEW ids \in SUBSET TxIds
  PROVE  Orderable(ids)
<1> DEFINE bad == {c \in Nat : \E T \in SUBSET TxIds :
                                 Cardinality(T) = c /\ ~Orderable(T)}
<1> SUFFICES ASSUME ~Orderable(ids) PROVE FALSE
  OBVIOUS
<1>1. bad \in SUBSET Nat /\ Cardinality(ids) \in bad
  BY IdsFinite
<1>2. PICK c \in bad : \A d \in bad : c <= d
  BY <1>1, LeastNatural
<1>3. PICK T \in SUBSET TxIds : Cardinality(T) = c /\ ~Orderable(T)
  BY <1>2
<1>4. c \in Nat /\ \A S \in SUBSET TxIds :
                     Cardinality(S) \in Nat /\ Cardinality(S) < c => Orderable(S)
  BY <1>2
<1> HIDE DEF bad
<1>5. T # {}
  <2> SUFFICES ASSUME T = {} PROVE FALSE
    OBVIOUS
  <2>1. Cardinality(T) = 0
    BY FS_EmptySet
  <2> DEFINE s == [i \in 1 .. 0 |-> 0]
  <2>2. s \in [1 .. 0 -> T] /\ Ordered(s)
    BY DEF Ordered
  <2> QED BY <1>3, <2>1, <2>2 DEF Orderable
<1>6. PICK id \in T : \A other \in T : id <= other
  BY <1>5, IdsFinite, LeastNatural
<1>7. T \ {id} \in SUBSET TxIds /\ Cardinality(T \ {id}) = c - 1
  BY <1>3, <1>6, IdsFinite, FS_RemoveElement
<1>8. Cardinality(T \ {id}) \in Nat
  BY <1>7, IdsFinite
<1>9. Orderable(T \ {id})
  BY <1>4, <1>7, <1>8
<1> QED BY <1>3, <1>6, <1>9, OneMoreOrdered

LEMMA InOrderLists ==
  ASSUME NEW ids \in SUBSET TxIds
  PROVE  /\ InOrder(ids) \in [1 .. Cardinality(ids) -> ids]
         /\ \A id \in ids : \E i \in 1 .. Cardinality(ids) :
              InOrder(ids)[i] = id
<1> DEFINE n == Cardinality(ids)
           s == InOrder(ids)
<1>1. s \in [1 .. n -> ids] /\ Ordered(s)
  <2>1. \E t \in [1 .. n -> ids] : Ordered(t)
    BY AllOrderable DEF Orderable
  <2> QED BY <2>1 DEF InOrder, Ordered
<1>2. n \in Nat /\ IsFiniteSet(ids) /\ ids \in SUBSET Nat
  BY IdsFinite
<1> HIDE DEF s
<1>3. s \in Injection(1 .. n, ids)
  <2> SUFFICES ASSUME NEW i \in 1 .. n, NEW j \in 1 .. n, s[i] = s[j]
               PROVE  i = j
    BY <1>1 DEF Injection, IsInjective
  <2>0. s[i] \in ids /\ s[j] \in ids
    BY <1>1
  <2>1. s[i] \in Nat /\ s[j] \in Nat
    BY <1>2, <2>0
  <2>2. ~ (i < j) /\ ~ (j < i)
    BY <1>1, <2>1 DEF Ordered
  <2>3. i \in Int /\ j \in Int
    BY <1>2
  <2> QED BY <2>2, <2>3
<1>4. Cardinality(1 .. n) = n
  BY <1>2, FS_Interval
<1>5. s \in Surjection(1 .. n, ids)
  BY <1>2, <1>3, <1>4, FS_Injection
<1> QED BY <1>1, <1>5 DEF Surjection, s

LEMMA NoncesListed ==
  ASSUME NEW store, NEW status,
         \A id \in IdsByStatus(store, {status}) : store[id].nonce \in Nat
  PROVE  /\ NoncesInOrder(store, status) \in Seq(Nat)
         /\ \A id \in IdsByStatus(store, {status}) :
              \E i \in DOMAIN NoncesInOrder(store, status) :
                NoncesInOrder(store, status)[i] = store[id].nonce
<1> DEFINE ids    == IdsByStatus(store, {status})
           n      == Cardinality(ids)
           sorted == InOrder(ids)
           nonces == NoncesInOrder(store, status)
<1>1. ids \in SUBSET TxIds
  BY DEF IdsByStatus
<1>2. n \in Nat
  BY <1>1, IdsFinite
<1>3. /\ sorted \in [1 .. n -> ids]
      /\ \A id \in ids : \E i \in 1 .. n : sorted[i] = id
  BY <1>1, InOrderLists
<1>4. nonces = [i \in 1 .. n |-> store[sorted[i]].nonce]
  BY <1>3 DEF NoncesInOrder
<1> HIDE DEF ids, n, sorted, nonces
<1>5. nonces \in [1 .. n -> Nat]
  BY <1>3, <1>4 DEF ids
<1>6. nonces \in Seq(Nat)
  BY <1>2, <1>5
<1>7. \A id \in ids : \E i \in DOMAIN nonces : nonces[i] = store[id].nonce
  BY <1>3, <1>4
<1> QED BY <1>6, <1>7 DEF ids, nonces

-----------------------------------------------------------------------------
(* The nonce handed out.                                                   *)

\* What was submitted or confirmed has a nonce.
NoncesKnown ==
  \A net \in Networks :
    \A id \in IdsByStatus(txs[net], {"Submitted", "Confirmed"}) :
      txs[net][id].nonce \in Nat

LEMMA ListedNonces ==
  ASSUME NoncesKnown, NEW net \in Networks,
         NEW status \in {"Submitted", "Confirmed"}
  PROVE  /\ NoncesInOrder(txs[net], status) \in Seq(Nat)
         /\ \A id \in IdsByStatus(txs[net], {status}) :
              \E i \in DOMAIN NoncesInOrder(txs[net], status) :
                NoncesInOrder(txs[net], status)[i] = txs[net][id].nonce
<1>1. \A id \in IdsByStatus(txs[net], {status}) : txs[net][id].nonce \in Nat
  BY DEF NoncesKnown, IdsByStatus
<1> QED BY <1>1, NoncesListed

LEMMA NetworkNonceType ==
  ASSUME NEW net \in Networks, NEW n \in NetworkNonces(net)
  PROVE  n \in Nat
BY BoundsAssumption DEF NetworkNonces, Nonces

LEMMA NoGap ==
  ASSUME NoncesKnown
  PROVE  NoGapBelowNextNonce
<1> SUFFICES ASSUME NEW net \in Networks, NEW n \in NetworkNonces(net)
             PROVE  LET confirmed == NoncesInOrder(txs[net], "Confirmed")
                        submitted == NoncesInOrder(txs[net], "Submitted")
                    IN  \A k \in HighestConfirmed(n, confirmed) ..
                                   NextNonce(txs[net], n) - 1 :
                          k \in Range(submitted)
  BY DEF NoGapBelowNextNonce
<1> DEFINE confirmed == NoncesInOrder(txs[net], "Confirmed")
           submitted == NoncesInOrder(txs[net], "Submitted")
<1>1. confirmed \in Seq(Nat) /\ submitted \in Seq(Nat) /\ n \in Nat
  BY ListedNonces, NetworkNonceType
<1>2. NextNonce(txs[net], n) = GetFinalNonce(n, confirmed, submitted)
  BY DEF NextNonce
<1> HIDE DEF confirmed, submitted
<1>3. \A k \in HighestConfirmed(n, confirmed) ..
                 GetFinalNonce(n, confirmed, submitted) - 1 :
        \E i \in DOMAIN submitted : submitted[i] = k
  BY <1>1, FinalNonce
<1>4. \A k \in HighestConfirmed(n, confirmed) .. NextNonce(txs[net], n) - 1 :
        k \in Range(submitted)
  BY <1>2, <1>3 DEF Range
<1> QED BY <1>4 DEF confirmed, submitted

LEMMA NotConsumed ==
  ASSUME NoncesKnown
  PROVE  NextNonceNotConsumed
<1> SUFFICES ASSUME NEW net \in Networks, NEW n \in NetworkNonces(net)
             PROVE  /\ NextNonce(txs[net], n) >= n
                    /\ \A id \in IdsByStatus(txs[net], {"Confirmed"}) :
                         NextNonce(txs[net], n) > txs[net][id].nonce
  BY DEF NextNonceNotConsumed
<1> DEFINE confirmed == NoncesInOrder(txs[net], "Confirmed")
           submitted == NoncesInOrder(txs[net], "Submitted")
<1>1. confirmed \in Seq(Nat) /\ submitted \in Seq(Nat) /\ n \in Nat
  BY ListedNonces, NetworkNonceType
<1>2. NextNonce(txs[net], n) = GetFinalNonce(n, confirmed, submitted)
  BY DEF NextNonce
<1>3. \A id \in IdsByStatus(txs[net], {"Confirmed"}) :
        \E i \in DOMAIN confirmed : confirmed[i] = txs[net][id].nonce
  BY ListedNonces
<1> HIDE DEF confirmed, submitted
<1>4. /\ GetFinalNonce(n, confirmed, submitted) >= n
      /\ \A i \in DOMAIN confirmed :
           GetFinalNonce(n, confirmed, submitted) > confirmed[i]
  BY <1>1, FinalNonce
<1> QED BY <1>2, <1>3, <1>4

LEMMA FreshInOrder ==
  ASSUME NoncesKnown
  PROVE  FreshWhenListedInNonceOrder
<1> SUFFICES ASSUME NEW net \in Networks,
                    Increasing(NoncesInOrder(txs[net], "Submitted")),
                    NEW n \in NetworkNonces(net)
             PROVE  NextNonce(txs[net], n)
                      \notin Range(NoncesInOrder(txs[net], "Submitted"))
  BY DEF FreshWhenListedInNonceOrder, Increasing
<1> DEFINE confirmed == NoncesInOrder(txs[net], "Confirmed")
           submitted == NoncesInOrder(txs[net], "Submitted")
<1>1. confirmed \in Seq(Nat) /\ submitted \in Seq(Nat) /\ n \in Nat
  BY ListedNonces, NetworkNonceType
<1>2. NextNonce(txs[net], n) = GetFinalNonce(n, confirmed, submitted)
  BY DEF NextNonce
<1>3. Increasing(submitted)
  OBVIOUS
<1> HIDE DEF confirmed, submitted
<1>4. \A i \in DOMAIN submitted :
        submitted[i] # GetFinalNonce(n, confirmed, submitted)
  BY <1>1, <1>3, FinalNonce
<1>5. NextNonce(txs[net], n) \notin Range(submitted)
  BY <1>2, <1>4 DEF Range
<1> QED BY <1>5 DEF submitted

-----------------------------------------------------------------------------
(* The stages of a transaction.                                            *)

\* The surroundings in which the network is not switched between a request of
\* an approval and its answer, and the panel's button does not come back while
\* an approval waits for its nonce.
PlainUse == \A e \in Surroundings : e \cap {"SwitchMeanwhile", "ReApprove"} = {}

\* What there is of one transaction: rows, requests and messages in pools.
Row(net, id)  == txs[net][id]
Stored(net, id) == Row(net, id) # NoTx
Asked(id)     == {r \in nonceRpc : r.meta.id = id}
Held(id)      == {d \in device : d.id = id}
Sending(id)   == {r \in sendRpc : r.id = id}
Searched(id)  == {r \in searchRpc : r.id = id}
Known(id)     == {m \in Messages : m.what = id
                                   /\ \E net \in Networks : m \in pool[net]}

Idle(id)  == Asked(id) = {} /\ Held(id) = {} /\ Sending(id) = {}
Clean(id) == Sending(id) = {} /\ Searched(id) = {} /\ Known(id) = {}

\* A row names its message, and one shown as confirmed was executed.
RowOK(net, id, row) ==
  /\ row.id = id
  /\ row.status \in {"Approved", "Submitted", "Confirmed"} =>
       row.nonce # NoNonce
  /\ row.status \in {"Submitted", "Confirmed"} =>
       row.cid # NoCid /\ row.cid.what = id
  /\ row.status = "Confirmed" => row.cid \in executed[net] \ failed[net]

RowsOK(id) ==
  \A net \in Networks : Stored(net, id) => RowOK(net, id, Row(net, id))

\* It is stored under one network at most, the selected one while anything of
\* its approval is under way.
OneHome(id) ==
  \A net \in Networks : Stored(net, id) =>
    /\ \A other \in Networks : Stored(other, id) => other = net
    /\ ~Idle(id) => net = network

RowIn(id, statuses) ==
  \A net \in Networks : Stored(net, id) => Row(net, id).status \in statuses

Numbered(id) ==
  \A net \in Networks : Stored(net, id) => Row(net, id).nonce # NoNonce

\* One stage after the other: it is unapproved, it is approved once, by the
\* wallet or on the device, it is sent once, and then it is searched for.  It
\* may be rejected at any of them.
OneStage(id) ==
  /\ \A r1, r2 \in Asked(id) : r1 = r2
  /\ \A d1, d2 \in Held(id) : d1 = d2
  /\ \A r1, r2 \in Sending(id) : r1 = r2
  /\ Asked(id) # {} =>
       Held(id) = {} /\ Clean(id) /\ RowIn(id, {"Unapproved", "Rejected"})
  /\ \A net \in Networks :
       Stored(net, id) /\ Row(net, id).status = "Unapproved" =>
         Held(id) = {} /\ Clean(id)
  /\ Held(id) # {} => Clean(id)
  /\ Sending(id) # {} => Searched(id) = {}
  /\ Held(id) \cup Sending(id) # {} =>
       RowIn(id, {"Approved", "Rejected"}) /\ Numbered(id)
  /\ Searched(id) # {} =>
       RowIn(id, {"Submitted", "Confirmed", "Error", "Rejected"})

\* The messages on devices, on their way and searched for.
CopiesOK(id) ==
  /\ \A d \in Held(id) : d.message.what = id
  /\ \A r \in Sending(id) :
       r.message.what = id /\ \A m \in Known(id) : m = r.message
  /\ \A r \in Searched(id) :
       /\ r.cid.what = id
       /\ \A net \in Networks :
            Stored(net, id) => /\ net = r.net /\ Row(net, id).cid = r.cid
                               /\ Row(net, id).nonce # NoNonce

OneMessage(id) == \A m1, m2 \in Known(id) : m1 = m2

Unused(id) ==
  /\ Idle(id) /\ Searched(id) = {} /\ Known(id) = {}
  /\ \A net \in Networks : ~Stored(net, id)

IdOK(id) ==
  /\ RowsOK(id) /\ OneHome(id) /\ OneStage(id) /\ CopiesOK(id)
  /\ OneMessage(id)
  /\ id \notin used => Unused(id)

\* A network executes what its nodes have accepted, one message per nonce.
ChainsOK ==
  \A net \in Networks :
    /\ executed[net] \subseteq pool[net]
    /\ failed[net] \subseteq executed[net]
    /\ \A m \in executed[net] : m.nonce < count[net]

\* The inductive invariant.
IInv == TypeOK /\ ChainsOK /\ \A id \in TxIds : IdOK(id)

-----------------------------------------------------------------------------
(* What a step may do to a transaction it is not about.                    *)

\* Nothing is added for the transaction but a search for what was submitted.
QueuesKept(id) ==
  /\ Asked(id)' \subseteq Asked(id)
  /\ Held(id)' \subseteq Held(id)
  /\ Sending(id)' \subseteq Sending(id)
  /\ \A r \in Searched(id)' :
       \/ r \in Searched(id)
       \/ /\ network \in Networks /\ Stored(network, id)
          /\ Row(network, id).status = "Submitted"
          /\ r.net = network /\ r.cid = Row(network, id).cid

\* Its rows stay as they are or go away, too.
Quiet(id) ==
  /\ QueuesKept(id)
  /\ \A net \in Networks : Row(net, id)' = Row(net, id) \/ Row(net, id)' = NoTx
  /\ id \in used => id \in used'
  /\ Known(id)' = Known(id)

\* The network stays selected, or nothing of an approval is under way.
Steady(id) == network' = network \/ Idle(id)

\* What has been executed successfully stays so.
StillExecuted ==
  \A net \in Networks :
    executed[net] \ failed[net] \subseteq executed'[net] \ failed'[net]

LEMMA QuietStep ==
  ASSUME IInv, NEW id \in TxIds, Quiet(id), Steady(id), StillExecuted
  PROVE  IdOK(id)'
<1>1. /\ Asked(id)' \subseteq Asked(id)
      /\ Held(id)' \subseteq Held(id)
      /\ Sending(id)' \subseteq Sending(id)
      /\ Known(id)' = Known(id)
      /\ id \notin used' => id \notin used
  BY DEF Quiet, QueuesKept
<1>2. \A net \in Networks :
        Stored(net, id)' => Stored(net, id) /\ Row(net, id)' = Row(net, id)
  BY DEF Quiet, Stored
<1>3. IdOK(id)
  BY DEF IInv
<1>4. Idle(id) => Idle(id)'
  BY <1>1 DEF Idle
<1>5. Searched(id)' # {} =>
        \/ Searched(id) # {}
        \/ /\ network \in Networks /\ Stored(network, id)
           /\ Row(network, id).status = "Submitted"
  BY DEF Quiet, QueuesKept
<1>6. RowsOK(id)'
  <2> SUFFICES ASSUME NEW net \in Networks, Stored(net, id)'
               PROVE  RowOK(net, id, Row(net, id))'
    BY DEF RowsOK
  <2>1. Row(net, id)' = Row(net, id) /\ RowOK(net, id, Row(net, id))
    BY <1>2, <1>3 DEF IdOK, RowsOK
  <2> QED BY <2>1 DEF RowOK, StillExecuted
<1>7. OneHome(id)'
  BY <1>2, <1>3, <1>4 DEF OneHome, IdOK, Steady
<1>8. OneStage(id)
  BY <1>3 DEF IdOK
<1>9. Clean(id) /\ RowIn(id, {"Unapproved", "Rejected"}) => Clean(id)'
  BY <1>1, <1>5 DEF Clean, RowIn
<1>10. Clean(id) /\ RowIn(id, {"Approved", "Rejected"}) => Clean(id)'
  BY <1>1, <1>5 DEF Clean, RowIn
<1>11. /\ \A statuses : RowIn(id, statuses) => RowIn(id, statuses)'
       /\ Numbered(id) => Numbered(id)'
  BY <1>2 DEF RowIn, Numbered
<1>12. OneStage(id)'
  <2>1. /\ \A r1, r2 \in Asked(id)' : r1 = r2
        /\ \A d1, d2 \in Held(id)' : d1 = d2
        /\ \A r1, r2 \in Sending(id)' : r1 = r2
    BY <1>1, <1>8 DEF OneStage
  <2>2. Asked(id)' # {} =>
          Held(id)' = {} /\ Clean(id)' /\ RowIn(id, {"Unapproved", "Rejected"})'
    BY <1>1, <1>8, <1>9, <1>11 DEF OneStage
  <2>3. ASSUME NEW net \in Networks, Stored(net, id)',
               Row(net, id)'.status = "Unapproved"
        PROVE  Held(id)' = {} /\ Clean(id)'
    <3>1. Stored(net, id) /\ Row(net, id).status = "Unapproved"
      BY <1>2, <2>3
    <3>2. RowIn(id, {"Unapproved", "Rejected"})
      BY <1>3, <3>1 DEF IdOK, OneHome, RowIn
    <3> QED BY <1>1, <1>8, <1>9, <3>1, <3>2 DEF OneStage
  <2>4. Held(id)' # {} => Clean(id)'
    BY <1>1, <1>8, <1>10 DEF OneStage
  <2>5. Held(id)' \cup Sending(id)' # {} =>
          RowIn(id, {"Approved", "Rejected"})' /\ Numbered(id)'
    BY <1>1, <1>8, <1>11 DEF OneStage
  <2>6. Sending(id)' # {} => Searched(id)' = {}
    <3> SUFFICES ASSUME Sending(id)' # {}
                 PROVE  Searched(id)' = {}
      OBVIOUS
    <3>1. Searched(id) = {} /\ RowIn(id, {"Approved", "Rejected"})
      BY <1>1, <1>8 DEF OneStage
    <3> QED BY <1>5, <3>1 DEF RowIn
  <2>7. Searched(id)' # {} =>
          RowIn(id, {"Submitted", "Confirmed", "Error", "Rejected"})'
    <3>1. /\ network \in Networks /\ Stored(network, id)
          /\ Row(network, id).status = "Submitted"
          => RowIn(id, {"Submitted", "Confirmed", "Error", "Rejected"})
      BY <1>3 DEF IdOK, OneHome, RowIn
    <3> QED BY <1>5, <1>8, <1>11, <3>1 DEF OneStage
  <2> QED BY <2>1, <2>2, <2>3, <2>4, <2>5, <2>6, <2>7 DEF OneStage
<1>13. CopiesOK(id)'
  <2>1. \A d \in Held(id)' : d.message.what = id
    BY <1>1, <1>3 DEF IdOK, CopiesOK
  <2>2. \A r \in Sending(id)' :
          r.message.what = id /\ \A m \in Known(id)' : m = r.message
    BY <1>1, <1>3 DEF IdOK, CopiesOK
  <2>3. ASSUME NEW r \in Searched(id)', NEW net \in Networks, Stored(net, id)'
        PROVE  /\ net = r.net /\ Row(net, id)'.cid = r.cid
               /\ Row(net, id)'.nonce # NoNonce
    <3>1. Stored(net, id) /\ Row(net, id)' = Row(net, id)
      BY <1>2, <2>3
    <3>2. CASE r \in Searched(id)
      BY <1>3, <3>1, <3>2 DEF IdOK, CopiesOK
    <3>3. CASE /\ network \in Networks /\ Stored(network, id)
               /\ Row(network, id).status = "Submitted"
               /\ r.net = network /\ r.cid = Row(network, id).cid
      BY <1>3, <3>1, <3>3 DEF IdOK, OneHome, RowsOK, RowOK
    <3> QED BY <3>2, <3>3 DEF Quiet, QueuesKept
  <2>4. \A r \in Searched(id)' : r.cid.what = id
    BY <1>3 DEF Quiet, QueuesKept, IdOK, CopiesOK, RowsOK, RowOK
  <2> QED BY <2>1, <2>2, <2>3, <2>4 DEF CopiesOK
<1>14. OneMessage(id)'
  BY <1>1, <1>3 DEF IdOK, OneMessage
<1>15. id \notin used' => Unused(id)'
  BY <1>1, <1>2, <1>3, <1>4, <1>5 DEF IdOK, Unused
<1> QED BY <1>6, <1>7, <1>12, <1>13, <1>14, <1>15 DEF IdOK

-----------------------------------------------------------------------------
(* What a step may do to the transaction it is about: a row of it is       *)
(* saved, and it is in a stage that fits the row.                          *)

AtHome(id) == \A net \in Networks : Stored(net, id) => net = network

\* Afterwards meta is the only row the transaction can have.
OnlyRow(id, meta) ==
  \A net \in Networks : Stored(net, id)' => net = network /\ Row(net, id)' = meta

Rests(id) == Asked(id)' = {} /\ Held(id)' = {} /\ Sending(id)' = {}

StageOK(id) == OneStage(id)' /\ CopiesOK(id)'

LEMMA SaveRows ==
  ASSUME TypeOK, NEW meta \in Metas, Save(meta)
  PROVE  \A net \in Networks : \A id \in TxIds :
           Row(net, id)' \in
             {NoTx, IF net = network /\ id = meta.id THEN meta
                                                     ELSE Row(net, id)}
<1> DEFINE after == AddOrUpdateTx(Store, meta)
<1>1. meta.id \in TxIds
  BY DEF Metas
<1>2. /\ after \in [TxIds -> Metas \cup {NoTx}]
      /\ \A id \in TxIds :
           after[id] \in {NoTx, IF id = meta.id THEN meta ELSE Store[id]}
  BY <1>1, StoreType, AddOrUpdateEffect
<1>3. txs' = [txs EXCEPT ![network] = after]
  BY DEF Save
<1> HIDE DEF after
<1> QED BY <1>2, <1>3 DEF Row, Store, TypeOK

LEMMA SavedRow ==
  ASSUME TypeOK, NEW meta \in Metas, Save(meta), AtHome(meta.id)
  PROVE  OnlyRow(meta.id, meta)
<1>1. meta.id \in TxIds
  BY DEF Metas
<1> QED BY <1>1, SaveRows DEF OnlyRow, AtHome, Stored

LEMMA SameMessages ==
  ASSUME UNCHANGED networkVars
  PROVE  /\ StillExecuted
         /\ ChainsOK => ChainsOK'
         /\ \A id \in TxIds : Known(id)' = Known(id)
BY DEF networkVars, StillExecuted, ChainsOK, Known

\* The transaction has one row at most, which is in order, and fits its stage.
LEMMA NewStage ==
  ASSUME IInv, NEW id \in TxIds, NEW meta, OnlyRow(id, meta),
         network' = network, UNCHANGED networkVars, id \in used',
         RowOK(network, id, meta), StageOK(id)
  PROVE  IdOK(id)'
<1>1. RowsOK(id)'
  <2>1. RowOK(network, id, meta)'
    BY DEF RowOK, networkVars
  <2> QED BY <2>1 DEF RowsOK, OnlyRow, RowOK
<1>2. OneHome(id)'
  BY DEF OneHome, OnlyRow
<1>3. OneMessage(id)'
  BY SameMessages DEF IInv, IdOK, OneMessage
<1> QED BY <1>1, <1>2, <1>3 DEF IdOK, StageOK

LEMMA SaveStep ==
  ASSUME IInv, TypeOK', NEW meta \in Metas, Save(meta),
         network' = network, UNCHANGED networkVars,
         used \subseteq used', meta.id \in used', AtHome(meta.id),
         \A id \in TxIds \ {meta.id} : QueuesKept(id),
         RowOK(network, meta.id, meta), StageOK(meta.id)
  PROVE  IInv'
<1>0. TypeOK /\ ChainsOK /\ meta.id \in TxIds
  BY DEF IInv, Metas
<1>1. OnlyRow(meta.id, meta)
  BY <1>0, SavedRow
<1>2. IdOK(meta.id)'
  BY <1>0, <1>1, NewStage
<1>3. ASSUME NEW id \in TxIds \ {meta.id} PROVE IdOK(id)'
  <2>1. \A net \in Networks :
          Row(net, id)' = Row(net, id) \/ Row(net, id)' = NoTx
    BY <1>0, SaveRows
  <2>2. Quiet(id) /\ Steady(id)
    BY <2>1, SameMessages DEF Quiet, Steady
  <2> QED BY <2>2, QuietStep, SameMessages
<1> QED BY <1>0, <1>2, <1>3, SameMessages DEF IInv

LEMMA FoundHome ==
  ASSUME IInv, NEW id \in TxIds, Found(id)
  PROVE  /\ AtHome(id) /\ id \in used
         /\ Stored(network, id) /\ Row(network, id) = Store[id]
         /\ RowOK(network, id, Store[id])
<1>1. network \in Networks /\ Row(network, id) = Store[id]
  BY DEF IInv, TypeOK, Row, Store
<1>2. Stored(network, id)
  BY <1>1 DEF Found, Stored
<1> QED BY <1>1, <1>2 DEF IInv, IdOK, OneHome, RowsOK, Unused, AtHome

LEMMA BusyHome ==
  ASSUME IInv, NEW id \in TxIds, ~Idle(id)
  PROVE  AtHome(id) /\ id \in used
BY DEF IInv, IdOK, OneHome, Unused, AtHome

\* The stages.
LEMMA RestStage ==
  ASSUME NEW id \in TxIds, NEW meta, OnlyRow(id, meta), Rests(id),
         Searched(id)' = {}, UNCHANGED networkVars,
         meta.status = "Unapproved" => Known(id) = {}
  PROVE  StageOK(id)
BY SameMessages DEF StageOK, OneStage, CopiesOK, Clean, Rests, OnlyRow

LEMMA SearchStage ==
  ASSUME NEW id \in TxIds, NEW meta, OnlyRow(id, meta), Rests(id),
         UNCHANGED networkVars,
         meta.status \in {"Submitted", "Confirmed", "Error", "Rejected"},
         \A r \in Searched(id)' : r.net = network /\ r.cid = meta.cid,
         Searched(id)' # {} => meta.cid.what = id /\ meta.nonce # NoNonce
  PROVE  StageOK(id)
BY SameMessages DEF StageOK, OneStage, CopiesOK, Clean, Rests, OnlyRow, RowIn

LEMMA SendStage ==
  ASSUME NEW id \in TxIds, NEW meta, OnlyRow(id, meta),
         UNCHANGED networkVars, meta.status = "Approved",
         meta.nonce # NoNonce,
         Asked(id)' = {}, Held(id)' = {}, Searched(id)' = {}, Known(id) = {},
         NEW s, Sending(id)' \subseteq {s}, s.message.what = id
  PROVE  StageOK(id)
<1>1. Known(id)' = {}
  BY SameMessages
<1>2. OneStage(id)'
  BY <1>1 DEF OneStage, OnlyRow, RowIn, Numbered
<1>3. CopiesOK(id)'
  BY <1>1 DEF CopiesOK
<1> QED BY <1>2, <1>3 DEF StageOK

LEMMA HoldStage ==
  ASSUME NEW id \in TxIds, NEW meta, OnlyRow(id, meta),
         UNCHANGED networkVars, meta.status = "Approved",
         meta.nonce # NoNonce,
         Asked(id)' = {}, Sending(id)' = {}, Searched(id)' = {}, Known(id) = {},
         NEW d, Held(id)' = {d}, d.message.what = id
  PROVE  StageOK(id)
<1>1. Known(id)' = {}
  BY SameMessages
<1>2. OneStage(id)'
  BY <1>1 DEF OneStage, OnlyRow, RowIn, Numbered, Clean
<1>3. CopiesOK(id)'
  BY <1>1 DEF CopiesOK
<1> QED BY <1>2, <1>3 DEF StageOK

-----------------------------------------------------------------------------
(* Adding, rejecting and approving.                                        *)

\* What an unapproved row, or a copy of one, says of its transaction.
Untouched(id) == Held(id) = {} /\ Sending(id) = {} /\ Searched(id) = {}
                 /\ Known(id) = {}

LEMMA UnapprovedUntouched ==
  ASSUME IInv, NEW id \in TxIds,
         HasStatus(id, "Unapproved") \/ Asked(id) # {}
  PROVE  Untouched(id)
<1>1. CASE HasStatus(id, "Unapproved")
  <2>1. Stored(network, id) /\ Row(network, id) = Store[id]
    BY <1>1, FoundHome DEF HasStatus
  <2>2. network \in Networks /\ Row(network, id).status = "Unapproved"
    BY <1>1, <2>1 DEF HasStatus, IInv, TypeOK
  <2> QED BY <2>1, <2>2 DEF IInv, IdOK, OneStage, Clean, Untouched
<1>2. CASE Asked(id) # {}
  BY <1>2 DEF IInv, IdOK, OneStage, Clean, Untouched
<1> QED BY <1>1, <1>2

LEMMA AddStep ==
  ASSUME IInv, TypeOK', NEW id \in TxIds, NEW nonce \in {NoNonce, 0},
         ContinueAddUnapprovedTransaction(id, nonce)
  PROVE  IInv'
<1> DEFINE c    == Cardinality(used) + 1
           meta == [id |-> id, nonce |-> nonce, status |-> "Unapproved",
                    cid |-> NoCid, createdTime |-> c, confirmedTime |-> 0]
<1>0. TypeOK
  BY DEF IInv
<1>1. /\ network' = network /\ UNCHANGED networkVars
      /\ UNCHANGED <<nonceRpc, device, sendRpc, searchRpc>>
      /\ used' = used \cup {id} /\ id \notin used /\ Save(meta)
  BY DEF ContinueAddUnapprovedTransaction, trackerVars
<1>2. c \in Nat
  <2>1. IsFiniteSet(used)
    BY <1>0, TxIdsAssumption, FS_Subset DEF TypeOK
  <2> QED BY <2>1, FS_CardinalityType
<1> HIDE DEF c
<1>3. meta \in Metas /\ meta.id = id /\ meta.status = "Unapproved"
  BY <1>2, BoundsAssumption DEF Metas, Status, OptNonces, Nonces
<1>4. RowOK(network, id, meta)
  BY DEF RowOK
<1> HIDE DEF meta
<1>5. Unused(id)
  BY <1>1 DEF IInv, IdOK
<1>6. AtHome(id) /\ Idle(id) /\ Searched(id) = {} /\ Known(id) = {}
  BY <1>5 DEF Unused, AtHome
<1>7. OnlyRow(id, meta)
  BY <1>0, <1>1, <1>3, <1>6, SavedRow
<1>8. Rests(id) /\ Searched(id)' = {}
  BY <1>1, <1>6 DEF Idle, Rests, Asked, Held, Sending, Searched
<1>9. StageOK(id)
  BY <1>1, <1>6, <1>7, <1>8, RestStage
<1>10. \A other \in TxIds \ {id} : QueuesKept(other)
  BY <1>1 DEF QueuesKept, Asked, Held, Sending, Searched
<1> QED BY <1>1, <1>3, <1>4, <1>6, <1>9, <1>10, SaveStep

\* Only the status changes: the stage is the one it was.
LEMMA RejectStep ==
  ASSUME IInv, TypeOK', NEW id \in TxIds, RejectTransaction(id)
  PROVE  IInv'
<1> DEFINE meta == [Store[id] EXCEPT !.status = "Rejected"]
<1>0. TypeOK /\ network \in Networks
  BY DEF IInv, TypeOK
<1>1. /\ network' = network /\ UNCHANGED networkVars
      /\ UNCHANGED <<nonceRpc, device, sendRpc, searchRpc, used>>
      /\ Found(id) /\ Save(meta)
  BY DEF RejectTransaction, trackerVars
<1>2. /\ AtHome(id) /\ id \in used /\ RowOK(network, id, Store[id])
      /\ Store[id] \in Metas
      /\ Stored(network, id) /\ Row(network, id) = Store[id]
  BY <1>0, <1>1, FoundHome, StoreType
<1>3. /\ meta \in Metas /\ meta.id = id /\ meta.status = "Rejected"
      /\ meta.nonce = Store[id].nonce /\ meta.cid = Store[id].cid
  BY <1>2 DEF Metas, Status, RowOK
<1>4. RowOK(network, id, meta)
  BY <1>2, <1>3 DEF RowOK
<1> HIDE DEF meta
<1>5. OnlyRow(id, meta)
  BY <1>0, <1>1, <1>2, <1>3, SavedRow
<1>6. \A other \in TxIds :
        /\ Asked(other)' = Asked(other) /\ Held(other)' = Held(other)
        /\ Sending(other)' = Sending(other)
        /\ Searched(other)' = Searched(other) /\ Known(other)' = Known(other)
  BY <1>1, SameMessages DEF Asked, Held, Sending, Searched
<1>7. OneStage(id) /\ CopiesOK(id)
  BY DEF IInv, IdOK
<1>8. OneStage(id)'
  <2>1. Numbered(id) => Numbered(id)'
    BY <1>0, <1>2, <1>3, <1>5 DEF Numbered, OnlyRow
  <2>2. \A statuses : "Rejected" \in statuses => RowIn(id, statuses)'
    BY <1>3, <1>5 DEF RowIn, OnlyRow
  <2>3. \A net \in Networks : Stored(net, id)' =>
          Row(net, id)'.status # "Unapproved"
    BY <1>3, <1>5 DEF OnlyRow
  <2> QED BY <1>6, <1>7, <2>1, <2>2, <2>3 DEF OneStage, Clean
<1>9. CopiesOK(id)'
  BY <1>0, <1>2, <1>3, <1>5, <1>6, <1>7 DEF CopiesOK, OnlyRow
<1>10. \A other \in TxIds \ {id} : QueuesKept(other)
  BY <1>6 DEF QueuesKept
<1> QED BY <1>1, <1>2, <1>3, <1>4, <1>8, <1>9, <1>10, SaveStep DEF StageOK

LEMMA NotAskedYet ==
  ASSUME PlainUse, TypeOK, NEW id \in TxIds, PanelOffersApproval(id)
  PROVE  Asked(id) = {}
BY DEF PlainUse, TypeOK, PanelOffersApproval, Asked

\* A nonce is asked for.
LEMMA AskStep ==
  ASSUME PlainUse, IInv, TypeOK', NEW id \in TxIds, PanelOffersApproval(id),
         NEW isHardware, NonceRequest(id, isHardware),
         UNCHANGED <<network, txs, used, device, sendRpc, searchRpc>>,
         UNCHANGED networkVars
  PROVE  IInv'
<1> DEFINE r == [meta |-> Store[id], net |-> network, hw |-> isHardware,
                 queue |-> QueueLength]
<1>1. HasStatus(id, "Unapproved") /\ Found(id) /\ Asked(id) = {}
  BY NotAskedYet DEF PanelOffersApproval, HasStatus, IInv
<1>2. AtHome(id) /\ id \in used /\ Store[id].id = id
  BY <1>1, FoundHome DEF RowOK
<1>3. nonceRpc' = nonceRpc \cup {r} /\ r.meta.id = id
  BY <1>2 DEF NonceRequest
<1> HIDE DEF r
<1>4. Untouched(id)
  BY <1>1, UnapprovedUntouched
<1>5. \A net \in Networks : \A other \in TxIds :
        /\ Row(net, other)' = Row(net, other)
        /\ Stored(net, other)' = Stored(net, other)
  BY DEF Row, Stored
<1>6. /\ Asked(id)' = {r} /\ Held(id)' = {} /\ Sending(id)' = {}
      /\ Searched(id)' = {} /\ Known(id)' = {}
  BY <1>1, <1>3, <1>4, SameMessages
     DEF Untouched, Asked, Held, Sending, Searched
<1>7. RowIn(id, {"Unapproved", "Rejected"})'
  <2>1. network \in Networks /\ Row(network, id).status = "Unapproved"
    BY <1>1, FoundHome DEF HasStatus, IInv, TypeOK
  <2> QED BY <1>2, <1>5, <2>1 DEF RowIn, AtHome
<1>8. IdOK(id)'
  <2>1. RowsOK(id)' /\ OneMessage(id)'
    BY <1>5, SameMessages
       DEF IInv, IdOK, RowsOK, RowOK, OneMessage, networkVars
  <2>2. OneHome(id)'
    BY <1>2, <1>5 DEF OneHome, AtHome
  <2>3. OneStage(id)'
    BY <1>6, <1>7 DEF OneStage, Clean
  <2>4. CopiesOK(id)'
    BY <1>6 DEF CopiesOK
  <2> QED BY <1>2, <2>1, <2>2, <2>3, <2>4 DEF IdOK
<1>9. ASSUME NEW other \in TxIds \ {id} PROVE IdOK(other)'
  <2>1. QueuesKept(other)
    BY <1>3 DEF QueuesKept, Asked, Held, Sending, Searched
  <2>2. Quiet(other) /\ Steady(other)
    BY <1>5, <2>1, SameMessages DEF Quiet, Steady
  <2> QED BY <2>2, QuietStep, SameMessages
<1> QED BY <1>8, <1>9, SameMessages DEF IInv

\* A nonce is there: the record is approved, and sent if the keyring is open.
LEMMA SignStep ==
  ASSUME IInv, TypeOK', NEW meta \in Metas, NEW nonce \in Nonces,
         SignAndSend(meta, nonce), AtHome(meta.id), meta.id \in used,
         Untouched(meta.id), Asked(meta.id)' = {},
         \A id \in TxIds \ {meta.id} : Asked(id)' \subseteq Asked(id),
         UNCHANGED <<network, used, device, searchRpc>>, UNCHANGED networkVars
  PROVE  IInv'
<1> DEFINE id == meta.id
           saved == [meta EXCEPT !.nonce = nonce, !.status = "Approved"]
           s == [id |-> id, net |-> network,
                 message |-> [what |-> id, nonce |-> nonce], state |-> "sent"]
<1>0. TypeOK /\ id \in TxIds
  BY DEF IInv, Metas
<1>1. Save(saved) /\ sendRpc' \in {sendRpc, sendRpc \cup {s}}
  BY DEF SignAndSend, SendFilecoinTransaction
<1>2. /\ saved \in Metas /\ saved.id = id /\ saved.status = "Approved"
      /\ saved.nonce = nonce
  BY DEF Metas, Status, OptNonces
<1>3. RowOK(network, id, saved) /\ saved.nonce # NoNonce
  BY <1>2, NoNonceAssumption, BoundsAssumption DEF RowOK, Nonces
<1>4. s.id = id /\ s.message.what = id
  OBVIOUS
<1> HIDE DEF saved, s
<1>5. OnlyRow(id, saved)
  BY <1>0, <1>1, <1>2, SavedRow
<1>6. /\ Held(id)' = {} /\ Searched(id)' = {} /\ Sending(id)' \subseteq {s}
  BY <1>1 DEF Untouched, Held, Sending, Searched
<1>7. Asked(id)' = {} /\ Known(id) = {}
  BY DEF Untouched
<1> HIDE DEF id
<1>8. StageOK(id)
  BY <1>0, <1>2, <1>3, <1>4, <1>5, <1>6, <1>7, SendStage
<1>9. \A other \in TxIds \ {id} : QueuesKept(other)
  BY <1>1, <1>4 DEF id, QueuesKept, Held, Sending, Searched
<1> QED BY <1>1, <1>2, <1>3, <1>8, <1>9, SaveStep DEF id

\* A nonce is there: the record is approved, and shown on the device.
LEMMA HoldStep ==
  ASSUME IInv, TypeOK', NEW meta \in Metas, NEW nonce \in Nonces,
         MessageToSign(meta, nonce), AtHome(meta.id), meta.id \in used,
         Untouched(meta.id), Asked(meta.id)' = {},
         \A id \in TxIds \ {meta.id} : Asked(id)' \subseteq Asked(id),
         UNCHANGED <<network, used, sendRpc, searchRpc>>, UNCHANGED networkVars
  PROVE  IInv'
<1> DEFINE id == meta.id
           saved == [meta EXCEPT !.nonce = nonce, !.status = "Approved"]
           d == [id |-> id, message |-> [what |-> id, nonce |-> nonce]]
<1>0. TypeOK /\ id \in TxIds
  BY DEF IInv, Metas
<1>1. Save(saved) /\ device' = device \cup {d}
  BY DEF MessageToSign
<1>2. /\ saved \in Metas /\ saved.id = id /\ saved.status = "Approved"
      /\ saved.nonce = nonce
  BY DEF Metas, Status, OptNonces
<1>3. RowOK(network, id, saved) /\ saved.nonce # NoNonce
  BY <1>2, NoNonceAssumption, BoundsAssumption DEF RowOK, Nonces
<1>4. d.id = id /\ d.message.what = id
  OBVIOUS
<1> HIDE DEF saved, d
<1>5. OnlyRow(id, saved)
  BY <1>0, <1>1, <1>2, SavedRow
<1>6. /\ Held(id)' = {d} /\ Searched(id)' = {} /\ Sending(id)' = {}
  BY <1>1, <1>4 DEF Untouched, Held, Sending, Searched
<1>7. Asked(id)' = {} /\ Known(id) = {}
  BY DEF Untouched
<1> HIDE DEF id
<1>8. StageOK(id)
  BY <1>0, <1>2, <1>3, <1>4, <1>5, <1>6, <1>7, HoldStage
<1>9. \A other \in TxIds \ {id} : QueuesKept(other)
  BY <1>1, <1>4 DEF id, QueuesKept, Held, Sending, Searched
<1> QED BY <1>1, <1>2, <1>3, <1>8, <1>9, SaveStep DEF id

LEMMA ApproveStep ==
  ASSUME PlainUse, IInv, TypeOK', NEW id \in TxIds,
         ApproveTransaction(id) \/ GetTransactionMessageToSign(id)
  PROVE  IInv'
<1>0. TypeOK
  BY DEF IInv
<1>1. /\ PanelOffersApproval(id) /\ HasStatus(id, "Unapproved") /\ Found(id)
      /\ UNCHANGED <<network, used, searchRpc>> /\ UNCHANGED networkVars
  BY DEF ApproveTransaction, GetTransactionMessageToSign, PanelOffersApproval,
         HasStatus, trackerVars
<1>a. Asked(id) = {}
  BY <1>0, <1>1, NotAskedYet
<1>2. /\ AtHome(id) /\ id \in used /\ Store[id] \in Metas /\ Store[id].id = id
      /\ Untouched(id)
  BY <1>0, <1>1, FoundHome, StoreType, UnapprovedUntouched DEF RowOK
<1>3. nonceRpc' = nonceRpc =>
        \A other \in TxIds : Asked(other)' = Asked(other)
  BY DEF Asked
<1>4. Store[id].nonce # NoNonce => Store[id].nonce \in Nonces
  BY <1>0, <1>1, KnownNonceType
<1>5. CASE ApproveTransaction(id)
  <2>1. CASE NonceRequest(id, FALSE) /\ UNCHANGED <<txs, sendRpc>>
    BY <1>1, <1>5, <2>1, AskStep DEF ApproveTransaction
  <2>2. CASE /\ Store[id].nonce # NoNonce
             /\ SignAndSend(Store[id], Store[id].nonce)
             /\ UNCHANGED nonceRpc
    BY <1>1, <1>a, <1>2, <1>3, <1>4, <1>5, <2>2, SignStep
       DEF ApproveTransaction
  <2> QED BY <1>5, <2>1, <2>2 DEF ApproveTransaction
<1>6. CASE GetTransactionMessageToSign(id)
  <2>1. CASE NonceRequest(id, TRUE) /\ UNCHANGED <<txs, device>>
    BY <1>1, <1>6, <2>1, AskStep DEF GetTransactionMessageToSign
  <2>2. CASE /\ Store[id].nonce # NoNonce
             /\ MessageToSign(Store[id], Store[id].nonce)
             /\ UNCHANGED nonceRpc
    BY <1>1, <1>a, <1>2, <1>3, <1>4, <1>6, <2>2, HoldStep
       DEF GetTransactionMessageToSign
  <2> QED BY <1>6, <2>1, <2>2 DEF GetTransactionMessageToSign
<1> QED BY <1>5, <1>6

-----------------------------------------------------------------------------
(* The answers to nonce requests, and the device.                          *)

LEMMA AskedParts ==
  ASSUME IInv, NEW r \in nonceRpc, nonceRpc' = nonceRpc \ {r}
  PROVE  LET id == r.meta.id
         IN  /\ r.meta \in Metas /\ id \in TxIds
             /\ AtHome(id) /\ id \in used /\ Untouched(id)
             /\ Asked(id)' = {}
             /\ \A other \in TxIds : Asked(other)' \subseteq Asked(other)
<1> DEFINE id == r.meta.id
<1>1. r.meta \in Metas /\ id \in TxIds
  BY DEF IInv, TypeOK, NonceRequests, Metas
<1>2. r \in Asked(id)
  BY DEF Asked
<1>3. \A other \in TxIds : Asked(other)' \subseteq Asked(other) \ {r}
  BY DEF Asked
<1> HIDE DEF id
<1>4. OneStage(id)
  BY <1>1 DEF IInv, IdOK
<1>5. Asked(id)' = {}
  BY <1>1, <1>2, <1>3, <1>4 DEF OneStage
<1>6. AtHome(id) /\ id \in used
  BY <1>1, <1>2, BusyHome DEF Idle
<1>7. Untouched(id)
  BY <1>1, <1>2, UnapprovedUntouched
<1> QED BY <1>1, <1>3, <1>5, <1>6, <1>7 DEF id

LEMMA NonceAnswerStep ==
  ASSUME IInv, TypeOK', NEW r \in nonceRpc,
         OnGetNextNonce(r) \/ OnGetNextNonceForHardware(r)
  PROVE  IInv'
<1>1. /\ nonceRpc' = nonceRpc \ {r}
      /\ UNCHANGED <<network, used, searchRpc>> /\ UNCHANGED networkVars
  BY DEF OnGetNextNonce, OnGetNextNonceForHardware, trackerVars
<1>2. /\ r.meta \in Metas
      /\ AtHome(r.meta.id) /\ r.meta.id \in used /\ Untouched(r.meta.id)
      /\ Asked(r.meta.id)' = {}
      /\ \A other \in TxIds : Asked(other)' \subseteq Asked(other)
  BY <1>1, AskedParts
<1>3. CASE OnGetNextNonce(r)
  <2>1. PICK nonce \in Nonces : SignAndSend(r.meta, nonce)
    BY <1>3 DEF OnGetNextNonce
  <2>2. device' = device
    BY <1>3 DEF OnGetNextNonce
  <2> QED BY <1>1, <1>2, <2>1, <2>2, SignStep
<1>4. CASE OnGetNextNonceForHardware(r)
  <2>1. PICK nonce \in Nonces : MessageToSign(r.meta, nonce)
    BY <1>4 DEF OnGetNextNonceForHardware
  <2>2. sendRpc' = sendRpc
    BY <1>4 DEF OnGetNextNonceForHardware
  <2> QED BY <1>1, <1>2, <2>1, <2>2, HoldStep
<1> QED BY <1>3, <1>4

LEMMA NonceFailsStep ==
  ASSUME IInv, TypeOK', NEW r \in nonceRpc, GetNextNonceFails(r)
  PROVE  IInv'
<1> DEFINE id   == r.meta.id
           meta == [r.meta EXCEPT !.status = "Error"]
<1>0. TypeOK
  BY DEF IInv
<1>1. /\ nonceRpc' = nonceRpc \ {r} /\ Save(meta)
      /\ UNCHANGED <<network, used, device, sendRpc, searchRpc>>
      /\ UNCHANGED networkVars
  BY DEF GetNextNonceFails, trackerVars
<1>2. /\ r.meta \in Metas /\ id \in TxIds
      /\ AtHome(id) /\ id \in used /\ Untouched(id)
      /\ Asked(id)' = {}
      /\ \A other \in TxIds : Asked(other)' \subseteq Asked(other)
  BY <1>1, AskedParts
<1>3. meta \in Metas /\ meta.id = id /\ meta.status = "Error"
  BY <1>2 DEF Metas, Status
<1> HIDE DEF meta, id
<1>4. RowOK(network, id, meta)
  BY <1>3 DEF RowOK
<1>5. OnlyRow(id, meta)
  BY <1>0, <1>1, <1>2, <1>3, SavedRow
<1>6. Rests(id) /\ Searched(id)' = {}
  BY <1>1, <1>2 DEF Untouched, Rests, Held, Sending, Searched
<1>7. StageOK(id)
  BY <1>1, <1>2, <1>3, <1>5, <1>6, RestStage
<1>8. \A other \in TxIds \ {id} : QueuesKept(other)
  BY <1>1, <1>2 DEF QueuesKept, Held, Sending, Searched
<1> QED BY <1>1, <1>2, <1>3, <1>4, <1>7, <1>8, SaveStep

LEMMA SignatureStep ==
  ASSUME IInv, TypeOK', NEW d \in device, ProcessFilHardwareSignature(d)
  PROVE  IInv'
<1> DEFINE id   == d.id
           meta == [Store[id] EXCEPT !.status = "Approved"]
           s    == [id |-> id, net |-> network, message |-> d.message,
                    state |-> "sent"]
<1>0. TypeOK /\ id \in TxIds /\ d \in Held(id)
  BY DEF IInv, TypeOK, Held
<1>1. /\ device' = device \ {d}
      /\ UNCHANGED <<network, used, nonceRpc, searchRpc>>
      /\ UNCHANGED networkVars
  BY DEF ProcessFilHardwareSignature, trackerVars
<1>2. OneStage(id) /\ CopiesOK(id)
  BY <1>0 DEF IInv, IdOK
<1>3. /\ Asked(id) = {} /\ Clean(id) /\ Numbered(id)
      /\ d.message.what = id
  BY <1>0, <1>2 DEF OneStage, CopiesOK
<1>4. Held(id)' = {} /\ \A other \in TxIds : Held(other)' \subseteq Held(other)
  <2>1. \A other \in TxIds : Held(other)' \subseteq Held(other) \ {d}
    BY <1>1 DEF Held
  <2> QED BY <1>0, <1>2, <2>1 DEF OneStage
<1>5. CASE ~Found(id)
  <2>1. UNCHANGED <<txs, sendRpc>>
    BY <1>5 DEF ProcessFilHardwareSignature
  <2>2. \A other \in TxIds : Quiet(other) /\ Steady(other)
    BY <1>1, <1>4, <2>1, SameMessages
       DEF Quiet, QueuesKept, Steady, Asked, Sending, Searched, Row
  <2> QED BY <1>1, <2>2, QuietStep, SameMessages DEF IInv
<1>6. CASE Found(id)
  <2>1. Save(meta) /\ sendRpc' = sendRpc \cup {s}
    BY <1>6 DEF ProcessFilHardwareSignature, SendFilecoinTransaction
  <2>2. /\ AtHome(id) /\ id \in used /\ RowOK(network, id, Store[id])
        /\ Store[id] \in Metas /\ Store[id].nonce # NoNonce
    BY <1>0, <1>3, <1>6, FoundHome, StoreType DEF Numbered, IInv, TypeOK
  <2>3. /\ meta \in Metas /\ meta.id = id /\ meta.status = "Approved"
        /\ meta.nonce = Store[id].nonce
    BY <2>2 DEF Metas, Status, RowOK
  <2>4. s.id = id /\ s.message.what = id
    BY <1>3
  <2> HIDE DEF meta, s, id
  <2>5. RowOK(network, id, meta)
    BY <2>2, <2>3 DEF RowOK
  <2>6. OnlyRow(id, meta)
    BY <1>0, <2>1, <2>2, <2>3, SavedRow
  <2>7. Asked(id)' = {} /\ Searched(id)' = {} /\ Sending(id)' \subseteq {s}
    BY <1>1, <1>3, <2>1 DEF Clean, Asked, Searched, Sending
  <2>8. StageOK(id)
    BY <1>0, <1>1, <1>3, <1>4, <2>2, <2>3, <2>4, <2>6, <2>7, SendStage
       DEF Clean
  <2>9. \A other \in TxIds \ {id} : QueuesKept(other)
    BY <1>1, <1>4, <2>1, <2>4 DEF QueuesKept, Asked, Sending, Searched
  <2> QED BY <1>1, <2>1, <2>2, <2>3, <2>5, <2>8, <2>9, SaveStep
<1> QED BY <1>5, <1>6

-----------------------------------------------------------------------------
(* What becomes of sent messages.                                          *)

\* The searches started for what is submitted in the store.
LEMMA PendingSearches ==
  ASSUME NEW store, NEW isRunning, UpdatePendingTransactions(store, isRunning),
         NEW id \in TxIds, NEW r \in Searched(id)'
  PROVE  \/ r \in Searched(id)
         \/ /\ store[id] # NoTx /\ store[id].status = "Submitted"
            /\ r.net = network /\ r.cid = store[id].cid
<1>1. searchRpc' = searchRpc \cup
        {[id |-> i, net |-> network, cid |-> store[i].cid] :
           i \in IdsByStatus(store, {"Submitted"})}
  BY DEF UpdatePendingTransactions
<1>2. r \in searchRpc' /\ r.id = id
  BY DEF Searched
<1> QED BY <1>1, <1>2 DEF Searched, IdsByStatus

\* Looking at what is pending only starts searches.
LEMMA PendingStep ==
  ASSUME IInv, TypeOK', NEW isRunning,
         UpdatePendingTransactions(Store, isRunning),
         UNCHANGED <<network, used, nonceRpc, device, sendRpc>>,
         UNCHANGED networkVars
  PROVE  IInv'
<1>1. txs' = txs
  BY SameStore DEF UpdatePendingTransactions, IInv
<1>2. network \in Networks
  BY DEF IInv, TypeOK
<1>3. ASSUME NEW id \in TxIds PROVE Quiet(id)
  <2>1. QueuesKept(id)
    BY <1>2, PendingSearches
       DEF QueuesKept, Asked, Held, Sending, Stored, Row, Store
  <2> QED BY <1>1, <2>1, SameMessages DEF Quiet, Row
<1>4. \A id \in TxIds : IdOK(id)'
  BY <1>3, QuietStep, SameMessages DEF Steady
<1> QED BY <1>4, SameMessages DEF IInv

LEMMA SentAnswerStep ==
  ASSUME IInv, TypeOK', NEW r \in sendRpc, OnSendFilecoinTransaction(r)
  PROVE  IInv'
<1> DEFINE id == r.id
<1>0. TypeOK /\ id \in TxIds /\ r \in Sending(id) /\ r.message \in Messages
  BY DEF IInv, TypeOK, SendRequests, Sending
<1>1. /\ sendRpc' = sendRpc \ {r}
      /\ UNCHANGED <<network, used, nonceRpc, device>>
      /\ UNCHANGED networkVars
  BY DEF OnSendFilecoinTransaction
<1>2. OneStage(id) /\ CopiesOK(id)
  BY <1>0 DEF IInv, IdOK
<1>3. /\ Asked(id) = {} /\ Held(id) = {} /\ Searched(id) = {}
      /\ Numbered(id) /\ r.message.what = id
  BY <1>0, <1>2 DEF OneStage, CopiesOK, Clean
<1>4. /\ Sending(id)' = {}
      /\ \A other \in TxIds : Sending(other)' \subseteq Sending(other)
  <2>1. \A other \in TxIds : Sending(other)' \subseteq Sending(other) \ {r}
    BY <1>1 DEF Sending
  <2> QED BY <1>0, <1>2, <2>1 DEF OneStage
<1>5. Rests(id)
  BY <1>1, <1>3, <1>4 DEF Rests, Asked, Held
<1>6. CASE ~Found(id) /\ UNCHANGED <<txs, trackerVars>>
  <2>1. \A other \in TxIds : Quiet(other) /\ Steady(other)
    BY <1>1, <1>4, <1>6, SameMessages
       DEF Quiet, QueuesKept, Steady, Asked, Held, Searched, Row, trackerVars
  <2> QED BY <1>1, <2>1, QuietStep, SameMessages DEF IInv
<1>7. CASE Found(id) /\ UpdatePendingTransactions(
                          AddOrUpdateTx(Store, [Store[id] EXCEPT
                                                  !.status = "Submitted",
                                                  !.cid = r.message]),
                          running)
  <2> DEFINE meta  == [Store[id] EXCEPT !.status = "Submitted",
                                        !.cid = r.message]
             after == AddOrUpdateTx(Store, meta)
  <2>1. UpdatePendingTransactions(after, running)
    BY <1>7
  <2>2. /\ AtHome(id) /\ id \in used /\ RowOK(network, id, Store[id])
        /\ Store[id] \in Metas /\ Store[id].nonce # NoNonce
    BY <1>0, <1>3, <1>7, FoundHome, StoreType DEF Numbered, IInv, TypeOK
  <2>3. /\ meta \in Metas /\ meta.id = id /\ meta.status = "Submitted"
        /\ meta.nonce = Store[id].nonce /\ meta.cid = r.message
    BY <1>0, <2>2 DEF Metas, Status, RowOK
  <2> HIDE DEF meta, id
  <2>4. RowOK(network, id, meta)
    BY <1>0, <1>3, <2>2, <2>3, NoCidAssumption DEF RowOK
  <2>5. Save(meta)
    BY <2>1 DEF UpdatePendingTransactions, Save
  <2>6. OnlyRow(id, meta)
    BY <1>0, <2>2, <2>3, <2>5, SavedRow
  <2>7. \A other \in TxIds :
          after[other] \in {NoTx, IF other = id THEN meta ELSE Store[other]}
    BY <1>0, <2>3, StoreType, AddOrUpdateEffect
  <2> HIDE DEF after
  <2>8. \A q \in Searched(id)' : q.net = network /\ q.cid = meta.cid
    BY <1>0, <1>3, <2>1, <2>7, PendingSearches
  <2>9. StageOK(id)
    BY <1>0, <1>1, <1>5, <2>3, <2>4, <2>6, <2>8, SearchStage DEF RowOK
  <2>10. ASSUME NEW other \in TxIds \ {id} PROVE QueuesKept(other)
    <3>1. \A q \in Searched(other)' :
            \/ q \in Searched(other)
            \/ /\ network \in Networks /\ Stored(network, other)
               /\ Row(network, other).status = "Submitted"
               /\ q.net = network /\ q.cid = Row(network, other).cid
      <4> SUFFICES ASSUME NEW q \in Searched(other)', q \notin Searched(other)
                   PROVE  /\ network \in Networks /\ Stored(network, other)
                          /\ Row(network, other).status = "Submitted"
                          /\ q.net = network
                          /\ q.cid = Row(network, other).cid
        OBVIOUS
      <4>1. /\ after[other] # NoTx /\ after[other].status = "Submitted"
            /\ q.net = network /\ q.cid = after[other].cid
        BY <2>1, PendingSearches
      <4>2. after[other] = Row(network, other)
        BY <2>7, <4>1 DEF Row, Store
      <4> QED BY <1>0, <4>1, <4>2 DEF TypeOK, Stored
    <3> QED BY <1>1, <1>4, <3>1 DEF QueuesKept, Asked, Held
  <2> QED BY <1>1, <2>2, <2>3, <2>4, <2>5, <2>9, <2>10, SaveStep
<1>8. CASE /\ Found(id) /\ Save([Store[id] EXCEPT !.status = "Error"])
           /\ UNCHANGED trackerVars
  <2> DEFINE meta == [Store[id] EXCEPT !.status = "Error"]
  <2>1. Save(meta)
    BY <1>8
  <2>2. /\ AtHome(id) /\ id \in used /\ RowOK(network, id, Store[id])
        /\ Store[id] \in Metas
    BY <1>0, <1>8, FoundHome, StoreType
  <2>3. meta \in Metas /\ meta.id = id /\ meta.status = "Error"
    BY <2>2 DEF Metas, Status, RowOK
  <2> HIDE DEF meta, id
  <2>4. RowOK(network, id, meta)
    BY <2>3 DEF RowOK
  <2>5. OnlyRow(id, meta)
    BY <1>0, <2>1, <2>2, <2>3, SavedRow
  <2>6. \A other \in TxIds : Searched(other)' = Searched(other)
    BY <1>8 DEF Searched, trackerVars
  <2>7. StageOK(id)
    BY <1>0, <1>1, <1>3, <1>5, <2>3, <2>5, <2>6, RestStage
  <2>8. \A other \in TxIds \ {id} : QueuesKept(other)
    BY <1>1, <1>4, <2>6 DEF QueuesKept, Asked, Held
  <2> QED BY <1>1, <2>1, <2>2, <2>3, <2>4, <2>7, <2>8, SaveStep
<1> QED BY <1>6, <1>7, <1>8 DEF OnSendFilecoinTransaction

LEMMA HeightStep ==
  ASSUME IInv, TypeOK', GetFilBlockHeight \/ OnLatestHeightUpdated
  PROVE  IInv'
<1>1. CASE OnLatestHeightUpdated /\ UpdatePendingTransactions(Store, running)
  BY <1>1, PendingStep DEF OnLatestHeightUpdated
<1>2. CASE UNCHANGED <<txs, network, used, nonceRpc, device, sendRpc,
                       searchRpc>> /\ UNCHANGED networkVars
  <2>1. \A id \in TxIds : Quiet(id) /\ Steady(id)
    BY <1>2, SameMessages
       DEF Quiet, QueuesKept, Steady, Asked, Held, Sending, Searched, Row
  <2> QED BY <1>2, <2>1, QuietStep, SameMessages DEF IInv
<1> QED BY <1>1, <1>2
        DEF GetFilBlockHeight, OnLatestHeightUpdated, prefsVars, trackerVars

LEMMA SearchParts ==
  ASSUME IInv, NEW r \in searchRpc, searchRpc' = searchRpc \ {r}
  PROVE  LET id == r.id
         IN  /\ id \in TxIds /\ r \in Searched(id)
             /\ Idle(id)
             /\ RowIn(id, {"Submitted", "Confirmed", "Error", "Rejected"})
             /\ \A q \in Searched(id) :
                  /\ q.cid.what = id
                  /\ \A net \in Networks :
                       Stored(net, id) =>
                         /\ net = q.net /\ Row(net, id).cid = q.cid
                         /\ Row(net, id).nonce # NoNonce
             /\ \A other \in TxIds : Searched(other)' \subseteq Searched(other)
<1> DEFINE id == r.id
<1>1. id \in TxIds /\ r \in Searched(id)
  BY DEF IInv, TypeOK, Searched
<1>2. \A other \in TxIds : Searched(other)' \subseteq Searched(other)
  BY DEF Searched
<1> HIDE DEF id
<1>3. OneStage(id) /\ CopiesOK(id)
  BY <1>1 DEF IInv, IdOK
<1>4. /\ Idle(id)
      /\ RowIn(id, {"Submitted", "Confirmed", "Error", "Rejected"})
  BY <1>1, <1>3 DEF OneStage, Clean, Idle
<1> QED BY <1>1, <1>2, <1>3, <1>4 DEF id, CopiesOK

\* The answer is saved in the record of the message it is about.
LEMMA SettleStep ==
  ASSUME IInv, TypeOK', NEW r \in searchRpc, searchRpc' = searchRpc \ {r},
         Found(r.id), NEW meta \in Metas, Save(meta),
         meta.id = r.id, meta.nonce = Store[r.id].nonce,
         meta.cid = Store[r.id].cid,
         \/ meta.status = "Error"
         \/ meta.status = "Confirmed" /\ ExitCodeIsZero(r),
         UNCHANGED <<network, used, nonceRpc, device, sendRpc>>,
         UNCHANGED networkVars
  PROVE  IInv'
<1> DEFINE id == r.id
<1>0. TypeOK /\ network \in Networks
  BY DEF IInv, TypeOK
<1>1. /\ id \in TxIds /\ r \in Searched(id) /\ Idle(id)
      /\ RowIn(id, {"Submitted", "Confirmed", "Error", "Rejected"})
      /\ \A q \in Searched(id) :
           /\ q.cid.what = id
           /\ \A net \in Networks :
                Stored(net, id) => /\ net = q.net /\ Row(net, id).cid = q.cid
                                   /\ Row(net, id).nonce # NoNonce
      /\ \A other \in TxIds : Searched(other)' \subseteq Searched(other)
  BY SearchParts
<1>2. /\ AtHome(id) /\ id \in used /\ Stored(network, id)
      /\ Row(network, id) = Store[id] /\ RowOK(network, id, Store[id])
  BY <1>1, FoundHome
<1> HIDE DEF id
<1>3. meta.id = id /\ meta.nonce = Store[id].nonce /\ meta.cid = Store[id].cid
  BY DEF id
<1>4. /\ \A q \in Searched(id) : q.net = network /\ q.cid = meta.cid
      /\ meta.cid.what = id /\ meta.nonce # NoNonce
  BY <1>0, <1>1, <1>2, <1>3
<1>5. RowOK(network, id, meta)
  <2>1. CASE meta.status = "Error"
    BY <1>3, <2>1 DEF RowOK
  <2>2. CASE meta.status = "Confirmed" /\ ExitCodeIsZero(r)
    <3>1. meta.cid \in executed[network] \ failed[network]
      BY <1>1, <1>4, <2>2 DEF ExitCodeIsZero
    <3>2. meta.cid \in Messages
      BY <1>0, <3>1 DEF TypeOK
    <3>3. meta.cid # NoCid
      BY <3>2, NoCidAssumption
    <3> QED BY <1>3, <1>4, <2>2, <3>1, <3>3 DEF RowOK
  <2> QED BY <2>1, <2>2
<1>6. OnlyRow(id, meta)
  BY <1>0, <1>2, <1>3, SavedRow
<1>7. Rests(id)
  BY <1>1 DEF Idle, Rests, Asked, Held, Sending
<1>8. StageOK(id)
  BY <1>1, <1>4, <1>6, <1>7, SearchStage
<1>9. \A other \in TxIds \ {id} : QueuesKept(other)
  BY <1>1 DEF QueuesKept, Asked, Held, Sending
<1> QED BY <1>2, <1>3, <1>5, <1>8, <1>9, SaveStep

LEMMA SearchAnswerStep ==
  ASSUME IInv, TypeOK', NEW r \in searchRpc,
         OnGetFilStateSearchMsgLimited(r) \/ NotFoundYet(r)
  PROVE  IInv'
<1>0. TypeOK /\ r.id \in TxIds
  BY DEF IInv, TypeOK
<1>1. /\ searchRpc' = searchRpc \ {r}
      /\ UNCHANGED <<network, used, nonceRpc, device, sendRpc>>
      /\ UNCHANGED networkVars
  BY DEF OnGetFilStateSearchMsgLimited, NotFoundYet, prefsVars
<1>2. CASE UNCHANGED txs
  <2>1. \A id \in TxIds : Quiet(id) /\ Steady(id)
    BY <1>1, <1>2, SameMessages
       DEF Quiet, QueuesKept, Steady, Asked, Held, Sending, Searched, Row
  <2> QED BY <1>1, <2>1, QuietStep, SameMessages DEF IInv
<1>3. ASSUME Found(r.id), ExitCodeIsZero(r), NEW t \in Ticks,
             Save([Store[r.id] EXCEPT !.status = "Confirmed",
                                      !.confirmedTime = t])
      PROVE  IInv'
  <2> DEFINE meta == [Store[r.id] EXCEPT !.status = "Confirmed",
                                         !.confirmedTime = t]
  <2>1. Store[r.id] \in Metas /\ Store[r.id].id = r.id
    BY <1>0, <1>3, StoreType, FoundHome DEF RowOK
  <2>t. t \in Nat
    BY <1>3, BoundsAssumption DEF Ticks
  <2>2. /\ meta \in Metas /\ meta.id = r.id /\ meta.status = "Confirmed"
        /\ meta.nonce = Store[r.id].nonce /\ meta.cid = Store[r.id].cid
    BY <2>1, <2>t DEF Metas, Status
  <2>3. Save(meta)
    BY <1>3
  <2> HIDE DEF meta
  <2> QED BY <1>1, <1>3, <2>2, <2>3, SettleStep
<1>4. ASSUME Found(r.id), Save([Store[r.id] EXCEPT !.status = "Error"])
      PROVE  IInv'
  <2> DEFINE meta == [Store[r.id] EXCEPT !.status = "Error"]
  <2>1. Store[r.id] \in Metas /\ Store[r.id].id = r.id
    BY <1>0, <1>4, StoreType, FoundHome DEF RowOK
  <2>2. /\ meta \in Metas /\ meta.id = r.id /\ meta.status = "Error"
        /\ meta.nonce = Store[r.id].nonce /\ meta.cid = Store[r.id].cid
    BY <2>1 DEF Metas, Status
  <2>3. Save(meta)
    BY <1>4
  <2> HIDE DEF meta
  <2> QED BY <1>1, <1>4, <2>2, <2>3, SettleStep
<1> QED BY <1>2, <1>3, <1>4
        DEF OnGetFilStateSearchMsgLimited, NotFoundYet, prefsVars

-----------------------------------------------------------------------------
(* The keyring, the selected network and the browser.                      *)

LEMMA KeyringStep ==
  ASSUME IInv, TypeOK',
         Lock \/ \E notice \in {"Unlocked", "KeyringCreated"} : Unlock(notice)
  PROVE  IInv'
<1>1. /\ UNCHANGED <<txs, network, used, nonceRpc, device, sendRpc, searchRpc>>
      /\ UNCHANGED networkVars
  BY DEF Lock, Unlock, prefsVars, trackerVars
<1>2. \A id \in TxIds : Quiet(id) /\ Steady(id)
  BY <1>1, SameMessages
     DEF Quiet, QueuesKept, Steady, Asked, Held, Sending, Searched, Row
<1> QED BY <1>1, <1>2, QuietStep, SameMessages DEF IInv

LEMMA NoticeStep ==
  ASSUME IInv, TypeOK', OnKeyringNotice
  PROVE  IInv'
<1>1. /\ UNCHANGED <<network, used, nonceRpc, device, sendRpc>>
      /\ UNCHANGED networkVars
  BY DEF OnKeyringNotice
<1>2. ASSUME NEW isRunning, UpdatePendingTransactions(Store, isRunning)
      PROVE  IInv'
  BY <1>1, <1>2, PendingStep
<1>3. CASE UNCHANGED <<txs, searchRpc>>
  <2>1. \A id \in TxIds : Quiet(id) /\ Steady(id)
    BY <1>1, <1>3, SameMessages
       DEF Quiet, QueuesKept, Steady, Asked, Held, Sending, Searched, Row
  <2> QED BY <1>1, <2>1, QuietStep, SameMessages DEF IInv
<1> QED BY <1>2, <1>3 DEF OnKeyringNotice

\* Nothing of an approval is under way when the network is switched.
LEMMA SetNetworkStep ==
  ASSUME PlainUse, IInv, TypeOK', NEW net \in Networks,
         SetNetwork(net)
  PROVE  IInv'
<1>1. nonceRpc = {} /\ sendRpc = {} /\ device = {}
  BY DEF PlainUse, SetNetwork, IInv, TypeOK
<1>2. /\ UNCHANGED <<txs, used, nonceRpc, device, sendRpc, searchRpc>>
      /\ UNCHANGED networkVars
  BY DEF SetNetwork, trackerVars
<1>3. \A id \in TxIds : Quiet(id) /\ Idle(id)
  BY <1>1, <1>2, SameMessages
     DEF Quiet, QueuesKept, Idle, Asked, Held, Sending, Searched, Row
<1> QED BY <1>2, <1>3, QuietStep, SameMessages DEF IInv, Steady

\* After a reset nothing is stored, and an answer to a request under way finds
\* no record.
LEMMA ResetStep ==
  ASSUME IInv, TypeOK', Reset
  PROVE  IInv'
<1>1. /\ UNCHANGED <<used, nonceRpc, device, sendRpc, searchRpc>>
      /\ UNCHANGED networkVars
  BY DEF Reset
<1>2. \A net \in Networks : \A id \in TxIds : ~Stored(net, id)'
  BY DEF Reset, Stored, Row, EmptyStore
<1>3. ASSUME NEW id \in TxIds PROVE IdOK(id)'
  <2>1. /\ Asked(id)' = Asked(id) /\ Held(id)' = Held(id)
        /\ Sending(id)' = Sending(id) /\ Searched(id)' = Searched(id)
        /\ Known(id)' = Known(id)
    BY <1>1, SameMessages DEF Asked, Held, Sending, Searched
  <2>2. IdOK(id)
    BY DEF IInv
  <2>3. RowsOK(id)' /\ OneHome(id)'
    BY <1>2 DEF RowsOK, OneHome
  <2>4. OneStage(id)'
    BY <1>2, <2>1, <2>2 DEF IdOK, OneStage, RowIn, Numbered, Clean
  <2>5. CopiesOK(id)'
    BY <1>2, <2>1, <2>2 DEF IdOK, CopiesOK
  <2>6. OneMessage(id)' /\ (id \notin used' => Unused(id)')
    BY <1>1, <1>2, <2>1, <2>2 DEF IdOK, OneMessage, Unused, Idle
  <2> QED BY <2>3, <2>4, <2>5, <2>6 DEF IdOK
<1> QED BY <1>1, <1>3, SameMessages DEF IInv

LEMMA RestartStep ==
  ASSUME IInv, TypeOK', Restart
  PROVE  IInv'
<1>1. /\ UNCHANGED <<txs, network, used>> /\ UNCHANGED networkVars
      /\ nonceRpc' = {} /\ device' = {} /\ sendRpc' = {} /\ searchRpc' = {}
  BY DEF Restart, prefsVars
<1>2. \A id \in TxIds : Quiet(id) /\ Steady(id)
  BY <1>1, SameMessages
     DEF Quiet, QueuesKept, Steady, Asked, Held, Sending, Searched, Row
<1> QED BY <1>1, <1>2, QuietStep, SameMessages DEF IInv

-----------------------------------------------------------------------------
(* The networks.                                                           *)

LEMMA NodeStep ==
  ASSUME IInv, TypeOK', NEW r \in sendRpc, NodeAccepts(r) \/ NodeRefuses(r)
  PROVE  IInv'
<1> DEFINE id == r.id
<1>0. /\ TypeOK /\ id \in TxIds /\ r \in Sending(id) /\ r \in SendRequests
      /\ r.net \in Networks /\ r.message \in Messages
  BY DEF IInv, TypeOK, SendRequests, Sending
<1>1. PICK s : /\ sendRpc' = (sendRpc \ {r}) \cup {s}
               /\ s.id = r.id /\ s.message = r.message
  <2>1. \A state : /\ [r EXCEPT !.state = state].id = r.id
                   /\ [r EXCEPT !.state = state].message = r.message
    BY <1>0 DEF SendRequests
  <2> QED BY <2>1 DEF NodeAccepts, NodeRefuses
<1>2. /\ UNCHANGED <<txs, network, used, nonceRpc, device, searchRpc>>
      /\ UNCHANGED <<executed, failed, count>>
      /\ pool' \in {pool, [pool EXCEPT ![r.net] = @ \cup {r.message}]}
  BY DEF NodeAccepts, NodeRefuses, prefsVars, trackerVars, networkVars
<1>3. pool \in [Networks -> SUBSET Messages]
  BY <1>0 DEF TypeOK
<1>4. OneStage(id) /\ CopiesOK(id) /\ IdOK(id)
  BY <1>0 DEF IInv, IdOK
<1>5. /\ Asked(id) = {} /\ Held(id) = {} /\ Searched(id) = {}
      /\ RowIn(id, {"Approved", "Rejected"}) /\ Numbered(id)
      /\ r.message.what = id
      /\ \A m \in Known(id) : m = r.message
      /\ \A q \in Sending(id) : q = r
  BY <1>0, <1>4 DEF OneStage, CopiesOK, Clean
<1>6. \A net \in Networks : /\ pool[net] \subseteq pool'[net]
                            /\ pool'[net] \subseteq pool[net] \cup {r.message}
  BY <1>0, <1>2, <1>3
<1>7. ChainsOK'
  BY <1>2, <1>6 DEF IInv, ChainsOK
<1> HIDE DEF id
<1>8. \A other \in TxIds :
        /\ Asked(other)' = Asked(other) /\ Held(other)' = Held(other)
        /\ Searched(other)' = Searched(other)
        /\ \A net \in Networks : Row(net, other)' = Row(net, other)
        /\ \A net \in Networks : Stored(net, other)' = Stored(net, other)
  BY <1>2 DEF Asked, Held, Searched, Row, Stored
<1>9. IdOK(id)'
  <2>1. Sending(id)' = {s}
    BY <1>1, <1>5 DEF Sending, id
  <2>2. \A m \in Known(id)' : m = r.message
    BY <1>5, <1>6 DEF Known
  <2>3. RowsOK(id)'
    BY <1>0, <1>2, <1>4, <1>8 DEF IdOK, RowsOK, RowOK
  <2>4. OneHome(id)'
    BY <1>0, <1>2, <1>4, <1>8 DEF IdOK, OneHome, Idle
  <2>5. OneStage(id)'
    <3>1. RowIn(id, {"Approved", "Rejected"})' /\ Numbered(id)'
      BY <1>0, <1>5, <1>8 DEF RowIn, Numbered
    <3>2. /\ \A q1, q2 \in Sending(id)' : q1 = q2
          /\ Asked(id)' = {} /\ Held(id)' = {} /\ Searched(id)' = {}
      BY <1>0, <1>5, <1>8, <2>1
    <3> QED BY <3>1, <3>2 DEF OneStage, RowIn
  <2>6. CopiesOK(id)'
    BY <1>0, <1>1, <1>5, <1>8, <2>1, <2>2 DEF CopiesOK
  <2>7. OneMessage(id)'
    BY <2>2 DEF OneMessage
  <2>8. id \in used'
    BY <1>0, <1>2, BusyHome DEF Idle
  <2> QED BY <2>3, <2>4, <2>5, <2>6, <2>7, <2>8 DEF IdOK
<1>10. ASSUME NEW other \in TxIds \ {id} PROVE IdOK(other)'
  <2>1. Sending(other)' = Sending(other)
    BY <1>1 DEF Sending, id
  <2>2. Known(other)' = Known(other)
    BY <1>5, <1>6 DEF Known
  <2>3. Quiet(other) /\ Steady(other)
    BY <1>2, <1>8, <2>1, <2>2 DEF Quiet, QueuesKept, Steady
  <2>4. StillExecuted
    BY <1>2 DEF StillExecuted
  <2> QED BY <2>3, <2>4, QuietStep
<1> QED BY <1>7, <1>9, <1>10 DEF IInv

LEMMA ExecuteStep ==
  ASSUME IInv, TypeOK', NEW net \in Networks, NEW m \in pool[net],
         NEW fails \in BOOLEAN, Execute(net, m, fails)
  PROVE  IInv'
<1>0. /\ executed \in [Networks -> SUBSET Messages]
      /\ failed \in [Networks -> SUBSET Messages]
      /\ count \in [Networks -> Nat] /\ m \in Messages
  BY DEF IInv, TypeOK
<1>1. /\ UNCHANGED <<txs, network, used, nonceRpc, device, sendRpc, searchRpc>>
      /\ pool' = pool
  BY DEF Execute, prefsVars, trackerVars
<1>2. /\ m.nonce = count[net] /\ m.nonce \in Nat
      /\ \A n \in Networks :
           /\ executed'[n] = IF n = net THEN executed[n] \cup {m}
                                        ELSE executed[n]
           /\ failed[n] \subseteq failed'[n]
           /\ failed'[n] \subseteq IF n = net THEN failed[n] \cup {m}
                                              ELSE failed[n]
           /\ count'[n] = IF n = net THEN count[n] + 1 ELSE count[n]
  BY <1>0 DEF Execute
<1>3. m \notin executed[net]
  BY <1>0, <1>2 DEF IInv, ChainsOK
<1>4. StillExecuted
  BY <1>2, <1>3 DEF StillExecuted
<1>5. ChainsOK'
  <2> SUFFICES ASSUME NEW n \in Networks
               PROVE  /\ executed'[n] \subseteq pool'[n]
                      /\ failed'[n] \subseteq executed'[n]
                      /\ \A x \in executed'[n] : x.nonce < count'[n]
    BY DEF ChainsOK
  <2>1. /\ executed[n] \subseteq pool[n] /\ failed[n] \subseteq executed[n]
        /\ \A x \in executed[n] : x.nonce < count[n]
    BY DEF IInv, ChainsOK
  <2>2. count[n] \in Nat /\ \A x \in executed[n] : x.nonce \in Nat
    BY <1>0, BoundsAssumption DEF Messages, Nonces
  <2>3. executed'[n] \subseteq pool'[n] /\ failed'[n] \subseteq executed'[n]
    BY <1>1, <1>2, <2>1
  <2>4. ASSUME NEW x \in executed'[n] PROVE x.nonce < count'[n]
    <3>1. count'[n] \in Nat /\ count[n] <= count'[n]
      <4>1. count'[n] = IF n = net THEN count[n] + 1 ELSE count[n]
        BY <1>2
      <4> QED BY <2>2, <4>1
    <3>2. CASE x \in executed[n]
      <4>1. x.nonce < count[n] /\ x.nonce \in Nat
        BY <2>1, <2>2, <3>2
      <4> QED BY <2>2, <3>1, <4>1
    <3>3. CASE x = m /\ n = net
      <4>1. x.nonce = count[n] /\ count'[n] = count[n] + 1
        BY <1>2, <3>3
      <4> QED BY <2>2, <4>1
    <3> QED BY <1>2, <2>4, <3>2, <3>3
  <2> QED BY <2>3, <2>4
<1>6. \A id \in TxIds : Quiet(id) /\ Steady(id)
  BY <1>1 DEF Quiet, QueuesKept, Steady, Asked, Held, Sending, Searched, Row,
     Known
<1> QED BY <1>4, <1>5, <1>6, QuietStep DEF IInv

-----------------------------------------------------------------------------
(* The invariant, and what follows from it.                                *)

LEMMA InitInv ==
  ASSUME Init
  PROVE  IInv
<1>1. TypeOK
  BY InitType
<1>2. /\ nonceRpc = {} /\ device = {} /\ sendRpc = {} /\ searchRpc = {}
      /\ \A net \in Networks : /\ pool[net] = {} /\ executed[net] = {}
                               /\ failed[net] = {}
  BY DEF Init, Fresh
<1>3. ChainsOK
  BY <1>2 DEF ChainsOK
<1>4. ASSUME NEW id \in TxIds PROVE IdOK(id)
  <2>1. /\ Asked(id) = {} /\ Held(id) = {} /\ Sending(id) = {}
        /\ Searched(id) = {} /\ Known(id) = {}
    BY <1>2 DEF Asked, Held, Sending, Searched, Known
  <2>2. \A net \in Networks : ~Stored(net, id)
    BY DEF Init, Stored, Row, EmptyStore
  <2> QED BY <2>1, <2>2 DEF IdOK, RowsOK, OneHome, OneStage, CopiesOK,
             OneMessage, Unused, Idle
<1> QED BY <1>1, <1>3, <1>4 DEF IInv

LEMMA NextInv ==
  ASSUME PlainUse, IInv, [Next]_vars
  PROVE  IInv'
<1>0. TypeOK'
  BY NextType DEF IInv, TypeStep
<1>1. CASE UNCHANGED vars
  <2>1. /\ UNCHANGED <<txs, network, used, nonceRpc, device, sendRpc, searchRpc>>
        /\ UNCHANGED networkVars
    BY <1>1 DEF vars, prefsVars, trackerVars
  <2>2. \A id \in TxIds : Quiet(id) /\ Steady(id)
    BY <2>1, SameMessages
       DEF Quiet, QueuesKept, Steady, Asked, Held, Sending, Searched, Row
  <2> QED BY <1>0, <2>1, <2>2, QuietStep, SameMessages DEF IInv
<1>2. CASE Next
  BY <1>0, <1>2, AddStep, RejectStep, ApproveStep, NonceAnswerStep,
     NonceFailsStep, SignatureStep, SentAnswerStep, HeightStep,
     SearchAnswerStep, KeyringStep, NoticeStep, SetNetworkStep, ResetStep,
     RestartStep, NodeStep, ExecuteStep
     DEF Next
<1> QED BY <1>1, <1>2

(***************************************************************************)
(* The stages of a transaction: one that is approved once, whatever is     *)
(* rejected late, ends in one message at most, which is the one its record *)
(* names and searches are about.                                           *)
(***************************************************************************)
THEOREM Invariance ==
  ASSUME PlainUse
  PROVE  Spec => []IInv
<1>1. Init => IInv
  BY InitInv
<1>2. IInv /\ [Next]_vars => IInv'
  BY NextInv
<1> QED BY <1>1, <1>2, PTL DEF Spec

LEMMA InvNonces ==
  ASSUME IInv
  PROVE  NoncesKnown
<1> SUFFICES ASSUME NEW net \in Networks,
                    NEW id \in IdsByStatus(txs[net], {"Submitted", "Confirmed"})
             PROVE  txs[net][id].nonce \in Nat
  BY DEF NoncesKnown
<1>1. /\ id \in TxIds /\ Stored(net, id)
      /\ Row(net, id).status \in {"Submitted", "Confirmed"}
  BY DEF IdsByStatus, Stored, Row
<1>2. Row(net, id) \in Metas /\ Row(net, id).nonce # NoNonce
  BY <1>1 DEF IInv, TypeOK, Stored, Row, IdOK, RowsOK, RowOK
<1>3. Row(net, id).nonce \in Nat
  BY <1>2, BoundsAssumption DEF Metas, OptNonces, Nonces
<1> QED BY <1>3 DEF Row

(***************************************************************************)
(* The nonce tracker leaves no hole below the nonce it hands out, however  *)
(* many records there are and whatever order their ids give them.          *)
(***************************************************************************)
THEOREM NoGapAlways ==
  ASSUME PlainUse
  PROVE  Spec => []NoGapBelowNextNonce
<1>1. IInv => NoGapBelowNextNonce
  BY InvNonces, NoGap
<1> QED BY <1>1, Invariance, PTL

(***************************************************************************)
(* It hands out no nonce that the node or the wallet knows to be consumed. *)
(***************************************************************************)
THEOREM NextNonceNotConsumedAlways ==
  ASSUME PlainUse
  PROVE  Spec => []NextNonceNotConsumed
<1>1. IInv => NextNonceNotConsumed
  BY InvNonces, NotConsumed
<1> QED BY <1>1, Invariance, PTL

(***************************************************************************)
(* Nor one of a submitted message, when ids list these in nonce order.     *)
(***************************************************************************)
THEOREM FreshInNonceOrderAlways ==
  ASSUME PlainUse
  PROVE  Spec => []FreshWhenListedInNonceOrder
<1>1. IInv => FreshWhenListedInNonceOrder
  BY InvNonces, FreshInOrder
<1> QED BY <1>1, Invariance, PTL

(***************************************************************************)
(* A record shown as confirmed is a message of its own that its network    *)
(* has executed with exit code 0.                                          *)
(***************************************************************************)
THEOREM ConfirmedWasExecutedAlways ==
  ASSUME PlainUse
  PROVE  Spec => []ConfirmedWasExecuted
<1>1. IInv => ConfirmedWasExecuted
  <2> SUFFICES ASSUME IInv, NEW net \in Networks,
                      NEW id \in IdsByStatus(txs[net], {"Confirmed"})
               PROVE  /\ txs[net][id].cid \in executed[net] \ failed[net]
                      /\ txs[net][id].cid.what = id
    BY DEF ConfirmedWasExecuted
  <2>1. /\ id \in TxIds /\ Stored(net, id)
        /\ Row(net, id).status = "Confirmed"
    BY DEF IdsByStatus, Stored, Row
  <2>2. RowOK(net, id, Row(net, id))
    BY <2>1 DEF IInv, IdOK, RowsOK
  <2> QED BY <2>1, <2>2 DEF RowOK, Row
<1> QED BY <1>1, Invariance, PTL

(***************************************************************************)
(* No payment that is approved once is executed twice.                     *)
(***************************************************************************)
THEOREM PaidAtMostOnceAlways ==
  ASSUME PlainUse
  PROVE  Spec => []PaidAtMostOnce
<1>1. IInv => PaidAtMostOnce
  <2> SUFFICES ASSUME IInv, NEW net \in Networks, NEW m1 \in executed[net],
                      NEW m2 \in executed[net], m1.what = m2.what
               PROVE  m1 = m2
    BY DEF PaidAtMostOnce
  <2>1. /\ m1 \in pool[net] /\ m2 \in pool[net]
        /\ m1 \in Messages /\ m2 \in Messages
    BY DEF IInv, ChainsOK, TypeOK
  <2>2. m1.what \in TxIds /\ m1 \in Known(m1.what) /\ m2 \in Known(m1.what)
    BY <2>1 DEF Messages, Known
  <2> QED BY <2>2 DEF IInv, IdOK, OneMessage
<1> QED BY <1>1, Invariance, PTL
=============================================================================
