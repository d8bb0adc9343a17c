---------------------- MODULE FilTxManagerProperties ------------------------
(***************************************************************************)
(* What the Filecoin transaction manager should guarantee, and what the    *)
(* nonce tracker and the transaction store guarantee to every manager.     *)
(* The runs let the user switch networks only while no approval is under   *)
(* way: with "SwitchMeanwhile" a message can be recorded under a network   *)
(* it was not sent to, and ConfirmedWasExecuted does not hold of the code. *)
(* They leave out "ReApprove" as well: with it a payment is made twice.     *)
(***************************************************************************)
EXTENDS FilTxManager

NonceRequests == [meta : Metas, net : Networks, hw : BOOLEAN, queue : Nat]
SendRequests == [id : TxIds, net : Networks, message : Messages,
                 state : {"sent", "accepted", "refused"}]

\* The type invariant.
TypeOK ==
  /\ env \in Surroundings
  /\ network \in Networks
  /\ txs \in [Networks -> [TxIds -> Metas \cup {NoTx}]]
  /\ used \subseteq TxIds
  /\ locked \in BOOLEAN /\ notices \in Seq(KeyringNotices)
  /\ running \in BOOLEAN /\ heightRpc \in BOOLEAN /\ knownNoPending \in BOOLEAN
  /\ nonceRpc \subseteq NonceRequests
  /\ device \subseteq [id : TxIds, message : Messages]
  /\ sendRpc \subseteq SendRequests
  /\ searchRpc \subseteq [id : TxIds, net : Networks,
                          cid : Messages \cup {NoCid}]
  /\ pool \in [Networks -> SUBSET Messages]
  /\ executed \in [Networks -> SUBSET Messages]
  /\ failed \in [Networks -> SUBSET Messages]
  /\ count \in [Networks -> Nat]

(***************************************************************************)
(* The account never gets stuck behind a hole: every nonce between what    *)
(* the network or the wallet knows to be consumed and the nonce handed out *)
(* belongs to a submitted message, in whatever order ids list them, for    *)
(* any answer of a node, however old (NonceTracker::GetFinalNonce).        *)
(***************************************************************************)
NoGapBelowNextNonce ==
  \A net \in Networks : \A n \in NetworkNonces(net) :
    LET confirmed == NoncesInOrder(txs[net], "Confirmed")
        submitted == NoncesInOrder(txs[net], "Submitted")
    IN  \A k \in HighestConfirmed(n, confirmed) .. NextNonce(txs[net], n) - 1 :
          k \in Range(submitted)

(***************************************************************************)
(* A nonce the wallet has seen consumed is never handed out again, even    *)
(* when the node asked lags behind; nor one the node says is taken.        *)
(***************************************************************************)
NextNonceNotConsumed ==
  \A net \in Networks : \A n \in NetworkNonces(net) :
    /\ NextNonce(txs[net], n) >= n
    /\ \A id \in IdsByStatus(txs[net], {"Confirmed"}) :
         NextNonce(txs[net], n) > txs[net][id].nonce

(***************************************************************************)
(* When ids happen to list the submitted messages in nonce order, the      *)
(* nonce handed out belongs to none of them.  The condition is needed: the *)
(* loop of GetHighestContinuousFrom makes one pass in id order, and ids    *)
(* are random.                                                             *)
(***************************************************************************)
FreshWhenListedInNonceOrder ==
  \A net \in Networks :
    LET submitted == NoncesInOrder(txs[net], "Submitted")
    IN  (\A i, j \in DOMAIN submitted : i < j => submitted[i] <= submitted[j])
          => \A n \in NetworkNonces(net) :
               NextNonce(txs[net], n) \notin Range(submitted)

(***************************************************************************)
(* Retiring (TxStateManager::AddOrUpdateTx) never loses a transaction that *)
(* is still undecided, never goes below the limit, and takes the oldest:   *)
(* whatever stays with the same status was confirmed later, or rejected    *)
(* and created later.                                                      *)
(***************************************************************************)
Limit == [Confirmed |-> KMaxConfirmed, Rejected |-> KMaxRejected]

RetiresOldestBeyondLimit ==
  [][\A net \in Networks : \A id \in TxIds :
       txs[net][id] # NoTx /\ txs'[net][id] = NoTx
         /\ txs' # [n \in Networks |-> EmptyStore] =>
         LET status == txs[net][id].status
             stay   == IdsByStatus(txs'[net], {status})
         IN  /\ status \in {"Confirmed", "Rejected"}
             /\ Cardinality(stay) >= Limit[status]
             /\ \A other \in stay :
                  AgeStamp(txs[net][id]) <= AgeStamp(txs'[net][other])]_vars

(***************************************************************************)
(* A record shown as confirmed is a message of its own that its network    *)
(* has executed with exit code 0, whatever answers come late, and even     *)
(* when the network is switched or the wallet reset during the search.     *)
(***************************************************************************)
ConfirmedWasExecuted ==
  \A net \in Networks : \A id \in IdsByStatus(txs[net], {"Confirmed"}) :
    /\ txs[net][id].cid \in executed[net] \ failed[net]
    /\ txs[net][id].cid.what = id

(***************************************************************************)
(* No payment is executed twice: neither answers of the node that are lost *)
(* nor locks, restarts, resets and rejections, late ones included, make    *)
(* the wallet send a record's contents with a second nonce.  Needs a panel *)
(* that sends one approval per record.                                     *)
(***************************************************************************)
PaidAtMostOnce ==
  \A net \in Networks : \A m1, m2 \in executed[net] :
    m1.what = m2.what => m1 = m2

=============================================================================
