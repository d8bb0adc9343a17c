--------------------- MODULE SolanaTxManagerProperties ----------------------
(***************************************************************************)
(* What the Solana transaction manager should guarantee.  The runs let the *)
(* user switch networks between requests only: with "SwitchMeanwhile" an   *)
(* answer about one network settles records by the heights and under the   *)
(* store of another, and DroppedNeverExecutes, ConfirmedIsFinal and        *)
(* SettledStaysSettled do not hold of the code.  They leave out            *)
(* "ReApprove" as well: with it a payment is made twice.                   *)
(***************************************************************************)
EXTENDS SolanaTxManager

BlockhashRequests ==
       [purpose : {"none"}, meta : {NoTx}, net : Networks, queue : Nat]
  \cup [purpose : {"sign", "device"}, meta : Metas, net : Networks, queue : Nat]
SendRequests == [id : TxIds, net : Networks, message : Messages,
                 state : {"sent", "accepted", "refused"}]
IsStatusRequest(r) ==
  /\ r.height \in 0 .. MaxHeight /\ r.net \in Networks
  /\ DOMAIN r.signatures \subseteq TxIds
  /\ r.signatures \in [DOMAIN r.signatures -> Messages]
  /\ r.since \in [DOMAIN r.signatures -> Outcomes]

\* The type invariant.
TypeOK ==
  /\ env \in Surroundings
  /\ network \in Networks
  /\ txs \in [Networks -> [TxIds -> Metas \cup {NoTx}]]
  /\ used \subseteq TxIds
  /\ locked \in BOOLEAN /\ notices \in Seq(KeyringNotices)
  /\ running \in BOOLEAN /\ knownNoPending \in BOOLEAN
  /\ latest \in Blockhashes \cup {NoBlockhash}
  /\ blockhashRpc \subseteq BlockhashRequests
  /\ device \subseteq [id : TxIds, message : Messages, queue : Nat]
  /\ sendRpc \subseteq SendRequests
  /\ heightRpc \subseteq Networks
  /\ \A r \in statusRpc : IsStatusRequest(r)
  /\ height \in [Networks -> 0 .. MaxHeight]
  /\ pool \in [Networks -> SUBSET Messages]
  /\ executed \in [Networks -> SUBSET Messages]
  /\ failed \in [Networks -> SUBSET Messages]
  /\ finalized \in [Networks -> SUBSET Messages]

(***************************************************************************)
(* A transaction shown as dropped has not been executed and never will be, *)
(* so the user may safely make the payment again: OnGetSignatureStatuses   *)
(* judges by a height that was asked for before the statuses, and drops    *)
(* only past the last valid one.  The network must not be switched while   *)
(* the questions are under way.                                            *)
(***************************************************************************)
DroppedNeverExecutes ==
  \A net \in Networks : \A id \in IdsByStatus(txs[net], {"Dropped"}) :
    LET m == txs[net][id].signature
    IN  m \notin executed[net] /\ ~CanExecute(net, m)

(***************************************************************************)
(* A record shown as confirmed is a message of its own that its network    *)
(* has executed without error and can no longer roll back.                 *)
(***************************************************************************)
ConfirmedIsFinal ==
  \A net \in Networks : \A id \in IdsByStatus(txs[net], {"Confirmed"}) :
    /\ txs[net][id].signature \in finalized[net] \ failed[net]
    /\ txs[net][id].signature.what = id

(***************************************************************************)
(* No payment is executed twice: a record's contents are never sent with a *)
(* second blockhash while the first may still be executed, or has been,    *)
(* late rejections or not.  Needs a panel that sends one approval per      *)
(* record.                                                                 *)
(***************************************************************************)
PaidAtMostOnce ==
  \A net1, net2 \in Networks :
    \A m1 \in executed[net1], m2 \in executed[net2] :
      m1.what = m2.what => m1 = m2

(***************************************************************************)
(* Statuses asked for earlier and answered later change nothing that has   *)
(* been settled: a record that is confirmed, dropped or in error keeps its *)
(* status until it is retired, the wallet is reset or the user rejects it  *)
(* from an old list.  OnGetSignatureStatuses does not look at the status a *)
(* record has.                                                             *)
(***************************************************************************)
SettledStaysSettled ==
  [][\A net \in Networks :
       \A id \in IdsByStatus(txs[net], {"Confirmed", "Dropped", "Error"}) :
         txs'[net][id] # NoTx =>
           \/ txs'[net][id].status = txs[net][id].status
           \/ "LateReject" \in env /\ txs'[net][id].status = "Rejected"]_vars

(***************************************************************************)
(* As long as the block height can be had and the network stays the same,  *)
(* an unlocked wallet with a submitted transaction polls: the tracker that *)
(* was stopped when there was nothing to wait for has been started again,  *)
(* or is about to be (TxManager::CheckIfBlockTrackerShouldRun).            *)
(***************************************************************************)
TrackerRuns ==
  /\ env \cap {"HeightError", "SwitchNetwork"} = {}
  /\ ~locked /\ IdsByStatus(Store, {"Submitted"}) # {}
  => running \/ heightRpc # {} \/ notices # <<>>

=============================================================================
