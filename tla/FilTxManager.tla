---------------------------- MODULE FilTxManager ----------------------------
(***************************************************************************)
(* The life of a Filecoin transaction in the wallet (fil_tx_manager.cc),   *)
(* composed of the store, the nonce tracker and the block tracker that the *)
(* managers of all coins share.  Unlike an Ethereum transaction a message  *)
(* cannot be sped up, cancelled or retried, and its fate is asked for by   *)
(* its cid.  As in EthTxManager a handler is one action, and records live  *)
(* in prefs under the network selected when they are read or written.      *)
(***************************************************************************)
EXTENDS TxStateManager, NonceTracker, TxManager

CONSTANTS Networks,        \* Filecoin networks the user can select
          DefaultNetwork,  \* the one selected after a wallet reset
          NoNonce, NoCid,  \* no nonce yet, not sent yet
          MaxNonce,        \* bound on nonces
          MaxNotices,      \* bound on keyring notices under way
          Surroundings     \* what may happen around the manager, per behaviour

ASSUME NetworksAssumption == DefaultNetwork \in Networks
ASSUME BoundsAssumption == MaxNonce \in Nat /\ MaxNotices \in Nat
ASSUME NoNonceAssumption == NoNonce \notin Nat

\* "LateReject": the panel rejects from a list that is out of date;
\* "ReApprove": the panel's button comes back while the first approval still
\* waits for its nonce; "GivenNonce": the transaction data names a nonce;
\* "Lag": a node answers with an old nonce; "RpcError": requests fail, or
\* succeed without the wallet learning of it; "SwitchMeanwhile": the network is
\* switched between a request of an approval and its answer; "OneId", "TwoIds":
\* bounds.
EnvChoices == {"Hardware", "GivenNonce", "Lag", "RpcError", "Lock", "Restart",
               "Reset", "Reject", "LateReject", "ReApprove", "Fail",
               "SwitchNetwork", "SwitchMeanwhile", "OneId", "TwoIds"}
ASSUME SurroundingsAssumption == Surroundings \subseteq SUBSET EnvChoices

VARIABLES
  env,            \* the surroundings of this behaviour
  network,        \* the selected Filecoin network
  txs,            \* the transaction prefs: network -> store
  used,           \* transaction ids handed out so far
  locked,         \* KeyringService::IsLocked(kFilecoinKeyringId)
  notices,        \* keyring notifications under way to the manager
  running,        \* the block tracker's timer
  heightRpc,      \* a chain head request is in flight
  knownNoPending, \* known_no_pending_tx_
  nonceRpc,       \* nonce requests of the nonce tracker
  device,         \* messages a hardware device has been asked to sign
  sendRpc,        \* messages being sent
  searchRpc,      \* searches for sent messages
  pool,           \* network -> messages its nodes have accepted
  executed,       \* network -> messages it has executed
  failed,         \* network -> those with an exit code other than 0
  count           \* network -> the account's nonce on the chain

prefsVars   == <<network, txs, used>>
keyringVars == <<locked, notices>>
trackerVars == <<running, knownNoPending, searchRpc>>
networkVars == <<pool, executed, failed, count>>
vars == <<env, prefsVars, keyringVars, trackerVars, heightRpc, nonceRpc, device,
          sendRpc, networkVars>>

-----------------------------------------------------------------------------
Nonces == 0 .. MaxNonce
OptNonces == Nonces \cup {NoNonce}

\* A message: the record it was made of stands for its contents.  It is its
\* own cid, and there is no trace of the network in it.
Messages == [what : TxIds, nonce : Nonces]

\* FilTxMeta.
Metas == [id : TxIds, nonce : OptNonces, status : Status,
          cid : Messages \cup {NoCid}, createdTime : Nat, confirmedTime : Nat]

ASSUME NoCidAssumption == NoCid \notin Messages
ASSUME NoTxAssumption == NoTx \notin Metas

Fresh ==
  /\ locked = TRUE /\ notices = <<>>
  /\ running = FALSE /\ heightRpc = FALSE /\ knownNoPending = FALSE
  /\ nonceRpc = {} /\ device = {} /\ sendRpc = {} /\ searchRpc = {}

Init ==
  /\ env \in Surroundings
  /\ network = DefaultNetwork
  /\ txs = [n \in Networks |-> EmptyStore]
  /\ used = {}
  /\ Fresh
  /\ pool = [n \in Networks |-> {}]
  /\ executed = [n \in Networks |-> {}]
  /\ failed = [n \in Networks |-> {}]
  /\ count = [n \in Networks |-> 0]

Store == txs[network]
Found(id) == Store[id] # NoTx
HasStatus(id, status) == Found(id) /\ Store[id].status = status

Save(meta) == txs' = [txs EXCEPT ![network] = AddOrUpdateTx(Store, meta)]

\* FilTxManager::UpdatePendingTransactions on the given store, with the timer
\* running or not.
UpdatePendingTransactions(store, isRunning) ==
  LET pending == IdsByStatus(store, {"Submitted"})
  IN  /\ txs' = [txs EXCEPT ![network] = store]
      /\ searchRpc' = searchRpc \cup
           {[id |-> id, net |-> network, cid |-> store[id].cid] :
              id \in pending}
      /\ knownNoPending' = (pending = {})
      /\ running' = CheckIfBlockTrackerShouldRun(locked, isRunning,
                                                 pending = {})

-----------------------------------------------------------------------------
(* Adding, rejecting and approving.  The gas request before a record is    *)
(* added changes nothing.                                                  *)

MaxIds == IF "OneId" \in env THEN 1
          ELSE IF "TwoIds" \in env THEN 2 ELSE Cardinality(TxIds)

ContinueAddUnapprovedTransaction(id, nonce) ==
  /\ id \notin used /\ Cardinality(used) < MaxIds
  /\ nonce # NoNonce => "GivenNonce" \in env
  /\ used' = used \cup {id}
  /\ Save([id |-> id, nonce |-> nonce, status |-> "Unapproved", cid |-> NoCid,
           createdTime |-> Cardinality(used) + 1, confirmedTime |-> 0])
  /\ UNCHANGED <<env, network, keyringVars, trackerVars, heightRpc, nonceRpc,
                 device, sendRpc, networkVars>>

\* The handler takes any status.  The panel lists unapproved transactions, those
\* whose approval waits for a nonce among them.
RejectTransaction(id) ==
  /\ "Reject" \in env /\ Found(id)
  /\ HasStatus(id, "Unapproved") \/ "LateReject" \in env
  /\ Save([Store[id] EXCEPT !.status = "Rejected"])
  /\ UNCHANGED <<env, network, used, keyringVars, trackerVars, heightRpc,
                 nonceRpc, device, sendRpc, networkVars>>

SendFilecoinTransaction(id, message) ==
  sendRpc' = sendRpc \cup
    {[id |-> id, net |-> network, message |-> message, state |-> "sent"]}

\* The wrong way: sending what was there before the nonce arrived.
SignWithoutNonce(meta, nonce) ==
  /\ Save([meta EXCEPT !.nonce = nonce, !.status = "Approved"])
  /\ SendFilecoinTransaction(meta.id,
                             [what |-> meta.id, nonce |-> meta.nonce])

\* OnGetNextNonce with a nonce: a locked keyring signs nothing, and the record
\* stays approved.
SignAndSend(meta, nonce) ==
  /\ Save([meta EXCEPT !.nonce = nonce, !.status = "Approved"])
  /\ IF locked
     THEN UNCHANGED sendRpc
     ELSE SendFilecoinTransaction(meta.id, [what |-> meta.id, nonce |-> nonce])

QueueLength == Cardinality(IdsByStatus(Store, {"Unapproved"}))

\* The wrong way: a button that is never disabled.
PanelAlwaysOffers(id) == HasStatus(id, "Unapproved") /\ ~locked

\* The panel is the one of all coins: it disables its button once pressed, until
\* the length of the queue of unapproved transactions is another one.  The
\* handler does not look at the status.
PanelOffersApproval(id) ==
  /\ HasStatus(id, "Unapproved")
  /\ ~locked
  /\ \A r \in nonceRpc :
       r.meta.id = id => "ReApprove" \in env /\ r.queue # QueueLength

NonceRequest(id, isHardware) ==
  nonceRpc' = nonceRpc \cup
    {[meta |-> Store[id], net |-> network, hw |-> isHardware,
      queue |-> QueueLength]}

ApproveTransaction(id) ==
  /\ PanelOffersApproval(id)
  /\ \/ /\ Store[id].nonce = NoNonce
        /\ NonceRequest(id, FALSE)
        /\ UNCHANGED <<txs, sendRpc>>
     \/ /\ Store[id].nonce # NoNonce
        /\ SignAndSend(Store[id], Store[id].nonce)
        /\ UNCHANGED nonceRpc
  /\ UNCHANGED <<env, network, used, keyringVars, trackerVars, heightRpc,
                 device, networkVars>>

\* The nonces of the transactions of one status, in the dictionary's order.
NoncesInOrder(store, status) ==
  LET sorted == InOrder(IdsByStatus(store, {status}))
  IN  [i \in DOMAIN sorted |-> store[sorted[i]].nonce]

NextNonce(store, networkNonce) ==
  GetFinalNonce(networkNonce, NoncesInOrder(store, "Confirmed"),
                NoncesInOrder(store, "Submitted"))

\* What a node may answer to MpoolGetNonce: it counts the messages it knows
\* of, and any node may have heard of fewer.
NetworkNonces(net) ==
  LET pending == {m.nonce : m \in pool[net]}
  IN  {n \in Nonces :
         /\ "Lag" \notin env => n >= count[net]
         /\ \A k \in count[net] .. n - 1 : k \in pending}

\* FilNonceTracker::OnGetNetworkNonce, then OnGetNextNonce.  The local part of
\* the nonce comes from the network selected now.
OnGetNextNonce(r) ==
  /\ ~r.hw
  /\ nonceRpc' = nonceRpc \ {r}
  /\ \E n \in NetworkNonces(r.net), nonce \in Nonces :
       nonce = NextNonce(Store, n) /\ SignAndSend(r.meta, nonce)
  /\ UNCHANGED <<env, network, used, keyringVars, trackerVars, heightRpc,
                 device, networkVars>>

\* The failure path of both kinds of request: the copy is written back.
GetNextNonceFails(r) ==
  /\ "RpcError" \in env
  /\ nonceRpc' = nonceRpc \ {r}
  /\ Save([r.meta EXCEPT !.status = "Error"])
  /\ UNCHANGED <<env, network, used, keyringVars, trackerVars, heightRpc,
                 device, sendRpc, networkVars>>

\* The record is looked up again, in the network selected now; without it
\* nothing happens (NOTREACHED).
OnSendFilecoinTransaction(r) ==
  /\ r.state # "sent"
  /\ sendRpc' = sendRpc \ {r}
  /\ \/ ~Found(r.id) /\ UNCHANGED <<txs, trackerVars>>
     \/ /\ Found(r.id) /\ r.state = "accepted"
        /\ UpdatePendingTransactions(
             AddOrUpdateTx(Store, [Store[r.id] EXCEPT !.status = "Submitted",
                                                      !.cid = r.message]),
             running)
     \/ /\ Found(r.id)
        /\ r.state = "refused" \/ "RpcError" \in env
        /\ Save([Store[r.id] EXCEPT !.status = "Error"])
        /\ UNCHANGED trackerVars
  /\ UNCHANGED <<env, network, used, keyringVars, heightRpc, nonceRpc, device,
                 networkVars>>

-----------------------------------------------------------------------------
(* Hardware devices: the message, then its signature.                      *)

\* OnGetNextNonceForHardware with a nonce: the record is approved before the
\* device has shown anything.
MessageToSign(meta, nonce) ==
  /\ Save([meta EXCEPT !.nonce = nonce, !.status = "Approved"])
  /\ device' = device \cup
       {[id |-> meta.id, message |-> [what |-> meta.id, nonce |-> nonce]]}

GetTransactionMessageToSign(id) ==
  /\ "Hardware" \in env
  /\ PanelOffersApproval(id)
  /\ \/ /\ Store[id].nonce = NoNonce
        /\ NonceRequest(id, TRUE)
        /\ UNCHANGED <<txs, device>>
     \/ /\ Store[id].nonce # NoNonce
        /\ MessageToSign(Store[id], Store[id].nonce)
        /\ UNCHANGED nonceRpc
  /\ UNCHANGED <<env, network, used, keyringVars, trackerVars, heightRpc,
                 sendRpc, networkVars>>

OnGetNextNonceForHardware(r) ==
  /\ r.hw
  /\ nonceRpc' = nonceRpc \ {r}
  /\ \E n \in NetworkNonces(r.net), nonce \in Nonces :
       nonce = NextNonce(Store, n) /\ MessageToSign(r.meta, nonce)
  /\ UNCHANGED <<env, network, used, keyringVars, trackerVars, heightRpc,
                 sendRpc, networkVars>>

ProcessFilHardwareSignature(d) ==
  /\ device' = device \ {d}
  /\ IF Found(d.id)
     THEN /\ Save([Store[d.id] EXCEPT !.status = "Approved"])
          /\ SendFilecoinTransaction(d.id, d.message)
     ELSE UNCHANGED <<txs, sendRpc>>
  /\ UNCHANGED <<env, network, used, keyringVars, trackerVars, heightRpc,
                 nonceRpc, networkVars>>

-----------------------------------------------------------------------------
(* The block tracker, and what becomes of sent messages.                   *)

GetFilBlockHeight ==
  /\ running /\ ~heightRpc
  /\ heightRpc' = TRUE
  /\ UNCHANGED <<env, prefsVars, keyringVars, trackerVars, nonceRpc, device,
                 sendRpc, networkVars>>

\* A height the tracker has not just seen; any other, or an error, is ignored.
OnLatestHeightUpdated ==
  /\ heightRpc
  /\ heightRpc' = FALSE
  /\ \/ UpdatePendingTransactions(Store, running)
     \/ UNCHANGED <<txs, trackerVars>>
  /\ UNCHANGED <<env, network, used, keyringVars, nonceRpc, device, sendRpc,
                 networkVars>>

\* Confirmation times are only compared: one tick per confirmation.
Ticks == 1 .. Cardinality(TxIds)
IsNow(t, id) ==
  LET others == {o \in TxIds \ {id} : Found(o)}
  IN  /\ \A o \in others : Store[o].confirmedTime < t
      /\ t = 1 \/ \E o \in others : Store[o].confirmedTime = t - 1

\* The wrong way: a receipt is a success.
ExitCodeIgnored(r) == r.cid \in executed[r.net]

ExitCodeIsZero(r) == r.cid \in executed[r.net] \ failed[r.net]

\* The record is looked up in the network selected now; its status is not
\* looked at.
OnGetFilStateSearchMsgLimited(r) ==
  /\ r.cid \in executed[r.net]
  /\ searchRpc' = searchRpc \ {r}
  /\ \/ ~Found(r.id) /\ UNCHANGED txs
     \/ /\ Found(r.id) /\ ExitCodeIsZero(r)
        /\ \E t \in Ticks :
             /\ IsNow(t, r.id)
             /\ Save([Store[r.id] EXCEPT !.status = "Confirmed",
                                         !.confirmedTime = t])
     \/ /\ Found(r.id) /\ ~ExitCodeIsZero(r)
        /\ Save([Store[r.id] EXCEPT !.status = "Error"])
  /\ UNCHANGED <<env, network, used, keyringVars, running, knownNoPending,
                 heightRpc, nonceRpc, device, sendRpc, networkVars>>

\* Not found yet, or no answer.
NotFoundYet(r) ==
  /\ r.cid \notin executed[r.net] \/ "RpcError" \in env
  /\ searchRpc' = searchRpc \ {r}
  /\ UNCHANGED <<env, prefsVars, keyringVars, running, knownNoPending,
                 heightRpc, nonceRpc, device, sendRpc, networkVars>>

-----------------------------------------------------------------------------
(* The keyring, the selected network and the browser.                      *)

Lock ==
  /\ "Lock" \in env
  /\ ~locked /\ Len(notices) < MaxNotices
  /\ locked' = TRUE
  /\ notices' = Append(notices, "Locked")
  /\ UNCHANGED <<env, prefsVars, trackerVars, heightRpc, nonceRpc, device,
                 sendRpc, networkVars>>

Unlock(notice) ==
  /\ notice = "KeyringCreated" => "Reset" \in env
  /\ locked /\ Len(notices) < MaxNotices
  /\ locked' = FALSE
  /\ notices' = Append(notices, notice)
  /\ UNCHANGED <<env, prefsVars, trackerVars, heightRpc, nonceRpc, device,
                 sendRpc, networkVars>>

OnKeyringNotice ==
  /\ notices # <<>>
  /\ notices' = Tail(notices)
  /\ LET isRunning == IF ChecksTracker(Head(notices))
                      THEN CheckIfBlockTrackerShouldRun(locked, running,
                                                        knownNoPending)
                      ELSE running
     IN  \/ /\ UpdatesPending(Head(notices))
            /\ UpdatePendingTransactions(Store, isRunning)
         \/ /\ ~UpdatesPending(Head(notices))
            /\ running' = isRunning
            /\ UNCHANGED <<txs, knownNoPending, searchRpc>>
  /\ UNCHANGED <<env, network, used, locked, heightRpc, nonceRpc, device,
                 sendRpc, networkVars>>

SetNetwork(net) ==
  /\ "SwitchNetwork" \in env
  /\ nonceRpc \cup sendRpc \cup device # {} => "SwitchMeanwhile" \in env
  /\ net # network
  /\ network' = net
  /\ UNCHANGED <<env, txs, used, keyringVars, trackerVars, heightRpc, nonceRpc,
                 device, sendRpc, networkVars>>

\* BraveWalletService::Reset.  Callbacks of requests under way stay bound.
Reset ==
  /\ "Reset" \in env
  /\ Len(notices) < MaxNotices
  /\ txs' = [n \in Networks |-> EmptyStore]
  /\ running' = FALSE /\ knownNoPending' = FALSE
  /\ network' = DefaultNetwork
  /\ locked' = TRUE
  /\ notices' = Append(notices, "KeyringReset")
  /\ UNCHANGED <<env, used, searchRpc, heightRpc, nonceRpc, device, sendRpc,
                 networkVars>>

Restart ==
  /\ "Restart" \in env
  /\ locked' = TRUE /\ notices' = <<>>
  /\ running' = FALSE /\ heightRpc' = FALSE /\ knownNoPending' = FALSE
  /\ nonceRpc' = {} /\ device' = {} /\ sendRpc' = {} /\ searchRpc' = {}
  /\ UNCHANGED <<env, prefsVars, networkVars>>

-----------------------------------------------------------------------------
(* The networks (external).                                                *)

NodeAccepts(r) ==
  /\ r.state = "sent"
  /\ r.message.nonce >= count[r.net]
  /\ sendRpc' = (sendRpc \ {r}) \cup {[r EXCEPT !.state = "accepted"]}
  /\ pool' = [pool EXCEPT ![r.net] = @ \cup {r.message}]
  /\ UNCHANGED <<env, prefsVars, keyringVars, trackerVars, heightRpc, nonceRpc,
                 device, executed, failed, count>>

NodeRefuses(r) ==
  /\ r.state = "sent"
  /\ r.message.nonce < count[r.net] \/ "RpcError" \in env
  /\ sendRpc' = (sendRpc \ {r}) \cup {[r EXCEPT !.state = "refused"]}
  /\ UNCHANGED <<env, prefsVars, keyringVars, trackerVars, heightRpc, nonceRpc,
                 device, networkVars>>

Execute(net, m, fails) ==
  /\ fails => "Fail" \in env
  /\ m.nonce = count[net]
  /\ executed' = [executed EXCEPT ![net] = @ \cup {m}]
  /\ failed' = IF fails THEN [failed EXCEPT ![net] = @ \cup {m}] ELSE failed
  /\ count' = [count EXCEPT ![net] = @ + 1]
  /\ UNCHANGED <<env, prefsVars, keyringVars, trackerVars, heightRpc, nonceRpc,
                 device, sendRpc, pool>>

Next ==
  \/ \E id \in TxIds, nonce \in {NoNonce, 0} :
       ContinueAddUnapprovedTransaction(id, nonce)
  \/ \E id \in TxIds : \/ RejectTransaction(id)
                       \/ ApproveTransaction(id)
                       \/ GetTransactionMessageToSign(id)
  \/ \E r \in nonceRpc : \/ OnGetNextNonce(r)
                         \/ OnGetNextNonceForHardware(r)
                         \/ GetNextNonceFails(r)
  \/ \E d \in device : ProcessFilHardwareSignature(d)
  \/ \E r \in sendRpc : \/ NodeAccepts(r)
                        \/ NodeRefuses(r)
                        \/ OnSendFilecoinTransaction(r)
  \/ GetFilBlockHeight
  \/ OnLatestHeightUpdated
  \/ \E r \in searchRpc : \/ OnGetFilStateSearchMsgLimited(r)
                          \/ NotFoundYet(r)
  \/ Lock
  \/ \E notice \in {"Unlocked", "KeyringCreated"} : Unlock(notice)
  \/ OnKeyringNotice
  \/ \E net \in Networks : SetNetwork(net)
  \/ Reset
  \/ Restart
  \/ \E net \in Networks : \E m \in pool[net], fails \in BOOLEAN :
       Execute(net, m, fails)

Spec == Init /\ [][Next]_vars
=============================================================================
