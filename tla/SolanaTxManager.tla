-------------------------- MODULE SolanaTxManager ---------------------------
(***************************************************************************)
(* The life of a Solana transaction in the wallet (solana_tx_manager.cc,   *)
(* solana_block_tracker.cc).  A message names a recent blockhash and can   *)
(* only be executed while that blockhash is valid, so a transaction needs  *)
(* no nonce and can be given up for good: the manager first asks for the   *)
(* block height, then for the statuses of the signatures, and drops what   *)
(* is unknown and past its last valid height.  As in EthTxManager a        *)
(* handler is one action, and records live in prefs under the network      *)
(* selected when they are read or written.                                 *)
(***************************************************************************)
EXTENDS TxStateManager, TxManager, Sequences

CONSTANTS Networks,        \* Solana networks the user can select
          DefaultNetwork,  \* the one selected after a wallet reset
          NoBlockhash, NoSignature,
          Validity,        \* blocks for which a blockhash stays valid
          CacheLife,       \* blocks for which the tracker's value is served
          MaxHeight,       \* bound on block heights
          MaxNotices,      \* bound on keyring notices under way
          MaxStatusRpc,    \* bound on status requests under way
          Surroundings     \* what may happen around the manager, per behaviour

ASSUME NetworksAssumption == DefaultNetwork \in Networks
ASSUME BoundsAssumption ==
  /\ Validity \in Nat \ {0} /\ CacheLife \in Nat /\ MaxHeight \in Nat
  /\ MaxNotices \in Nat /\ MaxStatusRpc \in Nat

\* "LateReject": the panel rejects from a list that is out of date;
\* "ReApprove": the panel's button comes back while the first approval is under
\* way; "GivenBlockhash": a site sends a transaction with its own blockhash;
\* "NoPreflight": it asks the node not to check it; "RpcError": requests fail,
\* or succeed without the wallet learning of it; "HeightError": requests for
\* the block height fail; "SwitchMeanwhile": the network is switched while
\* requests are under way; "OneId": a bound.
EnvChoices == {"Hardware", "GivenBlockhash", "NoPreflight", "RpcError",
               "HeightError", "Lock", "Restart", "Reset", "Reject",
               "LateReject", "ReApprove", "Fail", "SwitchNetwork",
               "SwitchMeanwhile", "OneId"}
ASSUME SurroundingsAssumption == Surroundings \subseteq SUBSET EnvChoices

VARIABLES
  env,            \* the surroundings of this behaviour
  network,        \* the selected Solana network
  txs,            \* the transaction prefs: network -> store
  used,           \* transaction ids handed out so far
  locked,         \* KeyringService::IsLocked(kSolanaKeyringId)
  notices,        \* keyring notifications under way to the manager
  running,        \* the block tracker's timer
  knownNoPending, \* known_no_pending_tx_
  latest,         \* latest_blockhash_ of the block tracker
  blockhashRpc,   \* requests for the latest blockhash
  device,         \* messages a hardware device has been asked to sign
  sendRpc,        \* transactions being sent
  heightRpc,      \* the networks asked for their block height
  statusRpc,      \* requests for the statuses of signatures
  height,         \* network -> its block height
  pool,           \* network -> messages its nodes have accepted
  executed,       \* network -> messages it has executed
  failed,         \* network -> those that ended in an error
  finalized       \* network -> those that can no longer be rolled back

prefsVars   == <<network, txs, used>>
keyringVars == <<locked, notices>>
timerVars   == <<running, knownNoPending>>
networkVars == <<height, pool, executed, failed, finalized>>
vars == <<env, prefsVars, keyringVars, timerVars, latest, blockhashRpc, device,
          sendRpc, heightRpc, statusRpc, networkVars>>

-----------------------------------------------------------------------------
\* A blockhash is that of a block of one network.
Blockhashes == [net : Networks, at : 0 .. MaxHeight]
ASSUME NoBlockhashAssumption == NoBlockhash \notin Blockhashes

\* A message: the record it was made of stands for its contents.  Signing is
\* deterministic, so it is its own signature.
Messages == [what : TxIds, blockhash : Blockhashes]
ASSUME NoSignatureAssumption == NoSignature \notin Messages

\* SolanaTxMeta; expiry is last_valid_block_height.
Metas == [id : TxIds, blockhash : Blockhashes \cup {NoBlockhash}, expiry : Nat,
          status : Status \cup {"Dropped"},
          signature : Messages \cup {NoSignature}, createdTime : Nat,
          confirmedTime : Nat]
ASSUME NoTxAssumption == NoTx \notin Metas

Fresh ==
  /\ locked = TRUE /\ notices = <<>>
  /\ running = FALSE /\ knownNoPending = FALSE /\ latest = NoBlockhash
  /\ blockhashRpc = {} /\ device = {} /\ sendRpc = {}
  /\ heightRpc = {} /\ statusRpc = {}

Init ==
  /\ env \in Surroundings
  /\ network = DefaultNetwork
  /\ txs = [n \in Networks |-> EmptyStore]
  /\ used = {}
  /\ Fresh
  /\ height = [n \in Networks |-> 0]
  /\ pool = [n \in Networks |-> {}]
  /\ executed = [n \in Networks |-> {}]
  /\ failed = [n \in Networks |-> {}]
  /\ finalized = [n \in Networks |-> {}]

Store == txs[network]
Found(id) == Store[id] # NoTx
HasStatus(id, status) == Found(id) /\ Store[id].status = status

Save(meta) == txs' = [txs EXCEPT ![network] = AddOrUpdateTx(Store, meta)]

LatestBlockhash(net) == [net |-> net, at |-> height[net]]
LastValid(blockhash) == blockhash.at + Validity

\* The time since the tracker learnt of its value, counted in blocks.
Cached ==
  latest # NoBlockhash /\ height[latest.net] <= latest.at + CacheLife

\* SolanaTxManager::UpdatePendingTransactions starts with the height of the
\* network selected now.
UpdatePendingTransactions == heightRpc' = heightRpc \cup {network}

-----------------------------------------------------------------------------
(* Adding, rejecting and approving.                                        *)

MaxIds == IF "OneId" \in env THEN 1 ELSE Cardinality(TxIds)

\* A site's transaction has a blockhash, but no last valid height.
AddUnapprovedTransaction(id, given) ==
  /\ id \notin used /\ Cardinality(used) < MaxIds
  /\ given => "GivenBlockhash" \in env
  /\ used' = used \cup {id}
  /\ Save([id |-> id, status |-> "Unapproved", signature |-> NoSignature,
           blockhash |-> IF given THEN LatestBlockhash(network)
                                  ELSE NoBlockhash,
           expiry |-> 0, createdTime |-> Cardinality(used) + 1,
           confirmedTime |-> 0])
  /\ UNCHANGED <<env, network, keyringVars, timerVars, latest, blockhashRpc,
                 device, sendRpc, heightRpc, statusRpc, networkVars>>

QueueLength == Cardinality(IdsByStatus(Store, {"Unapproved"}))

\* The wrong way: a button that is never disabled.
PanelAlwaysOffers(id) == HasStatus(id, "Unapproved") /\ ~locked

\* The panel is the one of all coins: it disables its button once pressed, until
\* the length of the queue of unapproved transactions is another one.  The
\* handlers do not look at the status.
ComesBack(queue) == "ReApprove" \in env /\ queue # QueueLength

PanelOffersApproval(id) ==
  /\ HasStatus(id, "Unapproved")
  /\ ~locked
  /\ \A r \in blockhashRpc :
       r.purpose # "none" /\ r.meta.id = id => ComesBack(r.queue)
  /\ \A d \in device : d.id = id => ComesBack(d.queue)

\* The handler takes any status.  The panel lists unapproved transactions, those
\* whose approval waits for a blockhash or the device among them.
RejectTransaction(id) ==
  /\ "Reject" \in env /\ Found(id)
  /\ HasStatus(id, "Unapproved") \/ "LateReject" \in env
  /\ Save([Store[id] EXCEPT !.status = "Rejected"])
  /\ UNCHANGED <<env, network, used, keyringVars, timerVars, latest,
                 blockhashRpc, device, sendRpc, heightRpc, statusRpc,
                 networkVars>>

\* A locked keyring gives no signature, and what is sent without one is
\* refused.
SendSolanaTransaction(id, message, isSigned) ==
  sendRpc' = sendRpc \cup
    {[id |-> id, net |-> network, message |-> message,
      state |-> IF isSigned THEN "sent" ELSE "refused"]}

Message(id, blockhash) == [what |-> id, blockhash |-> blockhash]

\* OnGetLatestBlockhash on success: the copy of the record is written back.
SignAndSend(meta, blockhash, expiry) ==
  /\ Save([meta EXCEPT !.status = "Approved", !.blockhash = blockhash,
                       !.expiry = expiry])
  /\ SendSolanaTransaction(meta.id, Message(meta.id, blockhash), ~locked)

\* OnGetLatestBlockhashHardware on success: the status of the copy stays.
MessageToSign(meta, queue, blockhash, expiry) ==
  /\ Save([meta EXCEPT !.blockhash = blockhash, !.expiry = expiry])
  /\ device' = device \cup
       {[id |-> meta.id, message |-> Message(meta.id, blockhash),
         queue |-> queue]}

Uses(purpose, meta, queue, blockhash, expiry) ==
  \/ /\ purpose = "sign"
     /\ SignAndSend(meta, blockhash, expiry)
     /\ UNCHANGED device
  \/ /\ purpose = "device"
     /\ MessageToSign(meta, queue, blockhash, expiry)
     /\ UNCHANGED sendRpc
  \/ purpose = "none" /\ UNCHANGED <<txs, device, sendRpc>>

\* ApproveTransaction and GetTransactionMessageToSign: a record that has a
\* blockhash keeps it, and the last valid height is then not known.
WithBlockhash(id, purpose) ==
  \/ /\ Store[id].blockhash # NoBlockhash
     /\ Uses(purpose, Store[id], QueueLength, Store[id].blockhash, 0)
     /\ UNCHANGED blockhashRpc
  \/ /\ Store[id].blockhash = NoBlockhash /\ Cached
     /\ Uses(purpose, Store[id], QueueLength, latest, LastValid(latest))
     /\ UNCHANGED blockhashRpc
  \/ /\ Store[id].blockhash = NoBlockhash /\ ~Cached
     /\ blockhashRpc' = blockhashRpc \cup
          {[purpose |-> purpose, meta |-> Store[id], net |-> network,
            queue |-> QueueLength]}
     /\ UNCHANGED <<txs, device, sendRpc>>

ApproveTransaction(id) ==
  /\ PanelOffersApproval(id)
  /\ WithBlockhash(id, "sign")
  /\ UNCHANGED <<env, network, used, keyringVars, timerVars, latest, heightRpc,
                 statusRpc, networkVars>>

GetTransactionMessageToSign(id) ==
  /\ "Hardware" \in env
  /\ PanelOffersApproval(id)
  /\ WithBlockhash(id, "device")
  /\ UNCHANGED <<env, network, used, keyringVars, timerVars, latest, heightRpc,
                 statusRpc, networkVars>>

\* The user declines on the device, or it is unplugged.
DeviceDeclines(d) ==
  /\ device' = device \ {d}
  /\ UNCHANGED <<env, prefsVars, keyringVars, timerVars, latest, blockhashRpc,
                 sendRpc, heightRpc, statusRpc, networkVars>>

\* The signature goes with the message the record has now.
ProcessSolanaHardwareSignature(d) ==
  /\ device' = device \ {d}
  /\ IF Found(d.id)
     THEN /\ Save([Store[d.id] EXCEPT !.status = "Approved"])
          /\ SendSolanaTransaction(d.id, d.message,
                                   d.message.blockhash = Store[d.id].blockhash)
     ELSE UNCHANGED <<txs, sendRpc>>
  /\ UNCHANGED <<env, network, used, keyringVars, timerVars, latest,
                 blockhashRpc, heightRpc, statusRpc, networkVars>>

\* The wrong way: without the hash that is asked for later.
SubmittedWithoutHash(meta, message) == [meta EXCEPT !.status = "Submitted"]

Submitted(meta, message) ==
  [meta EXCEPT !.status = "Submitted", !.signature = message]

\* The record is looked up again, in the network selected now.
OnSendSolanaTransaction(r) ==
  /\ r.state # "sent"
  /\ sendRpc' = sendRpc \ {r}
  /\ \/ ~Found(r.id) /\ UNCHANGED <<txs, heightRpc>>
     \/ /\ Found(r.id) /\ r.state = "accepted"
        /\ Save(Submitted(Store[r.id], r.message))
        /\ UpdatePendingTransactions
     \/ /\ Found(r.id)
        /\ r.state = "refused" \/ "RpcError" \in env
        /\ Save([Store[r.id] EXCEPT !.status = "Error"])
        /\ UNCHANGED heightRpc
  /\ UNCHANGED <<env, network, used, keyringVars, timerVars, latest,
                 blockhashRpc, device, statusRpc, networkVars>>

-----------------------------------------------------------------------------
(* The block tracker.                                                      *)

\* The timer, which takes no cached value.
PollLatestBlockhash ==
  /\ running
  /\ blockhashRpc' = blockhashRpc \cup
       {[purpose |-> "none", meta |-> NoTx, net |-> network, queue |-> 0]}
  /\ UNCHANGED <<env, prefsVars, keyringVars, timerVars, latest, device,
                 sendRpc, heightRpc, statusRpc, networkVars>>

\* The panel shows the fee of a record before it is approved.
GetEstimatedTxFee(id) ==
  /\ HasStatus(id, "Unapproved") /\ ~Cached
  /\ blockhashRpc' = blockhashRpc \cup
       {[purpose |-> "none", meta |-> NoTx, net |-> network, queue |-> 0]}
  /\ UNCHANGED <<env, prefsVars, keyringVars, timerVars, latest, device,
                 sendRpc, heightRpc, statusRpc, networkVars>>

\* SolanaBlockTracker::OnGetLatestBlockhash: the callback runs first; a value
\* not seen before is kept, and the manager updates what is pending.
OnGetLatestBlockhash(r) ==
  /\ blockhashRpc' = blockhashRpc \ {r}
  /\ LET answer == LatestBlockhash(r.net)
     IN  /\ Uses(r.purpose, r.meta, r.queue, answer, LastValid(answer))
         /\ latest' = answer
         /\ IF answer = latest
            THEN UNCHANGED heightRpc
            ELSE UpdatePendingTransactions
  /\ UNCHANGED <<env, network, used, keyringVars, timerVars, statusRpc,
                 networkVars>>

\* Nothing is written: the record is still unapproved.
GetLatestBlockhashFails(r) ==
  /\ "RpcError" \in env
  /\ blockhashRpc' = blockhashRpc \ {r}
  /\ UNCHANGED <<env, prefsVars, keyringVars, timerVars, latest, device,
                 sendRpc, heightRpc, statusRpc, networkVars>>

-----------------------------------------------------------------------------
(* What becomes of sent transactions.                                      *)

Outcomes == {"unknown", "processed", "finalized", "err"}
Outcome(net, m) ==
  CASE m \in failed[net]    -> "err"
    [] m \in finalized[net] \ failed[net] -> "finalized"
    [] m \in executed[net] \ (failed[net] \cup finalized[net]) -> "processed"
    [] OTHER                -> "unknown"

\* The statuses of the records submitted now are asked for, and the height is
\* kept for the answer.  Nothing follows from an empty answer.
OnGetBlockHeight(net) ==
  /\ net \in heightRpc
  /\ Cardinality(statusRpc) < MaxStatusRpc
  /\ heightRpc' = heightRpc \ {net}
  /\ LET pending == IdsByStatus(Store, {"Submitted"})
     IN  /\ statusRpc' = IF pending = {} THEN statusRpc ELSE statusRpc \cup
              {[height |-> height[net], net |-> network,
                since |-> [id \in pending |->
                             Outcome(network, Store[id].signature)],
                signatures |-> [id \in pending |-> Store[id].signature]]}
         /\ knownNoPending' = (pending = {})
         /\ running' = CheckIfBlockTrackerShouldRun(locked, running,
                                                    pending = {})
  /\ UNCHANGED <<env, prefsVars, keyringVars, latest, blockhashRpc, device,
                 sendRpc, networkVars>>

GetBlockHeightFails(net) ==
  /\ "HeightError" \in env
  /\ net \in heightRpc
  /\ heightRpc' = heightRpc \ {net}
  /\ UNCHANGED <<env, prefsVars, keyringVars, timerVars, latest, blockhashRpc,
                 device, sendRpc, statusRpc, networkVars>>

\* The wrong ways: dropping at the last valid height; taking any status for
\* the final one; a status that is not final yet makes a record pending.
DropsAtLastValid(meta, outcome, asOf, now) ==
  IF outcome = "unknown" /\ meta.expiry # 0 /\ meta.expiry <= asOf
  THEN [meta EXCEPT !.status = "Dropped"]
  ELSE meta
ConfirmsProcessed(meta, outcome, asOf, now) ==
  IF outcome \in {"processed", "finalized"}
  THEN [meta EXCEPT !.status = "Confirmed", !.confirmedTime = now]
  ELSE meta
ProcessedIsPending(meta, outcome, asOf, now) ==
  CASE outcome = "processed" -> [meta EXCEPT !.status = "Submitted"]
    [] outcome = "finalized" ->
         [meta EXCEPT !.status = "Confirmed", !.confirmedTime = now]
    [] OTHER -> meta

\* What the status of its signature makes of a record, whatever its own.
Settled(meta, outcome, asOf, now) ==
  CASE outcome = "unknown" /\ meta.expiry # 0 /\ meta.expiry < asOf ->
         [meta EXCEPT !.status = "Dropped"]
    [] outcome = "err"       -> [meta EXCEPT !.status = "Error"]
    [] outcome = "finalized" ->
         [meta EXCEPT !.status = "Confirmed", !.confirmedTime = now]
    [] OTHER                 -> meta

\* The answer was given at any time since the question.
MayAnswer(since, now) ==
  {since, now} \cup
  IF since = "unknown" /\ now \in {"finalized", "err"} THEN {"processed"}
                                                       ELSE {}

\* The records are looked up in the network selected now.
OnGetSignatureStatuses(r) ==
  /\ statusRpc' = statusRpc \ {r}
  /\ \E answer \in [DOMAIN r.signatures -> Outcomes] :
       /\ \A id \in DOMAIN answer :
            answer[id] \in MayAnswer(r.since[id],
                                     Outcome(r.net, r.signatures[id]))
       /\ txs' = [txs EXCEPT ![network] =
                    [id \in TxIds |->
                       IF id \in DOMAIN answer /\ Found(id)
                       THEN Settled(Store[id], answer[id], r.height,
                                    height[network])
                       ELSE Store[id]]]
  /\ UNCHANGED <<env, network, used, keyringVars, timerVars, latest,
                 blockhashRpc, device, sendRpc, heightRpc, networkVars>>

GetSignatureStatusesFails(r) ==
  /\ "RpcError" \in env
  /\ statusRpc' = statusRpc \ {r}
  /\ UNCHANGED <<env, prefsVars, keyringVars, timerVars, latest, blockhashRpc,
                 device, sendRpc, heightRpc, networkVars>>

-----------------------------------------------------------------------------
(* The keyring, the selected network and the browser.                      *)

Lock ==
  /\ "Lock" \in env
  /\ ~locked /\ Len(notices) < MaxNotices
  /\ locked' = TRUE
  /\ notices' = Append(notices, "Locked")
  /\ UNCHANGED <<env, prefsVars, timerVars, latest, blockhashRpc, device,
                 sendRpc, heightRpc, statusRpc, networkVars>>

Unlock(notice) ==
  /\ notice = "KeyringCreated" => "Reset" \in env
  /\ locked /\ Len(notices) < MaxNotices
  /\ locked' = FALSE
  /\ notices' = Append(notices, notice)
  /\ UNCHANGED <<env, prefsVars, timerVars, latest, blockhashRpc, device,
                 sendRpc, heightRpc, statusRpc, networkVars>>

OnKeyringNotice ==
  /\ notices # <<>>
  /\ notices' = Tail(notices)
  /\ running' = IF ChecksTracker(Head(notices))
                THEN CheckIfBlockTrackerShouldRun(locked, running,
                                                  knownNoPending)
                ELSE running
  /\ IF UpdatesPending(Head(notices))
     THEN UpdatePendingTransactions
     ELSE UNCHANGED heightRpc
  /\ UNCHANGED <<env, prefsVars, locked, knownNoPending, latest, blockhashRpc,
                 device, sendRpc, statusRpc, networkVars>>

SetNetwork(net) ==
  /\ "SwitchNetwork" \in env
  /\ blockhashRpc \cup heightRpc \cup statusRpc \cup sendRpc \cup device # {}
       => "SwitchMeanwhile" \in env
  /\ net # network
  /\ network' = net
  /\ UNCHANGED <<env, txs, used, keyringVars, timerVars, latest, blockhashRpc,
                 device, sendRpc, heightRpc, statusRpc, networkVars>>

\* BraveWalletService::Reset.  Callbacks of requests under way stay bound.
Reset ==
  /\ "Reset" \in env
  /\ Len(notices) < MaxNotices
  /\ txs' = [n \in Networks |-> EmptyStore]
  /\ running' = FALSE /\ knownNoPending' = FALSE
  /\ network' = DefaultNetwork
  /\ locked' = TRUE
  /\ notices' = Append(notices, "KeyringReset")
  /\ UNCHANGED <<env, used, latest, blockhashRpc, device, sendRpc, heightRpc,
                 statusRpc, networkVars>>

Restart ==
  /\ "Restart" \in env
  /\ locked' = TRUE /\ notices' = <<>>
  /\ running' = FALSE /\ knownNoPending' = FALSE /\ latest' = NoBlockhash
  /\ blockhashRpc' = {} /\ device' = {} /\ sendRpc' = {}
  /\ heightRpc' = {} /\ statusRpc' = {}
  /\ UNCHANGED <<env, prefsVars, networkVars>>

-----------------------------------------------------------------------------
(* The networks (external).                                                *)

CanExecute(net, m) ==
  /\ m.blockhash.net = net
  /\ height[net] <= LastValid(m.blockhash)
  /\ m \notin executed[net]

NodeAccepts(r) ==
  /\ r.state = "sent"
  /\ CanExecute(r.net, r.message) \/ "NoPreflight" \in env
  /\ sendRpc' = (sendRpc \ {r}) \cup {[r EXCEPT !.state = "accepted"]}
  /\ pool' = [pool EXCEPT ![r.net] = @ \cup {r.message}]
  /\ UNCHANGED <<env, prefsVars, keyringVars, timerVars, latest, blockhashRpc,
                 device, heightRpc, statusRpc, height, executed, failed,
                 finalized>>

NodeRefuses(r) ==
  /\ r.state = "sent"
  /\ ~CanExecute(r.net, r.message) \/ "RpcError" \in env
  /\ sendRpc' = (sendRpc \ {r}) \cup {[r EXCEPT !.state = "refused"]}
  /\ UNCHANGED <<env, prefsVars, keyringVars, timerVars, latest, blockhashRpc,
                 device, heightRpc, statusRpc, networkVars>>

Execute(net, m, fails) ==
  /\ fails => "Fail" \in env
  /\ m \in pool[net] /\ CanExecute(net, m)
  /\ executed' = [executed EXCEPT ![net] = @ \cup {m}]
  /\ failed' = IF fails THEN [failed EXCEPT ![net] = @ \cup {m}] ELSE failed
  /\ UNCHANGED <<env, prefsVars, keyringVars, timerVars, latest, blockhashRpc,
                 device, sendRpc, heightRpc, statusRpc, height, pool,
                 finalized>>

Finalize(net, m) ==
  /\ m \in executed[net] \ finalized[net]
  /\ finalized' = [finalized EXCEPT ![net] = @ \cup {m}]
  /\ UNCHANGED <<env, prefsVars, keyringVars, timerVars, latest, blockhashRpc,
                 device, sendRpc, heightRpc, statusRpc, height, pool, executed,
                 failed>>

\* The height of a network matters once it is selected.
NextBlock(net) ==
  /\ net # DefaultNetwork => "SwitchNetwork" \in env
  /\ height[net] < MaxHeight
  /\ height' = [height EXCEPT ![net] = @ + 1]
  /\ UNCHANGED <<env, prefsVars, keyringVars, timerVars, latest, blockhashRpc,
                 device, sendRpc, heightRpc, statusRpc, pool, executed, failed,
                 finalized>>

Next ==
  \/ \E id \in TxIds, given \in BOOLEAN : AddUnapprovedTransaction(id, given)
  \/ \E id \in TxIds : \/ RejectTransaction(id)
                       \/ ApproveTransaction(id)
                       \/ GetTransactionMessageToSign(id)
                       \/ GetEstimatedTxFee(id)
  \/ \E d \in device : \/ DeviceDeclines(d)
                       \/ ProcessSolanaHardwareSignature(d)
  \/ \E r \in sendRpc : \/ NodeAccepts(r)
                        \/ NodeRefuses(r)
                        \/ OnSendSolanaTransaction(r)
  \/ PollLatestBlockhash
  \/ \E r \in blockhashRpc : \/ OnGetLatestBlockhash(r)
                             \/ GetLatestBlockhashFails(r)
  \/ \E net \in Networks : \/ OnGetBlockHeight(net)
                           \/ GetBlockHeightFails(net)
  \/ \E r \in statusRpc : \/ OnGetSignatureStatuses(r)
                          \/ GetSignatureStatusesFails(r)
  \/ Lock
  \/ \E notice \in {"Unlocked", "KeyringCreated"} : Unlock(notice)
  \/ OnKeyringNotice
  \/ \E net \in Networks : SetNetwork(net)
  \/ Reset
  \/ Restart
  \/ \E net \in Networks :
       \/ NextBlock(net)
       \/ \E m \in pool[net] : \/ \E fails \in BOOLEAN : Execute(net, m, fails)
                               \/ Finalize(net, m)

Spec == Init /\ [][Next]_vars
=============================================================================
