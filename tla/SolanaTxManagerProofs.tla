----------------------- MODULE SolanaTxManagerProofs ------------------------
(***************************************************************************)
(* TypeOK, DroppedNeverExecutes, ConfirmedIsFinal, PaidAtMostOnce,         *)
(* SettledStaysSettled and TrackerRuns hold for every value of the         *)
(* constants, provided that the network is not switched while requests are *)
(* under way and no transaction is approved again during its approval.     *)
(* They are proved from one inductive invariant, IInv, whose main part     *)
(* says of each transaction id what stage it is in; TrackerRuns needs a    *)
(* second one on top of it, PollInv.                                       *)
(***************************************************************************)
EXTENDS SolanaTxManagerProperties, TxStateManagerProofs

\* The surroundings in which an answer is about the network selected when it
\* comes: nobody switches while requests are under way, and a reset, which
\* selects the default network, has no other network to leave.  And the panel's
\* button does not come back during an approval.
PlainUse ==
  \A e \in Surroundings :
    /\ "ReApprove" \notin e
    /\ "SwitchNetwork" \in e => e \cap {"SwitchMeanwhile", "Reset"} = {}

\* What there is of one transaction: rows, requests and messages in pools.
Row(net, id)  == txs[net][id]
Stored(net, id) == Row(net, id) # NoTx
Requested(id) == {b \in blockhashRpc : b.purpose # "none" /\ b.meta.id = id}
Held(id)      == {d \in device : d.id = id}
Sent(id)      == {s \in sendRpc : s.id = id}
Queried(id)   == {r \in statusRpc : id \in DOMAIN r.signatures}
Traces(id)    == {m \in Messages : m.what = id
                                   /\ \E net \in Networks : m \in pool[net]}

Idle(id)  == Requested(id) = {} /\ Held(id) = {} /\ Sent(id) = {}
             /\ Queried(id) = {}
Clean(id) == Sent(id) = {} /\ Queried(id) = {} /\ Traces(id) = {}

\* A row agrees with the message it was sent as and with what has become of it.
RowOK(net, id) ==
  LET row == Row(net, id)
      m   == row.signature
  IN  /\ row.id = id
      /\ row.expiry # 0 => /\ row.blockhash # NoBlockhash
                           /\ row.expiry = LastValid(row.blockhash)
      /\ row.status \in {"Unapproved", "Approved"} => m = NoSignature
      /\ row.status = "Submitted" => m # NoSignature
      /\ m # NoSignature => m.what = id /\ m.blockhash = row.blockhash
      /\ row.status = "Dropped" =>
           m # NoSignature /\ m \notin executed[net] /\ ~CanExecute(net, m)
      /\ row.status = "Confirmed" => m \in finalized[net] \ failed[net]
      /\ row.status = "Error" /\ m # NoSignature => m \in failed[net]

RowsOK(id) == \A net \in Networks : Stored(net, id) => RowOK(net, id)

\* It is stored under one network at most, the selected one while anything is
\* under way.
OneHome(id) ==
  \A net \in Networks : Stored(net, id) =>
    /\ \A other \in Networks : Stored(other, id) => other = net
    /\ ~Idle(id) => net = network

\* It is in one of these statuses and has not been sent.
Unsent(id, statuses) ==
  \A net \in Networks : Stored(net, id) =>
    Row(net, id).status \in statuses /\ Row(net, id).signature = NoSignature

\* One stage after the other: it is unapproved, it is approved once, by the
\* wallet or on the device, it is sent once, and then its status is asked for.
\* It may be rejected at any of them.
OneStage(id) ==
  /\ \A b1, b2 \in Requested(id) : b1 = b2
  /\ \A d1, d2 \in Held(id) : d1 = d2
  /\ \A s1, s2 \in Sent(id) : s1 = s2
  /\ Requested(id) # {} => Held(id) = {}
  /\ Requested(id) # {} \/ Held(id) # {} =>
       Clean(id) /\ Unsent(id, {"Unapproved", "Rejected"})
  /\ \A net \in Networks :
       Stored(net, id) /\ Row(net, id).status = "Unapproved" => Clean(id)
  /\ Sent(id) # {} => Queried(id) = {} /\ Unsent(id, {"Approved", "Rejected"})

\* The copies bound to requests, the messages on devices and on their way.
CopiesOK(id) ==
  /\ \A b \in Requested(id) :
       b.meta.status = "Unapproved" /\ b.meta.signature = NoSignature
  /\ \A d \in Held(id) : d.message.what = id
  /\ \A s \in Sent(id) :
       /\ s.net = network /\ s.message.what = id
       /\ s.state # "refused" =>
            /\ \A m \in Traces(id) : m = s.message
            /\ Stored(network, id) =>
                 Row(network, id).blockhash = s.message.blockhash

\* What a status request knows of a message stays true until it is answered.
Foretold(r, id) ==
  LET m       == r.signatures[id]
      outcome == r.since[id]
  IN  /\ outcome = "err"       => m \in failed[network]
      /\ outcome = "finalized" => m \in finalized[network] \ failed[network]
      /\ outcome = "processed" => m \in executed[network]
      /\ /\ outcome = "unknown" /\ m.blockhash.net = network
         /\ LastValid(m.blockhash) < r.height
         => m \notin executed[network]

QueriesOK(id) ==
  \A r \in Queried(id) :
    /\ r.net = network /\ r.height <= height[network]
    /\ Stored(network, id) => Row(network, id).signature = r.signatures[id]
    /\ Foretold(r, id)

OneMessage(id) == \A m1, m2 \in Traces(id) : m1 = m2

Unused(id) ==
  /\ Idle(id) /\ Traces(id) = {}
  /\ \A net \in Networks : ~Stored(net, id)

IdOK(id) ==
  /\ RowsOK(id) /\ OneHome(id) /\ OneStage(id) /\ CopiesOK(id)
  /\ QueriesOK(id) /\ OneMessage(id)
  /\ id \notin used => Unused(id)

\* A network executes what its nodes have accepted, while it is valid there.
ChainsOK ==
  \A net \in Networks :
    /\ executed[net] \subseteq pool[net]
    /\ finalized[net] \subseteq executed[net]
    /\ failed[net] \subseteq executed[net]
    /\ \A m \in executed[net] : m.blockhash.net = net

AtHome ==
  /\ heightRpc \subseteq {network}
  /\ "SwitchNetwork" \notin env => network = DefaultNetwork

\* The inductive invariant.
IInv ==
  /\ TypeOK /\ ChainsOK /\ AtHome
  /\ \A id \in TxIds : IdOK(id)

-----------------------------------------------------------------------------
(* What a step may do to one transaction, and what most steps do to all.   *)

SettledStatuses == {"Confirmed", "Dropped", "Error"}

\* The step leaves a settled row of the transaction as it is, takes it away or
\* rejects it.
KeptSettled(id) ==
  \A net \in Networks :
    /\ Stored(net, id) /\ Row(net, id).status \in SettledStatuses
    /\ Row(net, id)' # NoTx
    => \/ Row(net, id)'.status = Row(net, id).status
       \/ "LateReject" \in env /\ Row(net, id)'.status = "Rejected"

IdStep(id) == IdOK(id)' /\ KeptSettled(id)

\* Nothing is added for the transaction, and no row of it changes.
Quiet(id) ==
  /\ Requested(id)' \subseteq Requested(id)
  /\ Held(id)' \subseteq Held(id)
  /\ Sent(id)' \subseteq Sent(id)
  /\ Queried(id)' \subseteq Queried(id)
  /\ \A net \in Networks : Row(net, id)' = Row(net, id) \/ Row(net, id)' = NoTx
  /\ id \in used => id \in used'

\* The network stays selected, or there is nothing to answer.
Steady(id) == network' = network \/ Idle(id)

Chains == <<height, pool, executed, failed, finalized>>

LEMMA QuietStep ==
  ASSUME IInv, NEW id \in TxIds, Quiet(id), Steady(id), UNCHANGED Chains
  PROVE  IdStep(id)
<1> IdOK(id)
  BY DEF IInv
<1>1. UNCHANGED <<height, pool, executed, failed, finalized>>
  BY DEF Chains
<1>2. \A net \in Networks : \/ Row(net, id)' = Row(net, id)
                            \/ ~Stored(net, id)'
  BY DEF Quiet, Stored
<1>3. Traces(id)' = Traces(id)
  BY <1>1 DEF Traces
<1>4. /\ Requested(id)' \subseteq Requested(id)
      /\ Held(id)' \subseteq Held(id)
      /\ Sent(id)' \subseteq Sent(id)
      /\ Queried(id)' \subseteq Queried(id)
      /\ id \notin used' => id \notin used
  BY DEF Quiet
<1>5. Idle(id) => Idle(id)'
  BY <1>4 DEF Idle
<1>6. Clean(id) => Clean(id)'
  BY <1>3, <1>4 DEF Clean
<1>7. network' = network \/ Idle(id)'
  BY <1>5 DEF Steady
<1>8. RowsOK(id)'
  <2> SUFFICES ASSUME NEW net \in Networks, Stored(net, id)'
               PROVE  RowOK(net, id)'
    BY DEF RowsOK
  <2>1. Row(net, id)' = Row(net, id) /\ Stored(net, id)
    BY <1>2 DEF Stored
  <2>2. RowOK(net, id)
    BY <2>1 DEF IdOK, RowsOK
  <2> QED BY <2>1, <2>2, <1>1 DEF RowOK, CanExecute
<1>9. OneHome(id)'
  <2> SUFFICES ASSUME NEW net \in Networks, Stored(net, id)'
               PROVE  /\ \A other \in Networks :
                           Stored(other, id)' => other = net
                      /\ ~Idle(id)' => net = network'
    BY DEF OneHome
  <2>1. \A n \in Networks : Stored(n, id)' => Stored(n, id)
    BY <1>2 DEF Stored
  <2> QED BY <2>1, <1>5, <1>7 DEF IdOK, OneHome
<1>10. OneStage(id)'
  <2>1. \A net \in Networks :
          Stored(net, id)' => /\ Stored(net, id)
                              /\ Row(net, id)' = Row(net, id)
    BY <1>2 DEF Stored
  <2>2. OneStage(id)
    BY DEF IdOK
  <2>3. /\ \A b1, b2 \in Requested(id)' : b1 = b2
        /\ \A d1, d2 \in Held(id)' : d1 = d2
        /\ \A s1, s2 \in Sent(id)' : s1 = s2
        /\ Requested(id)' # {} => Held(id)' = {}
    BY <2>2, <1>4 DEF OneStage
  <2>4. Requested(id)' # {} \/ Held(id)' # {} =>
          Clean(id)' /\ Unsent(id, {"Unapproved", "Rejected"})'
    BY <2>1, <2>2, <1>4, <1>6 DEF OneStage, Unsent
  <2>5. \A net \in Networks :
          Stored(net, id)' /\ Row(net, id)'.status = "Unapproved" => Clean(id)'
    BY <2>1, <2>2, <1>6 DEF OneStage
  <2>6. Sent(id)' # {} =>
          Queried(id)' = {} /\ Unsent(id, {"Approved", "Rejected"})'
    BY <2>1, <2>2, <1>4 DEF OneStage, Unsent
  <2> QED BY <2>3, <2>4, <2>5, <2>6 DEF OneStage
<1>11. CopiesOK(id)'
  <2>1. CopiesOK(id) /\ network \in Networks
    BY <1>7 DEF IdOK, IInv, TypeOK
  <2>2. CASE Idle(id)'
    BY <2>2 DEF CopiesOK, Idle
  <2>3. CASE network' = network
    <3>1. Stored(network, id)' => Stored(network, id)
                                  /\ Row(network, id)' = Row(network, id)
      BY <1>2, <2>3 DEF Stored, IInv, TypeOK
    <3> QED BY <3>1, <2>3, <1>3, <1>4 DEF CopiesOK, IdOK
  <2> QED BY <2>2, <2>3, <1>7
<1>12. QueriesOK(id)'
  <2>1. CASE Idle(id)'
    BY <2>1 DEF QueriesOK, Idle
  <2>2. CASE network' = network
    <3>1. Stored(network, id)' => Stored(network, id)
                                  /\ Row(network, id)' = Row(network, id)
      BY <1>2, <2>2 DEF Stored, IInv, TypeOK
    <3> QED BY <3>1, <2>2, <1>1, <1>4 DEF QueriesOK, IdOK, Foretold
  <2> QED BY <2>1, <2>2, <1>7
<1>13. OneMessage(id)' /\ (id \notin used' => Unused(id)')
  BY <1>2, <1>3, <1>4, <1>5 DEF IdOK, OneMessage, Unused, Stored
<1>14. KeptSettled(id)
  BY <1>2 DEF KeptSettled, Stored
<1> QED BY <1>8, <1>9, <1>10, <1>11, <1>12, <1>13, <1>14 DEF IdStep, IdOK

-----------------------------------------------------------------------------
(* Types, and what saving a record does to the store.                      *)

LEMMA RowType ==
  ASSUME TypeOK, NEW net \in Networks, NEW id \in TxIds
  PROVE  /\ Row(net, id) \in Metas \cup {NoTx}
         /\ Stored(net, id) => Row(net, id) \in Metas
BY DEF TypeOK, Row, Stored

LEMMA SaveEffect ==
  ASSUME TypeOK, NEW meta \in Metas, Save(meta)
  PROVE  /\ txs' \in [Networks -> [TxIds -> Metas \cup {NoTx}]]
         /\ \A net \in Networks : \A id \in TxIds :
              Row(net, id)' \in
                {NoTx, IF net = network /\ id = meta.id THEN meta
                                                        ELSE Row(net, id)}
<1> DEFINE after == AddOrUpdateTx(txs[network], meta)
<1>1. /\ network \in Networks
      /\ txs \in [Networks -> [TxIds -> Metas \cup {NoTx}]]
      /\ meta.id \in TxIds
  BY DEF TypeOK, Metas
<1>2. /\ after \in [TxIds -> Metas \cup {NoTx}]
      /\ \A id \in TxIds :
           after[id] \in {NoTx, IF id = meta.id THEN meta ELSE txs[network][id]}
  BY <1>1, AddOrUpdateEffect
<1>3. txs' = [txs EXCEPT ![network] = after]
  BY DEF Save, Store
<1> HIDE DEF after
<1> QED BY <1>1, <1>2, <1>3 DEF Row

-----------------------------------------------------------------------------
(* How a step of the whole is put together.                                *)

StepOK == IInv' /\ \A id \in TxIds : KeptSettled(id)

LEMMA Together ==
  ASSUME IInv, TypeOK', UNCHANGED <<env, network>>, UNCHANGED Chains,
         heightRpc' \subseteq heightRpc \cup {network},
         \A id \in TxIds : IdStep(id)
  PROVE  StepOK
<1>1. UNCHANGED <<height, pool, executed, failed, finalized>>
  BY DEF Chains
<1>2. ChainsOK'
  BY <1>1 DEF IInv, ChainsOK
<1>3. AtHome'
  BY DEF IInv, AtHome
<1> QED BY <1>2, <1>3 DEF StepOK, IInv, IdStep

\* A step that starts nothing new for any transaction.
LEMMA QuietTogether ==
  ASSUME IInv, TypeOK', UNCHANGED <<env, network>>, UNCHANGED Chains,
         heightRpc' \subseteq heightRpc \cup {network},
         used' = used, \A id \in TxIds : Quiet(id)
  PROVE  StepOK
<1>1. \A id \in TxIds : IdStep(id)
  BY QuietStep DEF Steady
<1> QED BY <1>1, Together

\* The transaction has a new row, or a new stage, on the selected network.
LEMMA NewStage ==
  ASSUME IInv, NEW id \in TxIds, network' = network, UNCHANGED Chains,
         id \in used',
         \A net \in Networks : Stored(net, id) => net = network,
         Stored(network, id) =>
           Row(network, id).status \notin SettledStatuses,
         \A net \in Networks \ {network} :
           Row(net, id)' \in {NoTx, Row(net, id)},
         Stored(network, id)' => RowOK(network, id)',
         OneStage(id)', CopiesOK(id)', QueriesOK(id)'
  PROVE  IdStep(id)
<1>1. \A net \in Networks : Stored(net, id)' => net = network
  BY DEF Stored
<1>2. RowsOK(id)'
  BY <1>1 DEF RowsOK
<1>3. OneHome(id)'
  BY <1>1 DEF OneHome
<1>4. Traces(id)' = Traces(id)
  BY DEF Traces, Chains
<1>5. OneMessage(id)'
  BY <1>4 DEF OneMessage, IInv, IdOK
<1>6. KeptSettled(id)
  BY DEF KeptSettled
<1> QED BY <1>2, <1>3, <1>5, <1>6 DEF IdStep, IdOK

-----------------------------------------------------------------------------
(* Steps that start nothing new.                                           *)

LEMMA AllQuiet ==
  ASSUME TypeOK, UNCHANGED <<used, txs>>,
         {b \in blockhashRpc' : b.purpose # "none"} \subseteq blockhashRpc,
         device' \subseteq device, sendRpc' \subseteq sendRpc,
         statusRpc' \subseteq statusRpc
  PROVE  \A id \in TxIds : Quiet(id)
BY DEF Quiet, Requested, Held, Sent, Queried, Row

LEMMA AskStep ==
  ASSUME IInv, PollLatestBlockhash \/ \E id \in TxIds : GetEstimatedTxFee(id)
  PROVE  StepOK
<1>1. blockhashRpc' = blockhashRpc \cup
        {[purpose |-> "none", meta |-> NoTx, net |-> network, queue |-> 0]}
  BY DEF PollLatestBlockhash, GetEstimatedTxFee
<1>2. UNCHANGED <<env, network, txs, used, locked, notices, running,
                  knownNoPending, latest, device, sendRpc, heightRpc,
                  statusRpc, height, pool, executed, failed, finalized>>
  BY DEF PollLatestBlockhash, GetEstimatedTxFee, prefsVars, keyringVars,
         timerVars, networkVars
<1>3. TypeOK'
  BY <1>1, <1>2 DEF IInv, TypeOK, BlockhashRequests
<1>4. \A id \in TxIds : Quiet(id)
  <2>1. {b \in blockhashRpc' : b.purpose # "none"} \subseteq blockhashRpc
    BY <1>1
  <2> QED BY <2>1, <1>2, AllQuiet DEF IInv
<1> QED BY <1>2, <1>3, <1>4, QuietTogether DEF Chains

LEMMA GiveUpStep ==
  ASSUME IInv,
         \/ \E d \in device : DeviceDeclines(d)
         \/ \E r \in blockhashRpc : GetLatestBlockhashFails(r)
         \/ \E net \in Networks : GetBlockHeightFails(net)
         \/ \E r \in statusRpc : GetSignatureStatusesFails(r)
  PROVE  StepOK
<1>1. /\ blockhashRpc' \subseteq blockhashRpc /\ device' \subseteq device
      /\ heightRpc' \subseteq heightRpc /\ statusRpc' \subseteq statusRpc
  BY DEF DeviceDeclines, GetLatestBlockhashFails, GetBlockHeightFails,
         GetSignatureStatusesFails
<1>2. UNCHANGED <<env, network, txs, used, locked, notices, running,
                  knownNoPending, latest, sendRpc, height, pool, executed,
                  failed, finalized>>
  BY DEF DeviceDeclines, GetLatestBlockhashFails, GetBlockHeightFails,
         GetSignatureStatusesFails, prefsVars, keyringVars, timerVars,
         networkVars
<1>3. TypeOK'
  BY <1>1, <1>2 DEF IInv, TypeOK, IsStatusRequest
<1>4. \A id \in TxIds : Quiet(id)
  BY <1>1, <1>2, AllQuiet DEF IInv
<1> QED BY <1>1, <1>2, <1>3, <1>4, QuietTogether DEF Chains

LEMMA KeyringStep ==
  ASSUME IInv,
         \/ Lock
         \/ \E notice \in {"Unlocked", "KeyringCreated"} : Unlock(notice)
         \/ OnKeyringNotice
  PROVE  StepOK
<1>1. UNCHANGED <<env, network, txs, used, knownNoPending, latest,
                  blockhashRpc, device, sendRpc, statusRpc, height, pool,
                  executed, failed, finalized>>
  BY DEF Lock, Unlock, OnKeyringNotice, prefsVars, keyringVars, timerVars,
         networkVars
<1>2. heightRpc' \subseteq heightRpc \cup {network}
  BY DEF Lock, Unlock, OnKeyringNotice, UpdatePendingTransactions
<1>3. locked' \in BOOLEAN /\ running' \in BOOLEAN
  BY DEF IInv, TypeOK, Lock, Unlock, OnKeyringNotice, timerVars,
         CheckIfBlockTrackerShouldRun
<1>4. notices' \in Seq(KeyringNotices)
  <2>1. notices \in Seq(KeyringNotices)
    BY DEF IInv, TypeOK
  <2>2. \/ notices' = Tail(notices) /\ notices # <<>>
        \/ \E n \in KeyringNotices : notices' = Append(notices, n)
    BY DEF Lock, Unlock, OnKeyringNotice, KeyringNotices
  <2> QED BY <2>1, <2>2
<1>5. TypeOK'
  BY <1>1, <1>2, <1>3, <1>4 DEF IInv, TypeOK, IsStatusRequest
<1>6. \A id \in TxIds : Quiet(id)
  BY <1>1, AllQuiet DEF IInv
<1> QED BY <1>1, <1>2, <1>5, <1>6, QuietTogether DEF Chains

LEMMA RestartStep ==
  ASSUME IInv, Restart
  PROVE  StepOK
<1>1. UNCHANGED <<env, network, txs, used, height, pool, executed, failed,
                  finalized>>
  BY DEF Restart, prefsVars, networkVars
<1>2. TypeOK'
  <2>1. notices' \in Seq(KeyringNotices)
    BY DEF Restart
  <2>2. /\ blockhashRpc' = {} /\ device' = {} /\ sendRpc' = {}
        /\ heightRpc' = {} /\ statusRpc' = {}
        /\ locked' \in BOOLEAN /\ running' \in BOOLEAN
        /\ knownNoPending' \in BOOLEAN /\ latest' = NoBlockhash
    BY DEF Restart
  <2> QED BY <1>1, <2>1, <2>2 DEF IInv, TypeOK
<1>3. \A id \in TxIds : Quiet(id)
  BY <1>1, AllQuiet DEF IInv, Restart
<1> QED BY <1>1, <1>2, <1>3, QuietTogether DEF Chains, Restart

LEMMA ResetStep ==
  ASSUME IInv, PlainUse, Reset
  PROVE  StepOK
<1>1. UNCHANGED <<env, used, latest, blockhashRpc, device, sendRpc, heightRpc,
                  statusRpc, height, pool, executed, failed, finalized>>
  BY DEF Reset, networkVars
<1>2. network' = network
  BY DEF Reset, PlainUse, IInv, AtHome, TypeOK
<1>3. TypeOK'
  <2>1. txs' \in [Networks -> [TxIds -> Metas \cup {NoTx}]]
    BY DEF Reset, EmptyStore
  <2>2. notices' \in Seq(KeyringNotices)
    BY DEF Reset, IInv, TypeOK, KeyringNotices
  <2> QED BY <1>1, <1>2, <2>1, <2>2 DEF IInv, TypeOK, IsStatusRequest, Reset
<1>4. \A id \in TxIds : Quiet(id)
  <2>1. \A net \in Networks, id \in TxIds : Row(net, id)' = NoTx
    BY DEF Reset, EmptyStore, Row
  <2> QED BY <1>1, <2>1 DEF Quiet, Requested, Held, Sent, Queried
<1> QED BY <1>1, <1>2, <1>3, <1>4, QuietTogether DEF Chains

LEMMA SetNetworkStep ==
  ASSUME IInv, PlainUse, NEW net \in Networks, SetNetwork(net)
  PROVE  StepOK
<1>1. UNCHANGED <<env, txs, used, locked, notices, running, knownNoPending,
                  latest, blockhashRpc, device, sendRpc, heightRpc, statusRpc,
                  height, pool, executed, failed, finalized>>
  BY DEF SetNetwork, keyringVars, timerVars, networkVars
<1>2. /\ blockhashRpc = {} /\ heightRpc = {} /\ statusRpc = {}
      /\ sendRpc = {} /\ device = {}
  BY DEF SetNetwork, PlainUse, IInv, TypeOK
<1>3. TypeOK'
  BY <1>1 DEF IInv, TypeOK, IsStatusRequest, SetNetwork
<1>4. \A id \in TxIds : IdStep(id)
  <2> SUFFICES ASSUME NEW id \in TxIds PROVE IdStep(id)
    OBVIOUS
  <2>1. Quiet(id)
    BY <1>1, AllQuiet DEF IInv
  <2>2. Idle(id)
    BY <1>2 DEF Idle, Requested, Held, Sent, Queried
  <2> QED BY <1>1, <2>1, <2>2, QuietStep DEF Steady, Chains
<1>5. ChainsOK'
  BY <1>1 DEF IInv, ChainsOK
<1>6. AtHome'
  BY <1>1, <1>2 DEF AtHome, SetNetwork
<1> QED BY <1>3, <1>4, <1>5, <1>6 DEF StepOK, IInv, IdStep

-----------------------------------------------------------------------------
(* Steps of the networks.                                                  *)

\* Heights and what is executed only grow; what is new could be executed.
Grows ==
  \A net \in Networks :
    /\ height'[net] \in Nat /\ height[net] <= height'[net]
    /\ executed[net] \subseteq executed'[net]
    /\ \A m \in executed'[net] \ executed[net] : CanExecute(net, m)
    /\ finalized[net] \subseteq finalized'[net]
    /\ failed[net] \subseteq failed'[net]
    /\ failed'[net] \cap executed[net] \subseteq failed[net]

LEMMA ExpiryType ==
  ASSUME NEW blockhash \in Blockhashes
  PROVE  LastValid(blockhash) \in Nat
BY BoundsAssumption DEF Blockhashes, LastValid

LEMMA NeverAgain ==
  ASSUME TypeOK, Grows, NEW net \in Networks, NEW m \in Messages,
         m \notin executed[net], ~CanExecute(net, m)
  PROVE  m \notin executed'[net] /\ ~CanExecute(net, m)'
<1>1. m \notin executed'[net]
  BY DEF Grows
<1>2. LastValid(m.blockhash) \in Nat
  BY ExpiryType DEF Messages
<1>3. /\ height[net] \in Nat /\ height'[net] \in Nat
      /\ height[net] <= height'[net]
  BY BoundsAssumption DEF TypeOK, Grows
<1>4. m.blockhash.net = net => ~(height[net] <= LastValid(m.blockhash))
  BY DEF CanExecute
<1>5. m.blockhash.net = net => ~(height'[net] <= LastValid(m.blockhash))
  BY <1>2, <1>3, <1>4
<1> QED BY <1>1, <1>5 DEF CanExecute, LastValid

LEMMA GrowsStep ==
  ASSUME IInv, Grows,
         UNCHANGED <<network, txs, used, blockhashRpc, device, sendRpc,
                     statusRpc, pool>>
  PROVE  \A id \in TxIds : IdStep(id)
<1> SUFFICES ASSUME NEW id \in TxIds PROVE IdStep(id)
  OBVIOUS
<1> TypeOK /\ ChainsOK /\ IdOK(id)
  BY DEF IInv
<1>1. /\ \A net \in Networks : Row(net, id)' = Row(net, id)
      /\ \A net \in Networks : Stored(net, id)' = Stored(net, id)
      /\ Requested(id)' = Requested(id) /\ Held(id)' = Held(id)
      /\ Sent(id)' = Sent(id) /\ Queried(id)' = Queried(id)
      /\ Traces(id)' = Traces(id)
  BY DEF Row, Stored, Requested, Held, Sent, Queried, Traces
<1>2. Idle(id)' = Idle(id) /\ Clean(id)' = Clean(id)
  BY <1>1 DEF Idle, Clean
<1>3. RowsOK(id)'
  <2> SUFFICES ASSUME NEW net \in Networks, Stored(net, id)'
               PROVE  RowOK(net, id)'
    BY DEF RowsOK
  <2>1. Stored(net, id) /\ RowOK(net, id)
    BY <1>1 DEF IdOK, RowsOK
  <2>2. PICK row \in Metas : row = Row(net, id)
    BY <2>1, RowType
  <2> DEFINE m == row.signature
  <2>3. m \in Messages \cup {NoSignature}
    BY DEF Metas
  <2>4. row.status = "Dropped" =>
          m # NoSignature /\ m \notin executed'[net] /\ ~CanExecute(net, m)'
    <3> SUFFICES ASSUME row.status = "Dropped"
                 PROVE  /\ m # NoSignature /\ m \notin executed'[net]
                        /\ ~CanExecute(net, m)'
      OBVIOUS
    <3>1. m # NoSignature /\ m \notin executed[net] /\ ~CanExecute(net, m)
      BY <2>1, <2>2 DEF RowOK
    <3> HIDE DEF m
    <3> QED BY <2>3, <3>1, NeverAgain
  <2>5. row.status = "Confirmed" => m \in finalized'[net] \ failed'[net]
    BY <2>1, <2>2 DEF RowOK, Grows, ChainsOK
  <2>6. row.status = "Error" /\ m # NoSignature => m \in failed'[net]
    BY <2>1, <2>2 DEF RowOK, Grows
  <2> QED BY <1>1, <2>1, <2>2, <2>4, <2>5, <2>6
          DEF RowOK, LastValid, CanExecute
<1>4. QueriesOK(id)'
  <2> SUFFICES ASSUME NEW r \in Queried(id)
               PROVE  /\ r.net = network /\ r.height <= height'[network]
                      /\ Stored(network, id) =>
                           Row(network, id).signature = r.signatures[id]
                      /\ Foretold(r, id)'
    BY <1>1 DEF QueriesOK, Row, Stored, TypeOK
  <2> DEFINE m == r.signatures[id]
  <2>1. /\ r.net = network /\ r.height <= height[network]
        /\ Stored(network, id) => Row(network, id).signature = m
        /\ Foretold(r, id)
    BY DEF IdOK, QueriesOK
  <2>2. /\ network \in Networks /\ height[network] \in Nat /\ r.height \in Nat
        /\ m \in Messages
    BY BoundsAssumption DEF TypeOK, Queried, IsStatusRequest
  <2>3. /\ height'[network] \in Nat /\ height[network] <= height'[network]
    BY <2>2 DEF Grows
  <2>4. r.height <= height'[network]
    BY <2>1, <2>2, <2>3
  <2>5. /\ r.since[id] = "unknown" /\ m.blockhash.net = network
        /\ LastValid(m.blockhash) < r.height
        => m \notin executed'[network]
    <3> SUFFICES ASSUME r.since[id] = "unknown", m.blockhash.net = network,
                        LastValid(m.blockhash) < r.height,
                        m \in executed'[network]
                 PROVE  FALSE
      OBVIOUS
    <3>1. m \notin executed[network]
      BY <2>1 DEF Foretold
    <3>2. height[network] <= LastValid(m.blockhash)
      BY <2>2, <3>1 DEF Grows, CanExecute
    <3>3. LastValid(m.blockhash) \in Nat
      BY <2>2, ExpiryType DEF Messages
    <3> QED BY <2>1, <2>2, <3>2, <3>3
  <2>6. Foretold(r, id)'
    <3>1. /\ r.since[id] = "err" => m \in failed'[network]
          /\ r.since[id] = "finalized" =>
               m \in finalized'[network] \ failed'[network]
          /\ r.since[id] = "processed" => m \in executed'[network]
      BY <2>1, <2>2 DEF Foretold, Grows, ChainsOK
    <3> QED BY <3>1, <2>5 DEF Foretold, LastValid
  <2> QED BY <2>1, <2>4, <2>6
<1>5. OneHome(id)' /\ OneStage(id)'
  <2>1. \A old : Unsent(id, old)' = Unsent(id, old)
    BY <1>1 DEF Unsent
  <2> QED BY <1>1, <1>2, <2>1 DEF IdOK, OneHome, OneStage
<1>6. CopiesOK(id)' /\ OneMessage(id)' /\ (id \notin used' => Unused(id)')
  BY <1>1, <1>2 DEF IdOK, CopiesOK, OneMessage, Unused, TypeOK
<1>7. KeptSettled(id)
  BY <1>1 DEF KeptSettled
<1> QED BY <1>3, <1>4, <1>5, <1>6, <1>7 DEF IdStep, IdOK

LEMMA NetworksStep ==
  ASSUME IInv, NEW net \in Networks,
         \/ NextBlock(net)
         \/ \E m \in pool[net] : \/ \E fails \in BOOLEAN : Execute(net, m, fails)
                                 \/ Finalize(net, m)
  PROVE  StepOK
<1> TypeOK /\ ChainsOK
  BY DEF IInv
<1>1. UNCHANGED <<env, network, txs, used, locked, notices, running,
                  knownNoPending, latest, blockhashRpc, device, sendRpc,
                  heightRpc, statusRpc, pool>>
  BY DEF NextBlock, Execute, Finalize, prefsVars, keyringVars, timerVars
<1> DEFINE Typed == /\ height' \in [Networks -> 0 .. MaxHeight]
                    /\ executed' \in [Networks -> SUBSET Messages]
                    /\ failed' \in [Networks -> SUBSET Messages]
                    /\ finalized' \in [Networks -> SUBSET Messages]
<1>2. Grows /\ ChainsOK' /\ Typed
  <2>1. \A n \in Networks : height[n] \in 0 .. MaxHeight /\ height[n] \in Nat
    BY BoundsAssumption DEF TypeOK
  <2>2. CASE NextBlock(net)
    <3>1. /\ height' = [height EXCEPT ![net] = @ + 1]
          /\ height[net] < MaxHeight
          /\ UNCHANGED <<pool, executed, failed, finalized>>
      BY <2>2 DEF NextBlock
    <3>2. \A n \in Networks : height'[n] \in 0 .. MaxHeight
                              /\ height'[n] \in Nat /\ height[n] <= height'[n]
      BY <2>1, <3>1, BoundsAssumption DEF TypeOK
    <3>3. height' \in [Networks -> 0 .. MaxHeight]
      BY <3>1, <3>2 DEF TypeOK
    <3> QED BY <3>1, <3>2, <3>3 DEF Grows, ChainsOK, TypeOK
  <2>3. ASSUME NEW m \in pool[net], NEW fails \in BOOLEAN,
               Execute(net, m, fails)
        PROVE  Grows /\ ChainsOK' /\ Typed
    <3>1. /\ CanExecute(net, m) /\ m \in Messages
          /\ executed' = [executed EXCEPT ![net] = @ \cup {m}]
          /\ failed' \in {failed, [failed EXCEPT ![net] = @ \cup {m}]}
          /\ UNCHANGED <<height, pool, finalized>>
      BY <2>3 DEF Execute, TypeOK
    <3>2. m \notin executed[net] /\ m.blockhash.net = net
      BY <3>1 DEF CanExecute
    <3>3. /\ executed' \in [Networks -> SUBSET Messages]
          /\ failed' \in [Networks -> SUBSET Messages]
      BY <3>1 DEF TypeOK
    <3>4. Grows
      BY <2>1, <3>1, <3>2 DEF Grows, TypeOK
    <3>5. ChainsOK'
      BY <3>1, <3>2 DEF ChainsOK, TypeOK
    <3> QED BY <3>1, <3>3, <3>4, <3>5 DEF TypeOK
  <2>4. ASSUME NEW m \in pool[net], Finalize(net, m)
        PROVE  Grows /\ ChainsOK' /\ Typed
    <3>1. /\ m \in executed[net] /\ m \in Messages
          /\ finalized' = [finalized EXCEPT ![net] = @ \cup {m}]
          /\ UNCHANGED <<height, pool, executed, failed>>
      BY <2>4 DEF Finalize, TypeOK
    <3>2. \A n \in Networks : finalized[n] \subseteq finalized'[n]
                              /\ finalized'[n] \subseteq executed[n]
      BY <3>1 DEF ChainsOK, TypeOK
    <3>3. finalized' \in [Networks -> SUBSET Messages]
      BY <3>1 DEF TypeOK
    <3>4. Grows
      BY <2>1, <3>1, <3>2 DEF Grows
    <3>5. ChainsOK'
      BY <3>1, <3>2 DEF ChainsOK
    <3> QED BY <3>1, <3>3, <3>4, <3>5 DEF TypeOK
  <2> QED BY <2>2, <2>3, <2>4
<1>3. TypeOK'
  BY <1>1, <1>2 DEF TypeOK, IsStatusRequest
<1>4. \A id \in TxIds : IdStep(id)
  BY <1>1, <1>2, GrowsStep
<1>5. AtHome'
  BY <1>1 DEF IInv, AtHome
<1> QED BY <1>2, <1>3, <1>4, <1>5 DEF StepOK, IInv, IdStep

-----------------------------------------------------------------------------
(* A node accepts or refuses a message.                                    *)

LEMMA NodeStep ==
  ASSUME IInv, NEW r \in sendRpc, NodeAccepts(r) \/ NodeRefuses(r)
  PROVE  StepOK
<1> TypeOK /\ ChainsOK
  BY DEF IInv
<1>1. UNCHANGED <<env, network, txs, used, locked, notices, running,
                  knownNoPending, latest, blockhashRpc, device, heightRpc,
                  statusRpc, height, executed, failed, finalized>>
  BY DEF NodeAccepts, NodeRefuses, prefsVars, keyringVars, timerVars,
         networkVars
<1>2. PICK s \in SendRequests :
        /\ s.id = r.id /\ s.net = r.net /\ s.message = r.message
        /\ sendRpc' = (sendRpc \ {r}) \cup {s}
  <2>1. r \in SendRequests
    BY DEF TypeOK
  <2>2. \A x \in {"accepted", "refused"} :
          LET s == [r EXCEPT !.state = x]
          IN  /\ s \in SendRequests
              /\ s.id = r.id /\ s.net = r.net /\ s.message = r.message
    BY <2>1 DEF SendRequests
  <2> QED BY <2>2 DEF NodeAccepts, NodeRefuses
<1>3. /\ r.id \in TxIds /\ r.net \in Networks /\ r.message \in Messages
      /\ r.state = "sent" /\ r \in Sent(r.id)
  BY DEF TypeOK, SendRequests, NodeAccepts, NodeRefuses, Sent
<1>4. IdOK(r.id)
  BY <1>3 DEF IInv
<1>5. /\ r.net = network /\ r.message.what = r.id
      /\ \A m \in Traces(r.id) : m = r.message
      /\ Stored(network, r.id) =>
           Row(network, r.id).blockhash = r.message.blockhash
  <2> DEFINE id == r.id
  <2>1. CopiesOK(id) /\ r \in Sent(id)
    BY <1>3, <1>4 DEF IdOK
  <2> QED BY <2>1, <1>3 DEF CopiesOK
<1>6. /\ pool' \in [Networks -> SUBSET Messages]
      /\ \A net \in Networks : /\ pool[net] \subseteq pool'[net]
                               /\ pool'[net] \subseteq pool[net] \cup {r.message}
  <2>1. \/ pool' = pool
        \/ pool' = [pool EXCEPT ![r.net] = @ \cup {r.message}]
    BY DEF NodeAccepts, NodeRefuses, networkVars
  <2>2. pool \in [Networks -> SUBSET Messages]
    BY DEF TypeOK
  <2> QED BY <1>3, <2>1, <2>2
<1>7. TypeOK'
  <2>1. sendRpc' \subseteq SendRequests
    BY <1>2 DEF TypeOK
  <2> QED BY <1>1, <1>6, <2>1 DEF TypeOK, IsStatusRequest
<1>8. ChainsOK' /\ AtHome'
  BY <1>1, <1>6 DEF ChainsOK, AtHome, IInv
<1>9. ASSUME NEW id \in TxIds
      PROVE  IdStep(id)
  <2>1. /\ \A net \in Networks : Row(net, id)' = Row(net, id)
        /\ \A net \in Networks : Stored(net, id)' = Stored(net, id)
        /\ Requested(id)' = Requested(id) /\ Held(id)' = Held(id)
        /\ Queried(id)' = Queried(id)
    BY <1>1 DEF Row, Stored, Requested, Held, Queried
  <2>2. IdOK(id)
    BY DEF IInv
  <2>3. RowsOK(id)'
    BY <1>1, <2>1, <2>2 DEF RowsOK, RowOK, CanExecute, IdOK
  <2>4. QueriesOK(id)'
    BY <1>1, <2>1, <2>2 DEF QueriesOK, Foretold, IdOK, TypeOK
  <2>5. KeptSettled(id)
    BY <2>1 DEF KeptSettled
  <2>6. CASE id # r.id
    <3>1. Sent(id)' = Sent(id)
      BY <1>2, <2>6 DEF Sent
    <3>2. Traces(id)' = Traces(id)
      BY <1>5, <1>6, <2>6 DEF Traces
    <3>3. Idle(id)' = Idle(id) /\ Clean(id)' = Clean(id)
      BY <2>1, <3>1, <3>2 DEF Idle, Clean
    <3>4. OneHome(id)' /\ OneStage(id)'
      BY <1>1, <2>1, <2>2, <3>1, <3>3 DEF IdOK, OneHome, OneStage, Unsent
    <3>5. CopiesOK(id)' /\ OneMessage(id)' /\ (id \notin used' => Unused(id)')
      BY <1>1, <2>1, <2>2, <3>1, <3>2, <3>3
         DEF IdOK, CopiesOK, OneMessage, Unused, TypeOK
    <3> QED BY <2>3, <2>4, <2>5, <3>4, <3>5 DEF IdStep, IdOK
  <2>7. CASE id = r.id
    <3>1. Sent(id) = {r} /\ Sent(id)' = {s}
      BY <1>2, <1>3, <2>2, <2>7 DEF Sent, IdOK, OneStage
    <3>2. \A m \in Traces(id)' : m = r.message
      BY <1>5, <1>6, <2>7 DEF Traces
    <3>3. id \in used' /\ ~Idle(id)
      BY <1>1, <2>2, <3>1 DEF IdOK, Unused, Idle
    <3>4. OneHome(id)'
      BY <1>1, <2>1, <2>2, <3>3 DEF IdOK, OneHome
    <3>5. OneStage(id)'
      BY <2>1, <2>2, <3>1 DEF IdOK, OneStage, Unsent, Clean
    <3>6. CopiesOK(id)'
      <4>1. \A d \in Held(id)' : d.message.what = id
        BY <2>1, <2>2 DEF IdOK, CopiesOK
      <4>2. Requested(id)' = {}
        BY <2>1, <2>2, <3>1 DEF IdOK, OneStage, Clean
      <4> QED BY <1>1, <1>2, <1>5, <2>1, <2>7, <3>1, <3>2, <4>1, <4>2
              DEF CopiesOK, TypeOK
    <3> QED BY <2>3, <2>4, <2>5, <3>2, <3>3, <3>4, <3>5, <3>6
            DEF IdStep, IdOK, OneMessage
  <2> QED BY <2>6, <2>7
<1> QED BY <1>7, <1>8, <1>9 DEF StepOK, IInv, IdStep

-----------------------------------------------------------------------------
(* From a row that is not approved to a message on its way.                *)

\* Nothing has been sent for the transaction, and it may be approved.
Starting(id) ==
  /\ id \in used /\ Clean(id)
  /\ \A net \in Networks : Stored(net, id) =>
       net = network /\ Row(net, id).status \in {"Unapproved", "Rejected"}

\* The row is saved, or not kept.
RowBecomes(id, row) ==
  \A net \in Networks :
    Row(net, id)' \in {NoTx, IF net = network THEN row ELSE Row(net, id)}

UnsentRow(row, id) ==
  /\ row \in Metas /\ row.id = id /\ row.signature = NoSignature
  /\ row.status \in {"Unapproved", "Rejected", "Approved"}
  /\ row.expiry # 0 => /\ row.blockhash # NoBlockhash
                       /\ row.expiry = LastValid(row.blockhash)

LEMMA StoredStarts ==
  ASSUME IInv, NEW id \in TxIds, HasStatus(id, "Unapproved")
  PROVE  Starting(id) /\ UnsentRow(Row(network, id), id)
<1>1. network \in Networks /\ IdOK(id) /\ TypeOK
  BY DEF IInv, TypeOK
<1>2. Stored(network, id) /\ Row(network, id).status = "Unapproved"
  BY DEF HasStatus, Found, Store, Row, Stored
<1>3. Clean(id)
  BY <1>1, <1>2 DEF IdOK, OneStage
<1>4. id \in used
  BY <1>1, <1>2 DEF IdOK, Unused
<1>5. \A net \in Networks : Stored(net, id) => net = network
  BY <1>1, <1>2 DEF IdOK, OneHome
<1>6. UnsentRow(Row(network, id), id)
  BY <1>1, <1>2, RowType DEF UnsentRow, IdOK, RowsOK, RowOK
<1> QED BY <1>2, <1>3, <1>4, <1>5, <1>6 DEF Starting

LEMMA BoundStarts ==
  ASSUME IInv, NEW id \in TxIds, Requested(id) # {} \/ Held(id) # {}
  PROVE  Starting(id)
<1>1. IdOK(id)
  BY DEF IInv
<1>2. ~Idle(id)
  BY DEF Idle
<1>3. id \in used /\ \A net \in Networks : Stored(net, id) => net = network
  BY <1>1, <1>2 DEF IdOK, Unused, OneHome
<1> QED BY <1>1, <1>3 DEF Starting, IdOK, OneStage, Unsent

\* What RowBecomes says of the selected network and of the others.
LEMMA NewRow ==
  ASSUME IInv, NEW id \in TxIds, NEW row, Starting(id), RowBecomes(id, row),
         UnsentRow(row, id), network' = network, UNCHANGED Chains
  PROVE  /\ \A net \in Networks : Stored(net, id)' =>
              net = network /\ Row(net, id)' = row
         /\ Stored(network, id)' => RowOK(network, id)'
         /\ \A net \in Networks \ {network} :
              Row(net, id)' \in {NoTx, Row(net, id)}
         /\ Traces(id)' = {}
<1>1. \A net \in Networks : Stored(net, id)' =>
        net = network /\ Row(net, id)' = row
  BY DEF Starting, RowBecomes, Stored
<1>2. Stored(network, id)' => RowOK(network, id)'
  BY <1>1 DEF RowOK, UnsentRow, LastValid, IInv, TypeOK
<1>3. Traces(id)' = {}
  BY DEF Starting, Clean, Traces, Chains
<1> QED BY <1>1, <1>2, <1>3 DEF RowBecomes

LEMMA ApprovedStage ==
  ASSUME IInv, NEW id \in TxIds, Starting(id),
         NEW row, UnsentRow(row, id), row.status = "Approved",
         NEW s, s.id = id, s.net = network, s.message.what = id,
         s.state # "refused" => s.message.blockhash = row.blockhash,
         RowBecomes(id, row),
         Requested(id)' = {}, Held(id)' = {}, Sent(id)' = {s},
         Queried(id)' = {},
         UNCHANGED <<network, used>>, UNCHANGED Chains
  PROVE  IdStep(id)
<1>1. /\ \A net \in Networks : Stored(net, id)' =>
           net = network /\ Row(net, id)' = row
      /\ Stored(network, id)' => RowOK(network, id)'
      /\ \A net \in Networks \ {network} :
           Row(net, id)' \in {NoTx, Row(net, id)}
      /\ Traces(id)' = {}
  BY NewRow
<1>2. OneStage(id)'
  BY <1>1 DEF OneStage, Unsent, UnsentRow
<1>3. CopiesOK(id)'
  BY <1>1 DEF CopiesOK, IInv, TypeOK
<1>4. QueriesOK(id)'
  BY DEF QueriesOK
<1> QED BY <1>1, <1>2, <1>3, <1>4, NewStage
        DEF Starting, SettledStatuses, IInv, TypeOK

LEMMA WaitingStage ==
  ASSUME IInv, NEW id \in TxIds, Starting(id),
         NEW row, UnsentRow(row, id), row.status = "Unapproved",
         RowBecomes(id, row),
         Requested(id)' = {} \/ Held(id)' = {},
         NEW b, b.meta.status = "Unapproved", b.meta.signature = NoSignature,
         Requested(id)' \subseteq {b},
         NEW d, d.message.what = id, Held(id)' \subseteq {d},
         Sent(id)' = {}, Queried(id)' = {},
         UNCHANGED <<network, used>>, UNCHANGED Chains
  PROVE  IdStep(id)
<1>1. /\ \A net \in Networks : Stored(net, id)' =>
           net = network /\ Row(net, id)' = row
      /\ Stored(network, id)' => RowOK(network, id)'
      /\ \A net \in Networks \ {network} :
           Row(net, id)' \in {NoTx, Row(net, id)}
      /\ Traces(id)' = {}
  BY NewRow
<1>2. Clean(id)'
  BY <1>1 DEF Clean
<1>3. OneStage(id)'
  BY <1>1, <1>2 DEF OneStage, Unsent, UnsentRow
<1>4. CopiesOK(id)'
  BY DEF CopiesOK
<1>5. QueriesOK(id)'
  BY DEF QueriesOK
<1> QED BY <1>1, <1>3, <1>4, <1>5, NewStage
        DEF Starting, SettledStatuses, IInv, TypeOK

-----------------------------------------------------------------------------
(* Approving, on the selected network, and the answer with a blockhash.    *)

LEMMA UsesEffect ==
  ASSUME TypeOK, NEW meta \in Metas, meta.status = "Unapproved",
         meta.signature = NoSignature,
         NEW blockhash \in Blockhashes, NEW expiry \in Nat,
         expiry # 0 => expiry = LastValid(blockhash),
         NEW purpose \in {"sign", "device"}, NEW queue \in Nat,
         Uses(purpose, meta, queue, blockhash, expiry)
  PROVE  \E row \in Metas :
           /\ UnsentRow(row, meta.id) /\ Save(row)
           /\ \/ /\ row.status = "Approved" /\ device' = device
                 /\ \E s \in SendRequests :
                      /\ s.id = meta.id /\ s.net = network
                      /\ s.message.what = meta.id
                      /\ s.message.blockhash = row.blockhash
                      /\ sendRpc' = sendRpc \cup {s}
              \/ /\ row.status = "Unapproved" /\ sendRpc' = sendRpc
                 /\ \E d \in [id : TxIds, message : Messages, queue : Nat] :
                      /\ d.id = meta.id /\ d.message.what = meta.id
                      /\ device' = device \cup {d}
<1>1. network \in Networks /\ meta.id \in TxIds
  BY DEF TypeOK, Metas
<1>2. blockhash # NoBlockhash
  BY NoBlockhashAssumption
<1>3. Message(meta.id, blockhash) \in Messages
  BY <1>1 DEF Message, Messages
<1>4. CASE purpose = "sign"
  <2> DEFINE row == [meta EXCEPT !.status = "Approved",
                                 !.blockhash = blockhash, !.expiry = expiry]
             s == [id |-> meta.id, net |-> network,
                   message |-> Message(meta.id, blockhash),
                   state |-> IF ~locked THEN "sent" ELSE "refused"]
  <2>1. /\ row \in Metas /\ row.id = meta.id /\ row.signature = NoSignature
        /\ row.status = "Approved" /\ row.blockhash = blockhash
        /\ row.expiry = expiry
    BY DEF Metas, Status
  <2>2. Save(row) /\ sendRpc' = sendRpc \cup {s} /\ device' = device
    BY <1>4 DEF Uses, SignAndSend, SendSolanaTransaction
  <2>3. /\ s \in SendRequests /\ s.id = meta.id /\ s.net = network
        /\ s.message.what = meta.id /\ s.message.blockhash = blockhash
    BY <1>1, <1>3 DEF SendRequests, Message
  <2> HIDE DEF row, s
  <2>4. UnsentRow(row, meta.id)
    BY <1>2, <2>1 DEF UnsentRow
  <2> QED BY <2>1, <2>2, <2>3, <2>4
<1>5. CASE purpose = "device"
  <2> DEFINE row == [meta EXCEPT !.blockhash = blockhash, !.expiry = expiry]
             d == [id |-> meta.id, message |-> Message(meta.id, blockhash),
                   queue |-> queue]
  <2>1. /\ row \in Metas /\ row.id = meta.id /\ row.signature = NoSignature
        /\ row.status = "Unapproved" /\ row.blockhash = blockhash
        /\ row.expiry = expiry
    BY DEF Metas
  <2>2. Save(row) /\ device' = device \cup {d} /\ sendRpc' = sendRpc
    BY <1>5 DEF Uses, MessageToSign
  <2>3. /\ d \in [id : TxIds, message : Messages, queue : Nat] /\ d.id = meta.id
        /\ d.message.what = meta.id
    BY <1>1, <1>3 DEF Message
  <2> HIDE DEF row, d
  <2>4. UnsentRow(row, meta.id)
    BY <1>2, <2>1 DEF UnsentRow
  <2> QED BY <2>1, <2>2, <2>3, <2>4
<1> QED BY <1>4, <1>5

LEMMA SaveFrame ==
  ASSUME TypeOK, NEW row \in Metas, Save(row), NEW id \in TxIds
  PROVE  /\ id = row.id => RowBecomes(id, row)
         /\ id # row.id => \A net \in Networks :
              Row(net, id)' = Row(net, id) \/ Row(net, id)' = NoTx
BY SaveEffect DEF RowBecomes

LEMMA UsesStep ==
  ASSUME IInv, NEW meta \in Metas, meta.status = "Unapproved",
         meta.signature = NoSignature,
         NEW blockhash \in Blockhashes, NEW expiry \in Nat,
         expiry # 0 => expiry = LastValid(blockhash),
         NEW purpose \in {"sign", "device"}, NEW queue \in Nat,
         Uses(purpose, meta, queue, blockhash, expiry),
         Starting(meta.id), Held(meta.id) = {},
         Requested(meta.id)' = {}, blockhashRpc' \subseteq blockhashRpc,
         UNCHANGED <<network, used, statusRpc>>, UNCHANGED Chains
  PROVE  /\ \A id \in TxIds : IdStep(id)
         /\ txs' \in [Networks -> [TxIds -> Metas \cup {NoTx}]]
         /\ device' \subseteq [id : TxIds, message : Messages, queue : Nat]
         /\ sendRpc' \subseteq SendRequests
<1> TypeOK
  BY DEF IInv
<1>1. PICK row \in Metas :
        /\ UnsentRow(row, meta.id) /\ Save(row)
        /\ \/ /\ row.status = "Approved" /\ device' = device
              /\ \E s \in SendRequests :
                   /\ s.id = meta.id /\ s.net = network
                   /\ s.message.what = meta.id
                   /\ s.message.blockhash = row.blockhash
                   /\ sendRpc' = sendRpc \cup {s}
           \/ /\ row.status = "Unapproved" /\ sendRpc' = sendRpc
              /\ \E d \in [id : TxIds, message : Messages, queue : Nat] :
                   /\ d.id = meta.id /\ d.message.what = meta.id
                   /\ device' = device \cup {d}
  BY UsesEffect
<1>2. row.id = meta.id /\ meta.id \in TxIds
  BY <1>1 DEF UnsentRow, Metas
<1>3. txs' \in [Networks -> [TxIds -> Metas \cup {NoTx}]]
  BY <1>1, SaveEffect
<1>4. /\ device' \subseteq [id : TxIds, message : Messages, queue : Nat]
      /\ sendRpc' \subseteq SendRequests
  BY <1>1 DEF TypeOK
<1>5. ASSUME NEW id \in TxIds, id # meta.id
      PROVE  IdStep(id)
  <2>1. Requested(id)' \subseteq Requested(id) /\ Queried(id)' = Queried(id)
    BY DEF Requested, Queried
  <2>2. Held(id)' = Held(id) /\ Sent(id)' = Sent(id)
    BY <1>1, <1>5 DEF Held, Sent
  <2>3. \A net \in Networks : Row(net, id)' = Row(net, id)
                              \/ Row(net, id)' = NoTx
    BY <1>1, <1>2, <1>5, SaveFrame
  <2> QED BY <2>1, <2>2, <2>3, QuietStep DEF Quiet, Steady
<1>6. IdStep(meta.id)
  <2>0. PICK id \in TxIds : id = meta.id
    BY <1>2
  <2>1. RowBecomes(id, row)
    BY <1>1, <1>2, <2>0, SaveFrame
  <2>2. Queried(id)' = {} /\ Sent(id) = {} /\ Held(id) = {}
    BY <2>0 DEF Starting, Clean, Queried
  <2>3. UnsentRow(row, id) /\ Requested(id)' = {} /\ Starting(id)
    BY <1>1, <2>0
  <2>4. CASE row.status = "Approved"
    <3>1. PICK s \in SendRequests :
            /\ s.id = id /\ s.net = network /\ s.message.what = id
            /\ s.message.blockhash = row.blockhash
            /\ sendRpc' = sendRpc \cup {s} /\ device' = device
      BY <1>1, <2>0, <2>4
    <3>2. Sent(id)' = {s} /\ Held(id)' = {}
      BY <2>2, <3>1 DEF Sent, Held
    <3> IdStep(id)
      BY <2>1, <2>2, <2>3, <2>4, <3>1, <3>2, ApprovedStage
    <3> QED BY <2>0
  <2>5. CASE row.status = "Unapproved"
    <3>1. PICK d \in [id : TxIds, message : Messages, queue : Nat] :
            /\ d.id = id /\ d.message.what = id
            /\ device' = device \cup {d} /\ sendRpc' = sendRpc
      BY <1>1, <2>0, <2>5
    <3>2. Held(id)' \subseteq {d} /\ Sent(id)' = {}
      BY <2>2, <3>1 DEF Held, Sent
    <3>3. /\ [meta |-> meta].meta.status = "Unapproved"
          /\ [meta |-> meta].meta.signature = NoSignature
      OBVIOUS
    <3> IdStep(id)
      BY <2>1, <2>2, <2>3, <2>5, <3>1, <3>2, <3>3, WaitingStage
    <3> QED BY <2>0
  <2> QED BY <1>1, <2>0, <2>4, <2>5
<1> QED BY <1>3, <1>4, <1>5, <1>6

\* The panel offers no approval while one is under way.
LEMMA PanelIsFree ==
  ASSUME PlainUse, TypeOK, NEW id \in TxIds, PanelOffersApproval(id)
  PROVE  Requested(id) = {} /\ Held(id) = {}
BY DEF PlainUse, TypeOK, PanelOffersApproval, ComesBack, Requested, Held

LEMMA QueueLengthType ==
  QueueLength \in Nat
<1>1. IsFiniteSet(IdsByStatus(Store, {"Unapproved"}))
  BY TxIdsAssumption, FS_Subset DEF IdsByStatus
<1> QED BY <1>1, FS_CardinalityType DEF QueueLength

LEMMA ApproveStep ==
  ASSUME PlainUse, IInv, NEW id \in TxIds,
         ApproveTransaction(id) \/ GetTransactionMessageToSign(id)
  PROVE  StepOK
<1> TypeOK
  BY DEF IInv
<1>1. PICK purpose \in {"sign", "device"} :
        WithBlockhash(id, purpose) /\ PanelOffersApproval(id)
  BY DEF ApproveTransaction, GetTransactionMessageToSign
<1>2. UNCHANGED <<env, network, used, locked, notices, running,
                  knownNoPending, latest, heightRpc, statusRpc, height, pool,
                  executed, failed, finalized>>
  BY DEF ApproveTransaction, GetTransactionMessageToSign, keyringVars,
         timerVars, networkVars
<1>3. Starting(id) /\ UnsentRow(Row(network, id), id)
  BY <1>1, StoredStarts DEF PanelOffersApproval
<1>4. PICK row \in Metas :
        row = Row(network, id) /\ row.id = id /\ row.status = "Unapproved"
        /\ row.signature = NoSignature
  BY <1>1, <1>3 DEF UnsentRow, PanelOffersApproval, HasStatus, Store, Row
<1>5. Requested(id) = {} /\ Held(id) = {}
  BY <1>1, PanelIsFree
<1>6. row = Store[id]
  BY <1>4 DEF Row, Store
<1>7. UNCHANGED Chains
  BY <1>2 DEF Chains
<1>8. ASSUME NEW blockhash \in Blockhashes, NEW expiry \in Nat,
             expiry # 0 => expiry = LastValid(blockhash),
             Uses(purpose, row, QueueLength, blockhash, expiry),
             UNCHANGED blockhashRpc
      PROVE  StepOK
  <2>1. Requested(row.id)' = {} /\ Held(row.id) = {} /\ Starting(row.id)
    BY <1>3, <1>4, <1>5, <1>8 DEF Requested
  <2>2. /\ \A i \in TxIds : IdStep(i)
        /\ txs' \in [Networks -> [TxIds -> Metas \cup {NoTx}]]
        /\ device' \subseteq [id : TxIds, message : Messages, queue : Nat]
        /\ sendRpc' \subseteq SendRequests
    BY <1>2, <1>4, <1>7, <1>8, <2>1, QueueLengthType, UsesStep
  <2>3. TypeOK'
    BY <1>2, <1>8, <2>2 DEF TypeOK, IsStatusRequest
  <2> QED BY <1>2, <1>7, <2>2, <2>3, Together
<1>9. CASE row.blockhash # NoBlockhash
  <2>1. /\ Uses(purpose, row, QueueLength, row.blockhash, 0) /\ UNCHANGED blockhashRpc
    BY <1>1, <1>6, <1>9 DEF WithBlockhash
  <2>2. row.blockhash \in Blockhashes
    BY <1>9 DEF Metas
  <2> QED BY <1>8, <2>1, <2>2
<1>10. CASE row.blockhash = NoBlockhash /\ Cached
  <2>1. /\ Uses(purpose, row, QueueLength, latest, LastValid(latest))
        /\ UNCHANGED blockhashRpc
    BY <1>1, <1>6, <1>10 DEF WithBlockhash
  <2>2. latest \in Blockhashes
    BY <1>10 DEF Cached, TypeOK
  <2>3. LastValid(latest) \in Nat
    BY <2>2, ExpiryType
  <2> QED BY <1>8, <2>1, <2>2, <2>3
<1>11. CASE row.blockhash = NoBlockhash /\ ~Cached
  <2> DEFINE b == [purpose |-> purpose, meta |-> row, net |-> network,
                   queue |-> QueueLength]
  <2>1. blockhashRpc' = blockhashRpc \cup {b} /\ UNCHANGED <<txs, device, sendRpc>>
    BY <1>1, <1>6, <1>11 DEF WithBlockhash
  <2>2. b \in BlockhashRequests /\ b.purpose # "none" /\ b.meta = row
    BY QueueLengthType DEF BlockhashRequests, TypeOK
  <2> HIDE DEF b
  <2>3. TypeOK'
    BY <1>2, <2>1, <2>2 DEF TypeOK, IsStatusRequest
  <2>4. ASSUME NEW i \in TxIds, i # id
        PROVE  IdStep(i)
    <3>1. Requested(i)' = Requested(i)
      BY <1>4, <2>1, <2>2, <2>4 DEF Requested
    <3>2. /\ Held(i)' = Held(i) /\ Sent(i)' = Sent(i)
          /\ Queried(i)' = Queried(i)
          /\ \A net \in Networks : Row(net, i)' = Row(net, i)
      BY <1>2, <2>1 DEF Held, Sent, Queried, Row
    <3> QED BY <1>2, <1>7, <3>1, <3>2, QuietStep DEF Quiet, Steady
  <2>5. IdStep(id)
    <3>1. Requested(id)' \subseteq {b} /\ Held(id)' = {}
      BY <1>5, <2>1, <2>2 DEF Requested, Held
    <3>2. Sent(id)' = {} /\ Queried(id)' = {}
      BY <1>2, <1>3, <2>1 DEF Starting, Clean, Sent, Queried
    <3>3. RowBecomes(id, row)
      BY <1>4, <2>1 DEF RowBecomes, Row
    <3>4. UnsentRow(row, id)
      BY <1>3, <1>4
    <3>5. b.meta.status = "Unapproved" /\ b.meta.signature = NoSignature
      BY <1>4, <2>2
    <3>6. [message |-> [what |-> id]].message.what = id
      OBVIOUS
    <3> QED BY <1>2, <1>3, <1>4, <1>7, <3>1, <3>2, <3>3, <3>4, <3>5, <3>6,
               WaitingStage
  <2> QED BY <1>2, <1>7, <2>3, <2>4, <2>5, Together
<1> QED BY <1>9, <1>10, <1>11

LEMMA BlockhashStep ==
  ASSUME IInv, NEW r \in blockhashRpc, OnGetLatestBlockhash(r)
  PROVE  StepOK
<1> TypeOK
  BY DEF IInv
<1> DEFINE answer == LatestBlockhash(r.net)
<1>1. UNCHANGED <<env, network, used, locked, notices, running,
                  knownNoPending, statusRpc, height, pool, executed, failed,
                  finalized>>
  BY DEF OnGetLatestBlockhash, keyringVars, timerVars, networkVars
<1>2. /\ blockhashRpc' = blockhashRpc \ {r} /\ latest' = answer
      /\ heightRpc' \subseteq heightRpc \cup {network}
      /\ Uses(r.purpose, r.meta, r.queue, answer, LastValid(answer))
  BY DEF OnGetLatestBlockhash, UpdatePendingTransactions
<1>3. r \in BlockhashRequests /\ r.net \in Networks
  BY DEF TypeOK, BlockhashRequests
<1>4. answer \in Blockhashes /\ LastValid(answer) \in Nat
  <2>1. answer \in Blockhashes
    BY <1>3 DEF LatestBlockhash, Blockhashes, TypeOK
  <2> HIDE DEF answer
  <2> QED BY <2>1, ExpiryType
<1> HIDE DEF answer
<1>5. UNCHANGED Chains
  BY <1>1 DEF Chains
<1>6. ASSUME txs' \in [Networks -> [TxIds -> Metas \cup {NoTx}]],
             device' \subseteq [id : TxIds, message : Messages, queue : Nat],
             sendRpc' \subseteq SendRequests
      PROVE  TypeOK'
  BY <1>1, <1>2, <1>4, <1>6 DEF TypeOK, IsStatusRequest
<1>7. CASE r.purpose = "none"
  <2>1. UNCHANGED <<txs, device, sendRpc>>
    BY <1>2, <1>7 DEF Uses
  <2>2. \A id \in TxIds : Quiet(id)
    BY <1>1, <1>2, <2>1, AllQuiet
  <2>3. TypeOK'
    BY <1>6, <2>1 DEF TypeOK
  <2> QED BY <1>1, <1>2, <1>5, <2>2, <2>3, QuietTogether
<1>8. CASE r.purpose # "none"
  <2>1. r.purpose \in {"sign", "device"} /\ r.meta \in Metas
    BY <1>3, <1>8 DEF BlockhashRequests
  <2>2. PICK meta \in Metas : meta = r.meta
    BY <2>1
  <2>3. PICK id \in TxIds : id = meta.id
    BY DEF Metas
  <2>4. r \in Requested(id) /\ IdOK(id)
    BY <1>8, <2>2, <2>3 DEF Requested, IInv
  <2>5. /\ meta.status = "Unapproved" /\ meta.signature = NoSignature
        /\ Held(id) = {} /\ Requested(id) = {r}
    BY <2>2, <2>4 DEF IdOK, OneStage, CopiesOK
  <2>6. Requested(id)' = {}
    BY <1>2, <2>5 DEF Requested
  <2>7. Starting(meta.id) /\ Held(meta.id) = {} /\ Requested(meta.id)' = {}
    BY <2>3, <2>4, <2>5, <2>6, BoundStarts
  <2>8. Uses(r.purpose, meta, r.queue, answer, LastValid(answer))
    BY <1>2, <2>2
  <2>9. /\ \A i \in TxIds : IdStep(i)
        /\ txs' \in [Networks -> [TxIds -> Metas \cup {NoTx}]]
        /\ device' \subseteq [id : TxIds, message : Messages, queue : Nat]
        /\ sendRpc' \subseteq SendRequests
    <3> DEFINE expiry == LastValid(answer)
    <3>1. expiry \in Nat /\ (expiry # 0 => expiry = LastValid(answer))
      BY <1>4
    <3>2. Uses(r.purpose, meta, r.queue, answer, expiry)
      BY <2>8
    <3> HIDE DEF expiry
    <3>3. PICK a \in Blockhashes, e \in Nat, p \in {"sign", "device"},
               u \in Nat :
            a = answer /\ e = expiry /\ p = r.purpose /\ u = r.queue
      BY <1>3, <1>4, <2>1, <3>1 DEF BlockhashRequests
    <3>4. Uses(p, meta, u, a, e) /\ (e # 0 => e = LastValid(a))
      BY <3>1, <3>2, <3>3
    <3> QED BY <1>1, <1>2, <1>5, <2>5, <2>7, <3>4, UsesStep
  <2> QED BY <1>1, <1>2, <1>5, <1>6, <2>9, Together
<1> QED BY <1>7, <1>8

-----------------------------------------------------------------------------
(* Adding, rejecting, and the answers of the device and of the nodes.      *)

\* Nothing is under way for the transaction.
LEMMA RestingStage ==
  ASSUME IInv, NEW id \in TxIds, id \in used', network' = network,
         UNCHANGED Chains,
         \A net \in Networks : Stored(net, id) => net = network,
         Stored(network, id) =>
           Row(network, id).status \notin SettledStatuses,
         NEW row, RowBecomes(id, row),
         Stored(network, id)' => RowOK(network, id)',
         row.status = "Unapproved" => Traces(id) = {},
         Idle(id)'
  PROVE  IdStep(id)
<1>1. /\ Requested(id)' = {} /\ Held(id)' = {} /\ Sent(id)' = {}
      /\ Queried(id)' = {}
  BY DEF Idle
<1>2. \A net \in Networks : Stored(net, id)' =>
        net = network /\ Row(net, id)' = row
  BY DEF RowBecomes, Stored
<1>3. Traces(id)' = Traces(id)
  BY DEF Traces, Chains
<1>4. OneStage(id)'
  BY <1>1, <1>2, <1>3 DEF OneStage, Clean
<1>5. CopiesOK(id)' /\ QueriesOK(id)'
  BY <1>1 DEF CopiesOK, QueriesOK
<1>6. \A net \in Networks \ {network} : Row(net, id)' \in {NoTx, Row(net, id)}
  BY DEF RowBecomes
<1> QED BY <1>4, <1>5, <1>6, NewStage

LEMMA AddStep ==
  ASSUME IInv, NEW id \in TxIds, NEW given \in BOOLEAN,
         AddUnapprovedTransaction(id, given)
  PROVE  StepOK
<1> TypeOK
  BY DEF IInv
<1> DEFINE row == [id |-> id, status |-> "Unapproved",
                   signature |-> NoSignature,
                   blockhash |-> IF given THEN LatestBlockhash(network)
                                          ELSE NoBlockhash,
                   expiry |-> 0, createdTime |-> Cardinality(used) + 1,
                   confirmedTime |-> 0]
<1>1. UNCHANGED <<env, network, locked, notices, running, knownNoPending,
                  latest, blockhashRpc, device, sendRpc, heightRpc, statusRpc,
                  height, pool, executed, failed, finalized>>
  BY DEF AddUnapprovedTransaction, keyringVars, timerVars, networkVars
<1>2. id \notin used /\ used' = used \cup {id} /\ Save(row)
  BY DEF AddUnapprovedTransaction
<1>3. row \in Metas
  <2>1. Cardinality(used) + 1 \in Nat
    <3>1. IsFiniteSet(used)
      BY TxIdsAssumption, FS_Subset DEF TypeOK
    <3> QED BY <3>1, FS_CardinalityType
  <2>2. LatestBlockhash(network) \in Blockhashes
    BY DEF TypeOK, LatestBlockhash, Blockhashes
  <2> QED BY <2>1, <2>2 DEF Metas, Status
<1>4. /\ row.id = id /\ row.status = "Unapproved" /\ row.expiry = 0
      /\ row.signature = NoSignature
  OBVIOUS
<1> HIDE DEF row
<1>5. UNCHANGED Chains
  BY <1>1 DEF Chains
<1>6. TypeOK'
  <2>1. txs' \in [Networks -> [TxIds -> Metas \cup {NoTx}]]
    BY <1>2, <1>3, SaveEffect
  <2> QED BY <1>1, <1>2, <2>1 DEF TypeOK, IsStatusRequest
<1>7. ASSUME NEW i \in TxIds
      PROVE  IdStep(i)
  <2>1. /\ Requested(i)' = Requested(i) /\ Held(i)' = Held(i)
        /\ Sent(i)' = Sent(i) /\ Queried(i)' = Queried(i)
    BY <1>1 DEF Requested, Held, Sent, Queried
  <2>2. CASE i # id
    <3>1. \A net \in Networks : Row(net, i)' = Row(net, i)
                                \/ Row(net, i)' = NoTx
      BY <1>2, <1>3, <1>4, <2>2, SaveFrame
    <3> QED BY <1>1, <1>2, <1>5, <2>1, <3>1, QuietStep DEF Quiet, Steady
  <2>3. CASE i = id
    <3>1. Unused(i)
      BY <1>2, <2>3 DEF IInv, IdOK
    <3>2. RowBecomes(i, row)
      BY <1>2, <1>3, <1>4, <2>3, SaveFrame
    <3>3. Idle(i)'
      BY <2>1, <3>1 DEF Idle, Unused
    <3>4. Stored(network, i)' => RowOK(network, i)'
      BY <1>1, <1>4, <2>3, <3>2 DEF RowBecomes, Stored, RowOK, TypeOK
    <3>5. network' = network /\ i \in used' /\ network \in Networks
      BY <1>1, <1>2, <2>3 DEF TypeOK
    <3>6. Traces(i) = {} /\ \A net \in Networks : ~Stored(net, i)
      BY <3>1 DEF Unused
    <3> QED BY <1>5, <3>2, <3>3, <3>4, <3>5, <3>6, RestingStage
  <2> QED BY <2>2, <2>3
<1> QED BY <1>1, <1>5, <1>6, <1>7, Together

\* Only the status changes: the stage is the one it was.
LEMMA RejectStep ==
  ASSUME IInv, NEW id \in TxIds, RejectTransaction(id)
  PROVE  StepOK
<1> DEFINE row == [Row(network, id) EXCEPT !.status = "Rejected"]
<1> TypeOK /\ network \in Networks
  BY DEF IInv, TypeOK
<1>1. UNCHANGED <<env, network, used, locked, notices, running,
                  knownNoPending, latest, blockhashRpc, device, sendRpc,
                  heightRpc, statusRpc, height, pool, executed, failed,
                  finalized>>
  BY DEF RejectTransaction, keyringVars, timerVars, networkVars
<1>2. /\ Stored(network, id) /\ Row(network, id) \in Metas
      /\ RowOK(network, id) /\ IdOK(id)
      /\ \A net \in Networks : Stored(net, id) => net = network
      /\ Row(network, id).status # "Unapproved" => "LateReject" \in env
  <2>1. Stored(network, id)
    BY DEF RejectTransaction, Found, Store, Row, Stored
  <2>2. Row(network, id).status # "Unapproved" => "LateReject" \in env
    BY DEF RejectTransaction, HasStatus, Found, Store, Row
  <2> QED BY <2>1, <2>2, RowType DEF IInv, IdOK, RowsOK, OneHome
<1>3. /\ Save(row) /\ row \in Metas /\ row.id = id /\ row.status = "Rejected"
      /\ row.expiry = Row(network, id).expiry
      /\ row.blockhash = Row(network, id).blockhash
      /\ row.signature = Row(network, id).signature
  BY <1>2 DEF RejectTransaction, Store, Row, RowOK, Metas, Status
<1> HIDE DEF row
<1>4. UNCHANGED Chains
  BY <1>1 DEF Chains
<1>5. TypeOK'
  <2>1. txs' \in [Networks -> [TxIds -> Metas \cup {NoTx}]]
    BY <1>3, SaveEffect
  <2> QED BY <1>1, <2>1 DEF TypeOK, IsStatusRequest
<1>6. \A i \in TxIds :
        /\ Requested(i)' = Requested(i) /\ Held(i)' = Held(i)
        /\ Sent(i)' = Sent(i) /\ Queried(i)' = Queried(i)
        /\ Traces(i)' = Traces(i)
  BY <1>1 DEF Requested, Held, Sent, Queried, Traces
<1>7. ASSUME NEW i \in TxIds, i # id
      PROVE  IdStep(i)
  <2>1. \A net \in Networks : Row(net, i)' = Row(net, i)
                              \/ Row(net, i)' = NoTx
    BY <1>3, <1>7, SaveFrame
  <2> QED BY <1>1, <1>4, <1>6, <2>1, QuietStep DEF Quiet, Steady
<1>8. IdStep(id)
  <2>1. \A net \in Networks : Stored(net, id)' =>
          net = network /\ Row(net, id)' = row
    BY <1>2, <1>3, SaveFrame DEF RowBecomes, Stored
  <2>2. RowsOK(id)'
    <3>1. ASSUME NEW net \in Networks, Stored(net, id)'
          PROVE  RowOK(net, id)'
      <4>1. net = network /\ Row(net, id)' = row /\ RowOK(net, id)
        BY <1>2, <2>1, <3>1
      <4> QED BY <1>3, <4>1 DEF RowOK, LastValid
    <3> QED BY <3>1 DEF RowsOK
  <2>3. OneHome(id)'
    BY <1>1, <2>1 DEF OneHome
  <2>4. OneStage(id)'
    <3>1. \A old : Unsent(id, old) => Unsent(id, {"Unapproved", "Rejected"})'
                                     /\ Unsent(id, {"Approved", "Rejected"})'
      BY <1>2, <1>3, <2>1 DEF Unsent
    <3>2. \A net \in Networks : Stored(net, id)' =>
            Row(net, id)'.status # "Unapproved"
      BY <1>3, <2>1
    <3> QED BY <1>2, <1>6, <3>1, <3>2 DEF IdOK, OneStage, Clean
  <2>5. CopiesOK(id)'
    BY <1>1, <1>2, <1>3, <1>6, <2>1 DEF IdOK, CopiesOK
  <2>6. QueriesOK(id)'
    BY <1>1, <1>2, <1>3, <1>6, <2>1 DEF IdOK, QueriesOK, Foretold
  <2>7. OneMessage(id)' /\ (id \notin used' => Unused(id)')
    BY <1>1, <1>2, <1>6 DEF IdOK, OneMessage, Unused
  <2>8. KeptSettled(id)
    BY <1>2, <1>3, <2>1 DEF KeptSettled, Stored, SettledStatuses
  <2> QED BY <2>2, <2>3, <2>4, <2>5, <2>6, <2>7, <2>8 DEF IdStep, IdOK
<1> QED BY <1>1, <1>4, <1>5, <1>7, <1>8, Together

LEMMA DeviceStep ==
  ASSUME IInv, NEW d \in device, ProcessSolanaHardwareSignature(d)
  PROVE  StepOK
<1> TypeOK
  BY DEF IInv
<1>1. UNCHANGED <<env, network, used, locked, notices, running,
                  knownNoPending, latest, blockhashRpc, heightRpc, statusRpc,
                  height, pool, executed, failed, finalized>>
  BY DEF ProcessSolanaHardwareSignature, keyringVars, timerVars, networkVars
<1>2. device' = device \ {d}
  BY DEF ProcessSolanaHardwareSignature
<1>3. PICK id \in TxIds : id = d.id
  BY DEF TypeOK
<1>4. d \in Held(id) /\ IdOK(id) /\ d.message \in Messages
  BY <1>3 DEF Held, IInv, TypeOK
<1>5. UNCHANGED Chains
  BY <1>1 DEF Chains
<1>6. CASE ~Found(id)
  <2>1. UNCHANGED <<txs, sendRpc>>
    BY <1>3, <1>6 DEF ProcessSolanaHardwareSignature
  <2>2. TypeOK'
    BY <1>1, <1>2, <2>1 DEF TypeOK, IsStatusRequest
  <2>3. \A i \in TxIds : Quiet(i)
    BY <1>1, <1>2, <2>1, AllQuiet
  <2> QED BY <1>1, <1>5, <2>2, <2>3, QuietTogether
<1>7. CASE Found(id)
  <2> DEFINE s == [id |-> d.id, net |-> network, message |-> d.message,
                   state |-> IF d.message.blockhash = Store[d.id].blockhash
                             THEN "sent" ELSE "refused"]
             row == [Row(network, id) EXCEPT !.status = "Approved"]
  <2>1. Starting(id) /\ Stored(network, id) /\ Held(id) = {d}
        /\ d.message.what = id /\ Requested(id) = {}
    BY <1>4, <1>7, BoundStarts
       DEF Found, Store, Stored, Row, IdOK, OneStage, CopiesOK
  <2>2. UnsentRow(Row(network, id), id)
    <3>1. Unsent(id, {"Unapproved", "Rejected"}) /\ RowOK(network, id)
      BY <1>4, <2>1 DEF IdOK, OneStage, RowsOK, TypeOK
    <3> QED BY <2>1, <3>1, RowType DEF UnsentRow, Unsent, RowOK, TypeOK
  <2>3. Save(row) /\ sendRpc' = sendRpc \cup {s}
    BY <1>3, <1>7
       DEF ProcessSolanaHardwareSignature, SendSolanaTransaction, Store, Row
  <2>4. /\ UnsentRow(row, id) /\ row \in Metas /\ row.id = id
        /\ row.status = "Approved"
        /\ row.blockhash = Row(network, id).blockhash
    BY <2>2 DEF UnsentRow, Metas, Status
  <2>5. /\ s \in SendRequests /\ s.id = id /\ s.net = network
        /\ s.message.what = id
        /\ s.state # "refused" => s.message.blockhash = row.blockhash
    BY <1>3, <1>4, <2>1, <2>4 DEF SendRequests, TypeOK, Store, Row
  <2> HIDE DEF s, row
  <2>6. TypeOK'
    <3>1. txs' \in [Networks -> [TxIds -> Metas \cup {NoTx}]]
      BY <2>3, <2>4, SaveEffect
    <3> QED BY <1>1, <1>2, <2>3, <2>5, <3>1 DEF TypeOK, IsStatusRequest
  <2>7. ASSUME NEW i \in TxIds, i # id
        PROVE  IdStep(i)
    <3>1. /\ Requested(i)' = Requested(i) /\ Held(i)' = Held(i)
          /\ Sent(i)' = Sent(i) /\ Queried(i)' = Queried(i)
      BY <1>1, <1>2, <1>3, <2>3, <2>5, <2>7 DEF Requested, Held, Sent, Queried
    <3>2. \A net \in Networks : Row(net, i)' = Row(net, i)
                                \/ Row(net, i)' = NoTx
      BY <2>3, <2>4, <2>7, SaveFrame
    <3> QED BY <1>1, <1>5, <3>1, <3>2, QuietStep DEF Quiet, Steady
  <2>8. IdStep(id)
    <3>1. RowBecomes(id, row)
      BY <2>3, <2>4, SaveFrame
    <3>2. Sent(id) = {} /\ Queried(id) = {}
      BY <2>1 DEF Starting, Clean
    <3>3. /\ Requested(id)' = {} /\ Held(id)' = {} /\ Sent(id)' = {s}
          /\ Queried(id)' = {}
      BY <1>1, <1>2, <2>1, <2>3, <2>5, <3>2 DEF Requested, Held, Sent, Queried
    <3> QED BY <1>1, <1>5, <2>1, <2>4, <2>5, <3>1, <3>3, ApprovedStage
  <2> QED BY <1>1, <1>5, <2>6, <2>7, <2>8, Together
<1> QED BY <1>6, <1>7

LEMMA SentAnswerStep ==
  ASSUME IInv, NEW r \in sendRpc, OnSendSolanaTransaction(r)
  PROVE  StepOK
<1> TypeOK
  BY DEF IInv
<1>1. UNCHANGED <<env, network, used, locked, notices, running,
                  knownNoPending, latest, blockhashRpc, device, statusRpc,
                  height, pool, executed, failed, finalized>>
  BY DEF OnSendSolanaTransaction, keyringVars, timerVars, networkVars
<1>2. /\ sendRpc' = sendRpc \ {r} /\ r.state # "sent"
      /\ heightRpc' \subseteq heightRpc \cup {network}
  BY DEF OnSendSolanaTransaction, UpdatePendingTransactions
<1>3. PICK id \in TxIds : id = r.id
  BY DEF TypeOK, SendRequests
<1>4. r \in Sent(id) /\ IdOK(id) /\ r.message \in Messages
  BY <1>3 DEF Sent, IInv, TypeOK, SendRequests
<1>5. UNCHANGED Chains
  BY <1>1 DEF Chains
<1>6. CASE ~Found(id)
  <2>1. UNCHANGED txs
    BY <1>3, <1>6 DEF OnSendSolanaTransaction
  <2>2. TypeOK'
    BY <1>1, <1>2, <2>1 DEF TypeOK, IsStatusRequest
  <2>3. \A i \in TxIds : Quiet(i)
    BY <1>1, <1>2, <2>1, AllQuiet
  <2> QED BY <1>1, <1>2, <1>5, <2>2, <2>3, QuietTogether
<1>7. CASE Found(id)
  <2> DEFINE old == Row(network, id)
  <2>1. Stored(network, id) /\ old \in Metas
    BY <1>7, RowType DEF Found, Store, Stored, Row, TypeOK
  <2>2. /\ Sent(id) = {r} /\ Unsent(id, {"Approved", "Rejected"})
        /\ Queried(id) = {}
        /\ Requested(id) = {} /\ Held(id) = {}
        /\ RowOK(network, id) /\ id \in used
        /\ \A net \in Networks : Stored(net, id) => net = network
    <3>1. ~Idle(id)
      BY <1>4 DEF Idle
    <3>2. Sent(id) = {r} /\ Unsent(id, {"Approved", "Rejected"}) /\ Queried(id) = {}
      BY <1>4 DEF IdOK, OneStage
    <3>3. Requested(id) = {} /\ Held(id) = {}
      BY <1>4, <3>2 DEF IdOK, OneStage, Clean
    <3>4. RowOK(network, id) /\ id \in used
          /\ \A net \in Networks : Stored(net, id) => net = network
      BY <1>4, <2>1, <3>1 DEF IdOK, RowsOK, Unused, OneHome, TypeOK
    <3> QED BY <3>2, <3>3, <3>4
  <2>3. /\ r.message.what = id
        /\ r.state # "refused" => old.blockhash = r.message.blockhash
    BY <1>4, <2>1 DEF IdOK, CopiesOK
  <2>4. PICK row \in Metas :
          /\ Save(row) /\ row.id = id /\ row.status \in {"Submitted", "Error"}
          /\ row.expiry = old.expiry /\ row.blockhash = old.blockhash
          /\ row.status = "Submitted" =>
               row.signature = r.message /\ r.state # "refused"
          /\ row.status = "Error" => row.signature = NoSignature
    <3>1. old.signature = NoSignature /\ old.id = id
      BY <2>1, <2>2 DEF RowOK, Unsent, TypeOK
    <3>2. CASE r.state = "accepted" /\ Save(Submitted(Store[r.id], r.message))
      <4> DEFINE row == [old EXCEPT !.status = "Submitted",
                                    !.signature = r.message]
      <4>1. Save(row)
        BY <1>3, <3>2 DEF Submitted, Store, Row
      <4>2. /\ row \in Metas /\ row.id = id /\ row.status = "Submitted"
            /\ row.expiry = old.expiry /\ row.blockhash = old.blockhash
            /\ row.signature = r.message
        BY <1>4, <2>1, <3>1 DEF Metas, Status
      <4> HIDE DEF row
      <4> QED BY <3>2, <4>1, <4>2
    <3>3. CASE Save([Store[r.id] EXCEPT !.status = "Error"])
      <4> DEFINE row == [old EXCEPT !.status = "Error"]
      <4>1. Save(row)
        BY <1>3, <3>3 DEF Store, Row
      <4>2. /\ row \in Metas /\ row.id = id /\ row.status = "Error"
            /\ row.expiry = old.expiry /\ row.blockhash = old.blockhash
            /\ row.signature = NoSignature
        BY <2>1, <3>1 DEF Metas, Status
      <4> HIDE DEF row
      <4> QED BY <4>1, <4>2
    <3> QED BY <1>3, <1>7, <3>2, <3>3 DEF OnSendSolanaTransaction
  <2>5. TypeOK'
    <3>1. txs' \in [Networks -> [TxIds -> Metas \cup {NoTx}]]
      BY <2>4, SaveEffect
    <3>2. heightRpc' \subseteq Networks
      BY <1>2 DEF TypeOK
    <3> QED BY <1>1, <1>2, <3>1, <3>2 DEF TypeOK, IsStatusRequest
  <2>6. ASSUME NEW i \in TxIds, i # id
        PROVE  IdStep(i)
    <3>1. /\ Requested(i)' = Requested(i) /\ Held(i)' = Held(i)
          /\ Sent(i)' = Sent(i) /\ Queried(i)' = Queried(i)
      BY <1>1, <1>2, <1>3, <2>6 DEF Requested, Held, Sent, Queried
    <3>2. \A net \in Networks : Row(net, i)' = Row(net, i)
                                \/ Row(net, i)' = NoTx
      BY <2>4, <2>6, SaveFrame
    <3> QED BY <1>1, <1>5, <3>1, <3>2, QuietStep DEF Quiet, Steady
  <2>7. IdStep(id)
    <3>1. RowBecomes(id, row)
      BY <2>4, SaveFrame
    <3>2. Idle(id)'
      BY <1>1, <1>2, <2>2 DEF Idle, Requested, Held, Sent, Queried
    <3>3. Stored(network, id)' => RowOK(network, id)'
      <4>1. Stored(network, id)' => Row(network, id)' = row
        BY <1>1, <3>1 DEF RowBecomes, Stored, TypeOK
      <4>2. /\ row.expiry # 0 => /\ row.blockhash # NoBlockhash
                                 /\ row.expiry = LastValid(row.blockhash)
        BY <2>2, <2>4 DEF RowOK
      <4>3. row.status = "Submitted" =>
              /\ row.signature # NoSignature /\ row.signature.what = id
              /\ row.signature.blockhash = row.blockhash
        BY <1>4, <2>3, <2>4, NoSignatureAssumption
      <4> QED BY <2>4, <4>1, <4>2, <4>3 DEF RowOK, LastValid
    <3>4. network' = network /\ network \in Networks /\ id \in used'
      BY <1>1, <2>2 DEF TypeOK
    <3> QED BY <1>5, <2>2, <2>4, <3>1, <3>2, <3>3, <3>4, RestingStage
            DEF SettledStatuses, Unsent
  <2> QED BY <1>1, <1>2, <1>5, <2>5, <2>6, <2>7, Together
<1> QED BY <1>6, <1>7

-----------------------------------------------------------------------------
(* Heights and statuses.                                                   *)

LEMMA OutcomeTruth ==
  ASSUME ChainsOK, NEW net \in Networks, NEW m
  PROVE  /\ Outcome(net, m) \in Outcomes
         /\ Outcome(net, m) = "err" => m \in failed[net]
         /\ Outcome(net, m) = "finalized" =>
              m \in finalized[net] \ failed[net]
         /\ Outcome(net, m) = "processed" => m \in executed[net]
         /\ Outcome(net, m) = "unknown" => m \notin executed[net]
BY DEF Outcome, Outcomes, ChainsOK

LEMMA HeightStep ==
  ASSUME IInv, NEW net \in Networks, OnGetBlockHeight(net)
  PROVE  StepOK
<1> TypeOK /\ ChainsOK
  BY DEF IInv
<1> DEFINE pending == IdsByStatus(Store, {"Submitted"})
           q == [height |-> height[net], net |-> network,
                 since |-> [id \in pending |->
                              Outcome(network, Store[id].signature)],
                 signatures |-> [id \in pending |-> Store[id].signature]]
<1>1. UNCHANGED <<env, network, txs, used, locked, notices, latest,
                  blockhashRpc, device, sendRpc, height, pool, executed,
                  failed, finalized>>
  BY DEF OnGetBlockHeight, prefsVars, keyringVars, networkVars
<1> statusRpc' = IF pending = {} THEN statusRpc ELSE statusRpc \cup {q}
  BY DEF OnGetBlockHeight
<1>2. /\ heightRpc' = heightRpc \ {net} /\ net = network
      /\ knownNoPending' = (pending = {})
      /\ running' = CheckIfBlockTrackerShouldRun(locked, running, pending = {})
  BY DEF OnGetBlockHeight, IInv, AtHome
<1>3. \A id \in pending :
        /\ id \in TxIds /\ Stored(network, id)
        /\ Row(network, id).status = "Submitted" /\ RowOK(network, id)
        /\ Store[id] = Row(network, id)
        /\ Store[id].signature \in Messages
  <2> SUFFICES ASSUME NEW id \in pending
               PROVE  /\ id \in TxIds /\ Stored(network, id)
                      /\ Row(network, id).status = "Submitted"
                      /\ RowOK(network, id) /\ Store[id] = Row(network, id)
                      /\ Store[id].signature \in Messages
    OBVIOUS
  <2>1. /\ id \in TxIds /\ Stored(network, id)
        /\ Row(network, id).status = "Submitted"
        /\ Store[id] = Row(network, id)
    BY DEF IdsByStatus, Store, Row, Stored
  <2>2. RowOK(network, id) /\ Row(network, id) \in Metas
    BY <2>1, RowType DEF IInv, IdOK, RowsOK, TypeOK
  <2> QED BY <2>1, <2>2 DEF RowOK, Metas
<1>4. IsStatusRequest(q)
  <2>1. \A id \in pending : Outcome(network, Store[id].signature) \in Outcomes
    BY OutcomeTruth DEF TypeOK
  <2> QED BY <1>3, <2>1 DEF IsStatusRequest, TypeOK, IdsByStatus
<1>5. \A r \in statusRpc' : r \in statusRpc \/ (r = q /\ pending # {})
  <2> HIDE DEF q, pending
  <2> QED OBVIOUS
<1>6. TypeOK'
  <2>1. \A r \in statusRpc' : IsStatusRequest(r)'
    BY <1>4, <1>5 DEF TypeOK, IsStatusRequest
  <2>2. running' \in BOOLEAN /\ knownNoPending' \in BOOLEAN
    BY <1>2 DEF CheckIfBlockTrackerShouldRun, TypeOK
  <2> QED BY <1>1, <1>2, <2>1, <2>2 DEF TypeOK
<1>7. UNCHANGED Chains
  BY <1>1 DEF Chains
<1>8. ASSUME NEW id \in TxIds
      PROVE  IdStep(id)
  <2>1. /\ Requested(id)' = Requested(id) /\ Held(id)' = Held(id)
        /\ Sent(id)' = Sent(id)
        /\ \A n \in Networks : Row(n, id)' = Row(n, id)
    BY <1>1 DEF Requested, Held, Sent, Row
  <2>2. DOMAIN q.signatures = pending
    OBVIOUS
  <2>3. CASE id \notin pending
    <3>1. Queried(id)' \subseteq Queried(id)
      BY <1>5, <2>2, <2>3 DEF Queried
    <3> QED BY <1>1, <1>7, <2>1, <3>1, QuietStep DEF Quiet, Steady
  <2>4. CASE id \in pending
    <3>1. Queried(id)' \subseteq Queried(id) \cup {q}
      BY <1>5 DEF Queried
    <3>2. /\ Stored(network, id) /\ Row(network, id).status = "Submitted"
          /\ RowOK(network, id) /\ Store[id] = Row(network, id)
          /\ IdOK(id) /\ network \in Networks
      BY <1>3, <2>4 DEF IInv, TypeOK
    <3>3. /\ Sent(id) = {} /\ Requested(id) = {} /\ Held(id) = {}
          /\ \A n \in Networks : Stored(n, id) => n = network
          /\ id \in used
      BY <3>2 DEF IdOK, OneStage, Unsent, OneHome, Unused
    <3>4. OneStage(id)'
      <4>1. \A n \in Networks : Stored(n, id)' =>
              Row(n, id)'.status = "Submitted"
        BY <2>1, <3>2, <3>3 DEF Stored
      <4> QED BY <2>1, <3>3, <4>1 DEF OneStage
    <3>5. CopiesOK(id)'
      BY <2>1, <3>3 DEF CopiesOK
    <3>6. QueriesOK(id)'
      <4>1. /\ q.net = network /\ q.height = height[network]
            /\ q.signatures[id] = Row(network, id).signature
            /\ q.since[id] = Outcome(network, Row(network, id).signature)
        BY <1>2, <2>4, <3>2
      <4> HIDE DEF q
      <4>2. Foretold(q, id)
        <5> DEFINE m == Row(network, id).signature
        <5>1. /\ q.since[id] = "err" => m \in failed[network]
              /\ q.since[id] = "finalized" =>
                   m \in finalized[network] \ failed[network]
              /\ q.since[id] = "processed" => m \in executed[network]
              /\ q.since[id] = "unknown" => m \notin executed[network]
          BY <4>1, <3>2, OutcomeTruth
        <5> QED BY <4>1, <5>1 DEF Foretold
      <4>3. height[network] \in Nat
        BY <3>2, BoundsAssumption DEF TypeOK
      <4>4. q.height <= height[network]
        BY <4>1, <4>3
      <4>5. QueriesOK(id)
        BY <3>2 DEF IdOK
      <4>6. ASSUME NEW r \in Queried(id) \cup {q}
            PROVE  /\ r.net = network /\ r.height <= height[network]
                   /\ Stored(network, id) =>
                        Row(network, id).signature = r.signatures[id]
                   /\ Foretold(r, id)
        BY <4>1, <4>2, <4>4, <4>5 DEF QueriesOK
      <4>7. \A r : Foretold(r, id)' = Foretold(r, id)
        BY <1>1 DEF Foretold
      <4>8. /\ Row(network, id)' = Row(network, id)
            /\ Stored(network, id)' = Stored(network, id)
        BY <1>1 DEF Row, Stored
      <4> QED BY <1>1, <3>1, <4>6, <4>7, <4>8 DEF QueriesOK
    <3>7. RowOK(network, id)'
      BY <1>1, <3>2 DEF RowOK, Row, CanExecute
    <3>8. \A n \in Networks \ {network} : Row(n, id)' \in {NoTx, Row(n, id)}
      BY <2>1
    <3> QED BY <1>1, <1>7, <3>2, <3>3, <3>4, <3>5, <3>6, <3>7, <3>8, NewStage
            DEF SettledStatuses
  <2> QED BY <2>3, <2>4
<1> QED BY <1>1, <1>2, <1>6, <1>7, <1>8, Together

\* What an answer to a status request tells of the message it is about.
LEMMA AnswerTruth ==
  ASSUME IInv, NEW id \in TxIds, NEW r \in Queried(id),
         NEW answer \in MayAnswer(r.since[id],
                                  Outcome(r.net, r.signatures[id]))
  PROVE  LET m == r.signatures[id]
         IN  /\ answer = "err" => m \in failed[network]
             /\ answer = "finalized" => m \in finalized[network] \ failed[network]
             /\ /\ answer = "unknown" /\ m.blockhash.net = network
                /\ LastValid(m.blockhash) < r.height
                => m \notin executed[network]
<1> DEFINE m   == r.signatures[id]
           now == Outcome(r.net, m)
<1>1. r.net = network /\ Foretold(r, id)
  BY DEF IInv, IdOK, QueriesOK
<1>2. network \in Networks /\ ChainsOK
  BY DEF IInv, TypeOK
<1>3. /\ now = "err" => m \in failed[network]
      /\ now = "finalized" => m \in finalized[network] \ failed[network]
      /\ now = "unknown" => m \notin executed[network]
  BY <1>1, <1>2, OutcomeTruth
<1>4. answer = r.since[id] \/ answer = now \/ answer = "processed"
  BY DEF MayAnswer
<1> HIDE DEF now
<1> QED BY <1>1, <1>3, <1>4 DEF Foretold

LEMMA SettledOK ==
  ASSUME IInv, NEW id \in TxIds, NEW r \in Queried(id), Stored(network, id),
         NEW answer \in MayAnswer(r.since[id],
                                  Outcome(r.net, r.signatures[id]))
  PROVE  \E row \in Metas :
           /\ row = Settled(Row(network, id), answer, r.height, height[network])
           /\ row.id = id /\ row.signature = r.signatures[id]
           /\ row.status \notin {"Unapproved", "Approved"}
           /\ row.expiry # 0 => /\ row.blockhash # NoBlockhash
                                /\ row.expiry = LastValid(row.blockhash)
           /\ row.signature \in Messages /\ row.signature.what = id
           /\ row.signature.blockhash = row.blockhash
           /\ row.status = "Dropped" =>
                /\ row.signature \notin executed[network]
                /\ ~CanExecute(network, row.signature)
           /\ row.status = "Confirmed" =>
                row.signature \in finalized[network] \ failed[network]
           /\ row.status = "Error" => row.signature \in failed[network]
           /\ Row(network, id).status \in SettledStatuses =>
                row.status = Row(network, id).status
<1> DEFINE new == Settled(Row(network, id), answer, r.height, height[network])
<1>1. /\ TypeOK /\ ChainsOK /\ network \in Networks
      /\ IdOK(id) /\ RowOK(network, id)
  BY DEF IInv, TypeOK, IdOK, RowsOK
<1>2. PICK m \in Messages : m = r.signatures[id]
  BY <1>1 DEF TypeOK, IsStatusRequest, Queried
<1>3. PICK old \in Metas : old = Row(network, id) /\ old.signature = m
  BY <1>1, <1>2, RowType DEF IdOK, QueriesOK
<1>4. /\ r.height <= height[network] /\ r.height \in Nat
      /\ height[network] \in Nat
  BY <1>1, BoundsAssumption
     DEF IdOK, QueriesOK, TypeOK, IsStatusRequest, Queried
<1>5. /\ answer = "err" => m \in failed[network]
      /\ answer = "finalized" => m \in finalized[network] \ failed[network]
      /\ /\ answer = "unknown" /\ m.blockhash.net = network
         /\ LastValid(m.blockhash) < r.height
         => m \notin executed[network]
  BY <1>2, AnswerTruth
<1>6. /\ old.id = id /\ m # NoSignature /\ m.what = id
      /\ m.blockhash = old.blockhash
      /\ old.status \notin {"Unapproved", "Approved"}
      /\ old.expiry # 0 => /\ old.blockhash # NoBlockhash
                           /\ old.expiry = LastValid(old.blockhash)
  BY <1>1, <1>3, NoSignatureAssumption DEF RowOK
<1>7. /\ old.status = "Dropped" =>
           m \notin executed[network] /\ ~CanExecute(network, m)
      /\ old.status = "Confirmed" => m \in finalized[network] \ failed[network]
      /\ old.status = "Error" => m \in failed[network]
  BY <1>1, <1>3, <1>6 DEF RowOK
<1>8. finalized[network] \subseteq executed[network]
      /\ failed[network] \subseteq executed[network]
  BY <1>1 DEF ChainsOK
<1>9. CASE answer = "unknown" /\ old.expiry # 0 /\ old.expiry < r.height
  <2> DEFINE row == [old EXCEPT !.status = "Dropped"]
  <2>1. new = row
    BY <1>3, <1>9 DEF Settled
  <2>2. /\ row \in Metas /\ row.id = old.id /\ row.signature = m
        /\ row.status = "Dropped" /\ row.expiry = old.expiry
        /\ row.blockhash = old.blockhash
    BY <1>3 DEF Metas
  <2>3. LastValid(m.blockhash) \in Nat /\ LastValid(m.blockhash) < r.height
    BY <1>6, <1>9, ExpiryType DEF Messages
  <2>4. m \notin executed[network]
    BY <1>1, <1>5, <1>9, <2>3 DEF ChainsOK
  <2>5. ~(height[network] <= LastValid(m.blockhash))
    BY <1>4, <2>3
  <2> HIDE DEF row, new
  <2> QED BY <1>2, <1>3, <1>6, <1>7, <1>8, <2>1, <2>2, <2>4, <2>5
          DEF CanExecute, SettledStatuses, new
<1>10. CASE answer = "err"
  <2> DEFINE row == [old EXCEPT !.status = "Error"]
  <2>1. new = row
    BY <1>3, <1>10 DEF Settled
  <2>2. /\ row \in Metas /\ row.id = old.id /\ row.signature = m
        /\ row.status = "Error" /\ row.expiry = old.expiry
        /\ row.blockhash = old.blockhash
    BY <1>3 DEF Metas, Status
  <2> HIDE DEF row, new
  <2> QED BY <1>2, <1>3, <1>5, <1>6, <1>7, <1>8, <1>10, <2>1, <2>2
          DEF SettledStatuses, new
<1>11. CASE answer = "finalized"
  <2> DEFINE row == [old EXCEPT !.status = "Confirmed",
                                !.confirmedTime = height[network]]
  <2>1. new = row
    BY <1>3, <1>11 DEF Settled
  <2>2. /\ row \in Metas /\ row.id = old.id /\ row.signature = m
        /\ row.status = "Confirmed" /\ row.expiry = old.expiry
        /\ row.blockhash = old.blockhash
    BY <1>3, <1>4 DEF Metas, Status
  <2> HIDE DEF row, new
  <2> QED BY <1>2, <1>3, <1>5, <1>6, <1>7, <1>8, <1>11, <2>1, <2>2
          DEF SettledStatuses, new
<1>12. CASE /\ answer \notin {"err", "finalized"}
            /\ ~(answer = "unknown" /\ old.expiry # 0 /\ old.expiry < r.height)
  <2>1. new = old
    BY <1>3, <1>12 DEF Settled
  <2> HIDE DEF new
  <2> QED BY <1>2, <1>3, <1>6, <1>7, <2>1 DEF new
<1> QED BY <1>9, <1>10, <1>11, <1>12

LEMMA StatusStep ==
  ASSUME IInv, NEW r \in statusRpc, OnGetSignatureStatuses(r)
  PROVE  StepOK
<1> TypeOK
  BY DEF IInv
<1>1. UNCHANGED <<env, network, used, locked, notices, running,
                  knownNoPending, latest, blockhashRpc, device, sendRpc,
                  heightRpc, height, pool, executed, failed, finalized>>
  BY DEF OnGetSignatureStatuses, keyringVars, timerVars, networkVars
<1>2. statusRpc' = statusRpc \ {r} /\ network \in Networks
  BY DEF OnGetSignatureStatuses, TypeOK
<1>3. PICK answer \in [DOMAIN r.signatures -> Outcomes] :
        /\ \A id \in DOMAIN answer :
             answer[id] \in MayAnswer(r.since[id],
                                      Outcome(r.net, r.signatures[id]))
        /\ txs' = [txs EXCEPT ![network] =
                     [id \in TxIds |->
                        IF id \in DOMAIN answer /\ Found(id)
                        THEN Settled(Store[id], answer[id], r.height,
                                     height[network])
                        ELSE Store[id]]]
  BY DEF OnGetSignatureStatuses
<1> DEFINE Hit(id) == id \in DOMAIN r.signatures /\ Stored(network, id)
           New(id) == Settled(Row(network, id), answer[id], r.height,
                              height[network])
<1>4. \A id \in TxIds, net \in Networks :
        Row(net, id)' = IF net = network /\ Hit(id) THEN New(id)
                                                    ELSE Row(net, id)
  BY <1>2, <1>3 DEF TypeOK, Found, Store, Stored, Row
<1> HIDE DEF New
<1>5. ASSUME NEW id \in TxIds, Hit(id)
      PROVE  /\ r \in Queried(id)
             /\ answer[id] \in MayAnswer(r.since[id],
                                         Outcome(r.net, r.signatures[id]))
  BY <1>3, <1>5 DEF Queried
<1>6. ASSUME NEW id \in TxIds, Hit(id)
      PROVE  New(id) \in Metas
  BY <1>5, <1>6, SettledOK DEF New
<1>7. TypeOK'
  <2>1. txs' \in [Networks -> [TxIds -> Metas \cup {NoTx}]]
    <3>1. \A id \in TxIds, net \in Networks :
            Row(net, id)' \in Metas \cup {NoTx}
      BY <1>4, <1>6, RowType
    <3>2. txs' = [net \in Networks |-> [id \in TxIds |-> Row(net, id)']]
      BY <1>2, <1>3 DEF TypeOK, Row, Store
    <3> QED BY <3>1, <3>2
  <2> QED BY <1>1, <1>2, <2>1 DEF TypeOK, IsStatusRequest
<1>8. UNCHANGED Chains
  BY <1>1 DEF Chains
<1>9. ASSUME NEW id \in TxIds
      PROVE  IdStep(id)
  <2>1. /\ Requested(id)' = Requested(id) /\ Held(id)' = Held(id)
        /\ Sent(id)' = Sent(id) /\ Queried(id)' \subseteq Queried(id)
        /\ Traces(id)' = Traces(id)
    BY <1>1, <1>2 DEF Requested, Held, Sent, Queried, Traces
  <2>2. CASE ~Hit(id)
    <3>1. \A net \in Networks : Row(net, id)' = Row(net, id)
      BY <1>4, <2>2
    <3> QED BY <1>1, <1>8, <2>1, <3>1, QuietStep DEF Quiet, Steady
  <2>3. CASE Hit(id)
    <3>1. /\ r \in Queried(id) /\ IdOK(id)
          /\ ~Idle(id) /\ ~Clean(id) /\ Stored(network, id)
      BY <1>5, <2>3 DEF IInv, Idle, Clean
    <3>2. \A net \in Networks : Stored(net, id) => net = network
      BY <3>1 DEF IdOK, OneHome
    <3>3. /\ Requested(id) = {} /\ Held(id) = {} /\ Sent(id) = {}
          /\ id \in used
      BY <3>1 DEF IdOK, OneStage, Unused
    <3>4. PICK row \in Metas :
            /\ row = New(id)
            /\ row.id = id /\ row.signature = r.signatures[id]
            /\ row.status \notin {"Unapproved", "Approved"}
            /\ row.expiry # 0 => /\ row.blockhash # NoBlockhash
                                 /\ row.expiry = LastValid(row.blockhash)
            /\ row.signature \in Messages /\ row.signature.what = id
            /\ row.signature.blockhash = row.blockhash
            /\ row.status = "Dropped" =>
                 /\ row.signature \notin executed[network]
                 /\ ~CanExecute(network, row.signature)
            /\ row.status = "Confirmed" =>
                 row.signature \in finalized[network] \ failed[network]
            /\ row.status = "Error" => row.signature \in failed[network]
            /\ Row(network, id).status \in SettledStatuses =>
                 row.status = Row(network, id).status
      BY <1>5, <2>3, <3>1, SettledOK DEF New
    <3>5. /\ Row(network, id)' = row
          /\ \A net \in Networks \ {network} : Row(net, id)' = Row(net, id)
      BY <1>1, <1>2, <1>4, <2>3, <3>4 DEF Row
    <3>6. row # NoTx /\ row.signature # NoSignature
      BY <3>4, NoTxAssumption, NoSignatureAssumption
    <3>7. \A net \in Networks : Stored(net, id)' => net = network
      BY <3>2, <3>5 DEF Stored
    <3>8. RowsOK(id)'
      <4>1. RowOK(network, id)'
        BY <1>1, <3>4, <3>5, <3>6 DEF RowOK, LastValid, CanExecute
      <4> QED BY <1>1, <3>7, <4>1 DEF RowsOK
    <3>9. OneHome(id)'
      BY <1>1, <3>7 DEF OneHome
    <3>10. OneStage(id)'
      <4>1. \A net \in Networks : Stored(net, id)' =>
              Row(net, id)'.status # "Unapproved"
        BY <1>1, <3>4, <3>5, <3>7 DEF Row
      <4> QED BY <2>1, <3>3, <4>1 DEF OneStage
    <3>11. CopiesOK(id)'
      BY <2>1, <3>3 DEF CopiesOK
    <3>12. QueriesOK(id)'
      <4>1. Row(network, id).signature = row.signature
        BY <3>1, <3>4 DEF IdOK, QueriesOK
      <4>2. \A q : Foretold(q, id)' = Foretold(q, id)
        BY <1>1 DEF Foretold
      <4> SUFFICES ASSUME NEW q \in Queried(id)
                   PROVE  /\ q.net = network /\ q.height <= height[network]
                          /\ row.signature = q.signatures[id]
                          /\ Foretold(q, id)
        BY <1>1, <2>1, <3>5, <4>2 DEF QueriesOK
      <4> QED BY <3>1, <4>1 DEF QueriesOK, IdOK
    <3>13. OneMessage(id)' /\ (id \notin used' => Unused(id)')
      BY <1>1, <2>1, <3>1, <3>3 DEF IdOK, OneMessage
    <3>14. KeptSettled(id)
      BY <1>1, <3>2, <3>4, <3>5 DEF KeptSettled, Row
    <3> QED BY <3>8, <3>9, <3>10, <3>11, <3>12, <3>13, <3>14 DEF IdStep, IdOK
  <2> QED BY <2>2, <2>3
<1> QED BY <1>1, <1>7, <1>8, <1>9, Together

-----------------------------------------------------------------------------
(* The theorems.                                                           *)

LEMMA InitInv ==
  Init => IInv
<1> SUFFICES ASSUME Init PROVE IInv
  OBVIOUS
<1> USE DEF Init, Fresh
<1>1. TypeOK
  <2>1. txs \in [Networks -> [TxIds -> Metas \cup {NoTx}]]
    BY DEF EmptyStore
  <2>2. notices \in Seq(KeyringNotices)
    OBVIOUS
  <2>3. height \in [Networks -> 0 .. MaxHeight]
    BY BoundsAssumption
  <2> QED BY <2>1, <2>2, <2>3, NetworksAssumption DEF TypeOK
<1>2. ChainsOK /\ AtHome
  BY DEF ChainsOK, AtHome
<1>3. ASSUME NEW id \in TxIds
      PROVE  IdOK(id)
  <2>1. /\ Requested(id) = {} /\ Held(id) = {} /\ Sent(id) = {}
        /\ Queried(id) = {} /\ Traces(id) = {}
        /\ \A net \in Networks : ~Stored(net, id)
    BY DEF Requested, Held, Sent, Queried, Traces, Stored, Row, EmptyStore
  <2> QED BY <2>1 DEF IdOK, RowsOK, OneHome, OneStage, CopiesOK, QueriesOK,
                      OneMessage, Unused, Idle
<1> QED BY <1>1, <1>2, <1>3 DEF IInv

LEMMA NextInv ==
  ASSUME PlainUse, IInv, [Next]_vars
  PROVE  StepOK
<1>1. CASE UNCHANGED vars
  <2>1. UNCHANGED <<env, network, txs, used, locked, notices, running,
                    knownNoPending, latest, blockhashRpc, device, sendRpc,
                    heightRpc, statusRpc, height, pool, executed, failed,
                    finalized>>
    BY <1>1 DEF vars, prefsVars, keyringVars, timerVars, networkVars
  <2>2. TypeOK'
    BY <2>1 DEF IInv, TypeOK, IsStatusRequest
  <2>3. \A id \in TxIds : Quiet(id)
    BY <2>1, AllQuiet DEF IInv
  <2> QED BY <2>1, <2>2, <2>3, QuietTogether DEF Chains
<1>2. CASE \E id \in TxIds, given \in BOOLEAN :
             AddUnapprovedTransaction(id, given)
  BY <1>2, AddStep
<1>3. CASE \E id \in TxIds : RejectTransaction(id)
  BY <1>3, RejectStep
<1>4. CASE \E id \in TxIds : \/ ApproveTransaction(id)
                             \/ GetTransactionMessageToSign(id)
  BY <1>4, ApproveStep
<1>5. CASE PollLatestBlockhash \/ \E id \in TxIds : GetEstimatedTxFee(id)
  BY <1>5, AskStep
<1>6. CASE \/ \E d \in device : DeviceDeclines(d)
           \/ \E r \in blockhashRpc : GetLatestBlockhashFails(r)
           \/ \E net \in Networks : GetBlockHeightFails(net)
           \/ \E r \in statusRpc : GetSignatureStatusesFails(r)
  BY <1>6, GiveUpStep
<1>7. CASE \E d \in device : ProcessSolanaHardwareSignature(d)
  BY <1>7, DeviceStep
<1>8. CASE \E r \in sendRpc : NodeAccepts(r) \/ NodeRefuses(r)
  BY <1>8, NodeStep
<1>9. CASE \E r \in sendRpc : OnSendSolanaTransaction(r)
  BY <1>9, SentAnswerStep
<1>10. CASE \E r \in blockhashRpc : OnGetLatestBlockhash(r)
  BY <1>10, BlockhashStep
<1>11. CASE \E net \in Networks : OnGetBlockHeight(net)
  BY <1>11, HeightStep
<1>12. CASE \E r \in statusRpc : OnGetSignatureStatuses(r)
  BY <1>12, StatusStep
<1>13. CASE \/ Lock
            \/ \E notice \in {"Unlocked", "KeyringCreated"} : Unlock(notice)
            \/ OnKeyringNotice
  BY <1>13, KeyringStep
<1>14. CASE \E net \in Networks : SetNetwork(net)
  BY <1>14, SetNetworkStep
<1>15. CASE Reset
  BY <1>15, ResetStep
<1>16. CASE Restart
  BY <1>16, RestartStep
<1>17. CASE \E net \in Networks :
              \/ NextBlock(net)
              \/ \E m \in pool[net] :
                   \/ \E fails \in BOOLEAN : Execute(net, m, fails)
                   \/ Finalize(net, m)
  BY <1>17, NetworksStep
<1> QED BY <1>1, <1>2, <1>3, <1>4, <1>5, <1>6, <1>7, <1>8, <1>9, <1>10,
           <1>11, <1>12, <1>13, <1>14, <1>15, <1>16, <1>17 DEF Next

(***************************************************************************)
(* IInv holds in every reachable state: the rows, requests and messages of *)
(* a record that is approved once stay in step through late rejections,    *)
(* answers, failures, locks, resets, restarts and changes of network.      *)
(***************************************************************************)
THEOREM Invariance ==
  ASSUME PlainUse
  PROVE  Spec => []IInv
<1>1. IInv /\ [Next]_vars => IInv'
  BY NextInv DEF StepOK
<1> QED BY <1>1, InitInv, PTL DEF Spec

(***************************************************************************)
(* The records, the requests and what is on the networks keep their types. *)
(***************************************************************************)
THEOREM TypeCorrect ==
  ASSUME PlainUse
  PROVE  Spec => []TypeOK
<1>1. IInv => TypeOK
  BY DEF IInv
<1> QED BY <1>1, Invariance, PTL

(***************************************************************************)
(* What OnGetSignatureStatuses has dropped was not executed and never will *)
(* be, however late heights and statuses are answered.                     *)
(***************************************************************************)
THEOREM DroppedNeverExecutesAlways ==
  ASSUME PlainUse
  PROVE  Spec => []DroppedNeverExecutes
<1>1. IInv => DroppedNeverExecutes
  BY DEF IInv, IdOK, RowsOK, RowOK, DroppedNeverExecutes, IdsByStatus, Row,
         Stored
<1> QED BY <1>1, Invariance, PTL

(***************************************************************************)
(* What OnGetSignatureStatuses has confirmed is the record's own message,  *)
(* executed without error and final.                                       *)
(***************************************************************************)
THEOREM ConfirmedIsFinalAlways ==
  ASSUME PlainUse
  PROVE  Spec => []ConfirmedIsFinal
<1>1. ASSUME IInv, NEW net \in Networks,
             NEW id \in IdsByStatus(txs[net], {"Confirmed"})
      PROVE  /\ txs[net][id].signature \in finalized[net] \ failed[net]
             /\ txs[net][id].signature.what = id
  <2>1. /\ id \in TxIds /\ RowOK(net, id)
        /\ Row(net, id).status = "Confirmed"
    BY <1>1 DEF IInv, IdOK, RowsOK, IdsByStatus, Row, Stored
  <2>2. Row(net, id).signature \in finalized[net] \ failed[net]
    BY <2>1 DEF RowOK
  <2>3. Row(net, id).signature # NoSignature
    BY <1>1, <2>2, NoSignatureAssumption DEF IInv, TypeOK
  <2> QED BY <2>1, <2>2, <2>3 DEF RowOK, Row
<1>2. IInv => ConfirmedIsFinal
  BY <1>1 DEF ConfirmedIsFinal
<1> QED BY <1>2, Invariance, PTL

(***************************************************************************)
(* No payment of a record that is approved once is executed as two         *)
(* messages, on any of the networks together.                              *)
(***************************************************************************)
THEOREM PaidAtMostOnceAlways ==
  ASSUME PlainUse
  PROVE  Spec => []PaidAtMostOnce
<1>1. ASSUME IInv, NEW net1 \in Networks, NEW net2 \in Networks,
             NEW m1 \in executed[net1], NEW m2 \in executed[net2],
             m1.what = m2.what
      PROVE  m1 = m2
  <2>1. /\ m1 \in Messages /\ m2 \in Messages
        /\ m1 \in pool[net1] /\ m2 \in pool[net2]
    BY <1>1 DEF IInv, TypeOK, ChainsOK
  <2>2. PICK id \in TxIds : id = m1.what
    BY <2>1 DEF Messages
  <2>3. m1 \in Traces(id) /\ m2 \in Traces(id)
    BY <1>1, <2>1, <2>2 DEF Traces
  <2> QED BY <1>1, <2>3 DEF IInv, IdOK, OneMessage
<1>2. IInv => PaidAtMostOnce
  BY <1>1 DEF PaidAtMostOnce
<1> QED BY <1>2, Invariance, PTL

(***************************************************************************)
(* No answer changes the status of a record that has been settled; a       *)
(* rejection from an old list of the panel may.                            *)
(***************************************************************************)
THEOREM SettledStaysSettledAlways ==
  ASSUME PlainUse
  PROVE  Spec => SettledStaysSettled
<1> DEFINE Kept ==
      \A net \in Networks :
        \A id \in IdsByStatus(txs[net], {"Confirmed", "Dropped", "Error"}) :
          txs'[net][id] # NoTx =>
            \/ txs'[net][id].status = txs[net][id].status
            \/ "LateReject" \in env /\ txs'[net][id].status = "Rejected"
<1>1. IInv /\ [Next]_vars => Kept
  <2> SUFFICES ASSUME IInv, [Next]_vars PROVE Kept
    OBVIOUS
  <2>1. \A id \in TxIds : KeptSettled(id)
    BY NextInv DEF StepOK
  <2> QED BY <2>1 DEF KeptSettled, SettledStatuses, IdsByStatus, Row, Stored
<1>2. IInv /\ [Next]_vars => [Kept]_vars
  BY <1>1
<1> QED BY <1>2, Invariance, PTL DEF Spec, SettledStaysSettled

-----------------------------------------------------------------------------
(* Polling.                                                                *)

PendingIds == IdsByStatus(Store, {"Submitted"})

\* Why the tracker runs: that nothing is pending is only believed of submitted
\* records until the height that was asked for arrives.
PollInv ==
  env \cap {"HeightError", "SwitchNetwork"} = {} /\ PendingIds # {} =>
    /\ knownNoPending => heightRpc # {}
    /\ ~locked => running \/ heightRpc # {} \/ notices # <<>>

\* No record becomes submitted, or the manager asks for the height.
NoneNew ==
  /\ PendingIds' \subseteq PendingIds \/ heightRpc' # {}
  /\ heightRpc \subseteq heightRpc'

LEMMA PollQuiet ==
  ASSUME PollInv, NoneNew, UNCHANGED <<env, locked, notices, timerVars>>
  PROVE  PollInv'
BY DEF PollInv, NoneNew, timerVars

\* Saving a record that is not submitted submits none.
LEMMA SaveNoneNew ==
  ASSUME TypeOK, NEW meta \in Metas, Save(meta), meta.status # "Submitted",
         network' = network
  PROVE  PendingIds' \subseteq PendingIds
<1>1. /\ network \in Networks
      /\ \A id \in TxIds : Row(network, id)' \in {NoTx, meta, Row(network, id)}
  BY SaveEffect DEF TypeOK
<1> QED BY <1>1 DEF PendingIds, IdsByStatus, Store, Row

LEMMA SameNoneNew ==
  ASSUME UNCHANGED <<network, txs>>
  PROVE  PendingIds' \subseteq PendingIds
BY DEF PendingIds, IdsByStatus, Store

LEMMA PollUses ==
  ASSUME TypeOK, NEW purpose, NEW meta, NEW queue,
         NEW blockhash \in Blockhashes,
         NEW expiry \in Nat, network' = network,
         Uses(purpose, meta, queue, blockhash, expiry),
         purpose # "none" => meta \in Metas /\ meta.status = "Unapproved"
  PROVE  PendingIds' \subseteq PendingIds
<1>1. CASE purpose = "none"
  BY <1>1, SameNoneNew DEF Uses
<1>2. CASE purpose # "none"
  <2> DEFINE signed == [meta EXCEPT !.status = "Approved",
                                    !.blockhash = blockhash, !.expiry = expiry]
             kept   == [meta EXCEPT !.blockhash = blockhash, !.expiry = expiry]
  <2>1. /\ signed \in Metas /\ signed.status = "Approved"
        /\ kept \in Metas /\ kept.status = "Unapproved"
    BY <1>2 DEF Metas, Status
  <2>2. Save(signed) \/ Save(kept)
    BY <1>2 DEF Uses, SignAndSend, MessageToSign
  <2> HIDE DEF signed, kept
  <2> QED BY <2>1, <2>2, SaveNoneNew
<1> QED BY <1>1, <1>2

LEMMA PollApprove ==
  ASSUME IInv, PollInv, NEW id \in TxIds,
         ApproveTransaction(id) \/ GetTransactionMessageToSign(id)
  PROVE  PollInv'
<1>1. /\ UNCHANGED <<env, network, locked, notices, timerVars, heightRpc>>
      /\ \E purpose \in {"sign", "device"} : WithBlockhash(id, purpose)
      /\ HasStatus(id, "Unapproved")
  BY DEF ApproveTransaction, GetTransactionMessageToSign, keyringVars,
         PanelOffersApproval
<1>2. TypeOK /\ network \in Networks
  BY DEF IInv, TypeOK
<1>3. Store[id] \in Metas /\ Store[id].status = "Unapproved"
  BY <1>1, <1>2, RowType DEF HasStatus, Found, Row, Stored, Store
<1>4. PICK purpose \in {"sign", "device"} : WithBlockhash(id, purpose)
  BY <1>1
<1>5. CASE Store[id].blockhash # NoBlockhash
  <2>1. Store[id].blockhash \in Blockhashes
    BY <1>3, <1>5 DEF Metas
  <2>2. Uses(purpose, Store[id], QueueLength, Store[id].blockhash, 0)
    BY <1>4, <1>5 DEF WithBlockhash
  <2>3. PendingIds' \subseteq PendingIds
    BY <1>1, <1>2, <1>3, <2>1, <2>2, PollUses
  <2> QED BY <1>1, <2>3, PollQuiet DEF NoneNew
<1>6. CASE Store[id].blockhash = NoBlockhash /\ Cached
  <2>1. latest \in Blockhashes /\ LastValid(latest) \in Nat
    BY <1>2, <1>6, ExpiryType DEF TypeOK, Cached
  <2>2. Uses(purpose, Store[id], QueueLength, latest, LastValid(latest))
    BY <1>4, <1>6 DEF WithBlockhash
  <2>3. PendingIds' \subseteq PendingIds
    BY <1>1, <1>2, <1>3, <2>1, <2>2, PollUses
  <2> QED BY <1>1, <2>3, PollQuiet DEF NoneNew
<1>7. CASE Store[id].blockhash = NoBlockhash /\ ~Cached
  <2>1. txs' = txs
    BY <1>4, <1>7 DEF WithBlockhash
  <2> QED BY <1>1, <2>1, SameNoneNew, PollQuiet DEF NoneNew
<1> QED BY <1>5, <1>6, <1>7

LEMMA PollBlockhash ==
  ASSUME IInv, PollInv, NEW r \in blockhashRpc, OnGetLatestBlockhash(r)
  PROVE  PollInv'
<1> DEFINE answer == LatestBlockhash(r.net)
<1>1. /\ UNCHANGED <<env, network, locked, notices, timerVars>>
      /\ Uses(r.purpose, r.meta, r.queue, answer, LastValid(answer))
      /\ heightRpc \subseteq heightRpc'
  BY DEF OnGetLatestBlockhash, keyringVars, UpdatePendingTransactions
<1>2. TypeOK /\ r \in BlockhashRequests
  BY DEF IInv, TypeOK
<1>3. answer \in Blockhashes /\ LastValid(answer) \in Nat
  BY <1>2, ExpiryType DEF TypeOK, BlockhashRequests, LatestBlockhash,
     Blockhashes
<1>4. ASSUME r.purpose # "none"
      PROVE  r.meta \in Metas /\ r.meta.status = "Unapproved"
  <2>1. r.meta \in Metas /\ r.meta.id \in TxIds
    BY <1>2, <1>4 DEF BlockhashRequests, Metas
  <2>2. r \in Requested(r.meta.id)
    BY <1>4 DEF Requested
  <2> QED BY <2>1, <2>2 DEF IInv, IdOK, CopiesOK
<1> HIDE DEF answer
<1>5. PendingIds' \subseteq PendingIds
  BY <1>1, <1>2, <1>3, <1>4, PollUses
<1> QED BY <1>1, <1>5, PollQuiet DEF NoneNew

LEMMA PollSent ==
  ASSUME IInv, PollInv, NEW r \in sendRpc, OnSendSolanaTransaction(r)
  PROVE  PollInv'
<1>1. /\ UNCHANGED <<env, network, locked, notices, timerVars>>
      /\ heightRpc \subseteq heightRpc'
  BY DEF OnSendSolanaTransaction, keyringVars, UpdatePendingTransactions
<1>2. TypeOK /\ network \in Networks /\ r.id \in TxIds
  BY DEF IInv, TypeOK, SendRequests
<1>3. CASE ~Found(r.id) /\ UNCHANGED <<txs, heightRpc>>
  BY <1>1, <1>3, SameNoneNew, PollQuiet DEF NoneNew
<1>4. CASE UpdatePendingTransactions
  BY <1>1, <1>4, PollQuiet DEF NoneNew, UpdatePendingTransactions
<1>5. CASE Found(r.id) /\ Save([Store[r.id] EXCEPT !.status = "Error"])
  <2> DEFINE meta == [Store[r.id] EXCEPT !.status = "Error"]
  <2>1. Store[r.id] \in Metas
    BY <1>2, <1>5, RowType DEF Found, Row, Stored, Store
  <2>2. meta \in Metas /\ meta.status = "Error"
    BY <2>1 DEF Metas, Status
  <2>3. Save(meta)
    BY <1>5
  <2> HIDE DEF meta
  <2>4. PendingIds' \subseteq PendingIds
    BY <1>1, <1>2, <2>2, <2>3, SaveNoneNew
  <2> QED BY <1>1, <2>4, PollQuiet DEF NoneNew
<1> QED BY <1>3, <1>4, <1>5 DEF OnSendSolanaTransaction

LEMMA PollSaves ==
  ASSUME IInv, PollInv,
         \/ \E id \in TxIds : \/ RejectTransaction(id)
                              \/ \E given \in BOOLEAN :
                                   AddUnapprovedTransaction(id, given)
         \/ \E d \in device : ProcessSolanaHardwareSignature(d)
  PROVE  PollInv'
<1>1. /\ UNCHANGED <<env, network, locked, notices, timerVars, heightRpc>>
  BY DEF RejectTransaction, AddUnapprovedTransaction, keyringVars,
     ProcessSolanaHardwareSignature
<1>2. TypeOK /\ network \in Networks
  BY DEF IInv, TypeOK
<1>3. ASSUME NEW meta \in Metas, meta.status # "Submitted", Save(meta)
      PROVE  PollInv'
  <2>1. PendingIds' \subseteq PendingIds
    BY <1>1, <1>2, <1>3, SaveNoneNew
  <2> QED BY <1>1, <2>1, PollQuiet DEF NoneNew
<1>4. ASSUME NEW id \in TxIds, NEW given \in BOOLEAN,
             AddUnapprovedTransaction(id, given)
      PROVE  PollInv'
  <2> DEFINE row == [id |-> id, status |-> "Unapproved",
                     signature |-> NoSignature,
                     blockhash |-> IF given THEN LatestBlockhash(network)
                                            ELSE NoBlockhash,
                     expiry |-> 0, createdTime |-> Cardinality(used) + 1,
                     confirmedTime |-> 0]
  <2>1. Cardinality(used) + 1 \in Nat
    <3>1. IsFiniteSet(used)
      BY <1>2, TxIdsAssumption, FS_Subset DEF TypeOK
    <3> QED BY <3>1, FS_CardinalityType
  <2>2. LatestBlockhash(network) \in Blockhashes
    BY <1>2 DEF TypeOK, LatestBlockhash, Blockhashes
  <2>3. row \in Metas /\ row.status = "Unapproved"
    BY <2>1, <2>2 DEF Metas, Status
  <2>4. Save(row)
    BY <1>4 DEF AddUnapprovedTransaction
  <2> HIDE DEF row
  <2> QED BY <1>3, <2>3, <2>4
<1>5. ASSUME NEW id \in TxIds, Found(id),
             NEW status \in {"Rejected", "Approved"},
             Save([Store[id] EXCEPT !.status = status])
      PROVE  PollInv'
  <2> DEFINE meta == [Store[id] EXCEPT !.status = status]
  <2>1. Store[id] \in Metas
    BY <1>2, <1>5, RowType DEF Found, Row, Stored, Store
  <2>2. meta \in Metas /\ meta.status # "Submitted"
    BY <2>1 DEF Metas, Status
  <2>3. Save(meta)
    BY <1>5
  <2> HIDE DEF meta
  <2> QED BY <1>3, <2>2, <2>3
<1>6. ASSUME NEW id \in TxIds, RejectTransaction(id)
      PROVE  PollInv'
  BY <1>5, <1>6 DEF RejectTransaction, HasStatus
<1>7. ASSUME NEW d \in device, ProcessSolanaHardwareSignature(d)
      PROVE  PollInv'
  <2>1. d.id \in TxIds
    BY <1>2 DEF TypeOK
  <2>2. CASE Found(d.id)
    BY <1>5, <1>7, <2>1, <2>2 DEF ProcessSolanaHardwareSignature
  <2>3. CASE ~Found(d.id)
    <3>1. txs' = txs
      BY <1>7, <2>3 DEF ProcessSolanaHardwareSignature
    <3> QED BY <1>1, <3>1, SameNoneNew, PollQuiet DEF NoneNew
  <2> QED BY <2>2, <2>3
<1> QED BY <1>4, <1>6, <1>7

\* OnGetBlockHeight looks at what is pending, and starts the tracker for it.
LEMMA PollHeight ==
  ASSUME PollInv, NEW net \in Networks, OnGetBlockHeight(net)
  PROVE  PollInv'
<1>1. /\ UNCHANGED <<env, network, txs, locked, notices>>
      /\ knownNoPending' = (PendingIds = {})
      /\ running' = CheckIfBlockTrackerShouldRun(locked, running,
                                                 PendingIds = {})
  BY DEF OnGetBlockHeight, prefsVars, keyringVars, PendingIds
<1>2. PendingIds' = PendingIds
  BY <1>1 DEF PendingIds, IdsByStatus, Store
<1>3. PendingIds # {} /\ ~locked => running' /\ ~knownNoPending'
  BY <1>1 DEF CheckIfBlockTrackerShouldRun
<1> QED BY <1>1, <1>2, <1>3 DEF PollInv

LEMMA PollStatus ==
  ASSUME IInv, PollInv, NEW r \in statusRpc, OnGetSignatureStatuses(r)
  PROVE  PollInv'
<1>1. /\ UNCHANGED <<env, network, locked, notices, timerVars, heightRpc>>
      /\ network \in Networks /\ TypeOK
  BY DEF OnGetSignatureStatuses, keyringVars, IInv, TypeOK
<1>2. PICK answer \in [DOMAIN r.signatures -> Outcomes] :
        txs' = [txs EXCEPT ![network] =
                  [id \in TxIds |->
                     IF id \in DOMAIN answer /\ Found(id)
                     THEN Settled(Store[id], answer[id], r.height,
                                  height[network])
                     ELSE Store[id]]]
  BY DEF OnGetSignatureStatuses
<1>3. ASSUME NEW meta \in Metas, NEW outcome, NEW asOf, NEW now,
             Settled(meta, outcome, asOf, now).status = "Submitted"
      PROVE  meta.status = "Submitted"
  <2>1. Settled(meta, outcome, asOf, now) = meta
    BY <1>3 DEF Settled, Metas
  <2> QED BY <1>3, <2>1
<1>4. ASSUME NEW id \in PendingIds'
      PROVE  id \in PendingIds
  <2>1. /\ id \in TxIds /\ Row(network, id)' # NoTx
        /\ Row(network, id)'.status = "Submitted"
    BY <1>1, <1>4 DEF PendingIds, IdsByStatus, Store, Row
  <2>2. Row(network, id)' = IF id \in DOMAIN answer /\ Found(id)
                            THEN Settled(Store[id], answer[id], r.height,
                                         height[network])
                            ELSE Store[id]
    BY <1>1, <1>2, <2>1 DEF TypeOK, Row
  <2>3. Found(id) /\ Store[id].status = "Submitted"
    <3>1. CASE id \in DOMAIN answer /\ Found(id)
      <4>1. Store[id] \in Metas
        BY <1>1, <2>1, <3>1, RowType DEF Found, Row, Stored, Store
      <4> QED BY <1>3, <2>1, <2>2, <3>1, <4>1
    <3>2. CASE ~(id \in DOMAIN answer /\ Found(id))
      BY <2>1, <2>2, <3>2 DEF Found
    <3> QED BY <3>1, <3>2
  <2> QED BY <2>1, <2>3 DEF PendingIds, IdsByStatus, Found
<1> QED BY <1>1, <1>4, PollQuiet DEF NoneNew

\* A notice handled while nothing runs starts the tracker or asks for the
\* height; one that stops it is only followed when the height is on its way.
LEMMA PollKeyring ==
  ASSUME IInv, PollInv,
         \/ Lock
         \/ \E notice \in {"Unlocked", "KeyringCreated"} : Unlock(notice)
         \/ OnKeyringNotice
  PROVE  PollInv'
<1>1. UNCHANGED <<env, network, txs, knownNoPending>>
  BY DEF Lock, Unlock, OnKeyringNotice, prefsVars, timerVars
<1>2. PendingIds' = PendingIds
  BY <1>1 DEF PendingIds, IdsByStatus, Store
<1>3. notices \in Seq(KeyringNotices)
  BY DEF IInv, TypeOK
<1>4. CASE Lock
  BY <1>1, <1>2, <1>4 DEF Lock, PollInv
<1>5. ASSUME NEW notice, Unlock(notice)
      PROVE  PollInv'
  <2>1. notices' # <<>> /\ heightRpc' = heightRpc
    BY <1>3, <1>5 DEF Unlock
  <2> QED BY <1>1, <1>2, <2>1 DEF PollInv
<1>6. CASE OnKeyringNotice
  <2>1. /\ locked' = locked /\ heightRpc \subseteq heightRpc'
        /\ UpdatesPending(Head(notices)) => heightRpc' # {}
        /\ ChecksTracker(Head(notices)) =>
             running' = CheckIfBlockTrackerShouldRun(locked, running,
                                                     knownNoPending)
    BY <1>6 DEF OnKeyringNotice, UpdatePendingTransactions
  <2>2. Head(notices) \in KeyringNotices
    BY <1>3, <1>6 DEF OnKeyringNotice
  <2>3. ChecksTracker(Head(notices)) \/ UpdatesPending(Head(notices))
    BY <2>2 DEF ChecksTracker, UpdatesPending, KeyringNotices
  <2> QED BY <1>1, <1>2, <2>1, <2>3
          DEF PollInv, CheckIfBlockTrackerShouldRun
<1> QED BY <1>4, <1>5, <1>6

LEMMA PollForgets ==
  ASSUME IInv, PollInv, Reset \/ Restart
  PROVE  PollInv'
<1>1. CASE Reset
  <2>1. PendingIds' = {}
    BY <1>1, NetworksAssumption
       DEF Reset, PendingIds, IdsByStatus, Store, EmptyStore
  <2> QED BY <2>1 DEF PollInv
<1>2. CASE Restart
  BY <1>2 DEF Restart, PollInv
<1> QED BY <1>1, <1>2

LEMMA PollInit ==
  ASSUME Init
  PROVE  PollInv
<1>1. PendingIds = {}
  BY NetworksAssumption DEF Init, PendingIds, IdsByStatus, Store, EmptyStore
<1> QED BY <1>1 DEF PollInv

LEMMA PollNext ==
  ASSUME IInv, PollInv, [Next]_vars
  PROVE  PollInv'
<1>1. ASSUME UNCHANGED <<env, network, txs, locked, notices, timerVars>>,
             heightRpc \subseteq heightRpc'
      PROVE  PollInv'
  BY <1>1, SameNoneNew, PollQuiet DEF NoneNew
<1>2. CASE UNCHANGED vars
  BY <1>1, <1>2 DEF vars, prefsVars, keyringVars
<1>3. CASE \/ \E id \in TxIds : GetEstimatedTxFee(id)
           \/ PollLatestBlockhash
           \/ \E d \in device : DeviceDeclines(d)
           \/ \E r \in blockhashRpc : GetLatestBlockhashFails(r)
           \/ \E r \in statusRpc : GetSignatureStatusesFails(r)
  BY <1>1, <1>3 DEF GetEstimatedTxFee, PollLatestBlockhash, DeviceDeclines,
     GetLatestBlockhashFails, GetSignatureStatusesFails, prefsVars, keyringVars
<1>4. CASE \/ \E r \in sendRpc : NodeAccepts(r) \/ NodeRefuses(r)
           \/ \E net \in Networks :
                \/ NextBlock(net)
                \/ \E m \in pool[net] :
                     \/ \E fails \in BOOLEAN : Execute(net, m, fails)
                     \/ Finalize(net, m)
  BY <1>1, <1>4 DEF NodeAccepts, NodeRefuses, NextBlock, Execute, Finalize,
     prefsVars, keyringVars
<1>5. CASE \E net \in Networks : GetBlockHeightFails(net) \/ SetNetwork(net)
  BY <1>5 DEF GetBlockHeightFails, SetNetwork, PollInv
<1>6. CASE \E id \in TxIds : \/ ApproveTransaction(id)
                             \/ GetTransactionMessageToSign(id)
  BY <1>6, PollApprove
<1>7. CASE \/ \E id \in TxIds : \/ RejectTransaction(id)
                                \/ \E given \in BOOLEAN :
                                     AddUnapprovedTransaction(id, given)
           \/ \E d \in device : ProcessSolanaHardwareSignature(d)
  BY <1>7, PollSaves
<1>8. CASE \/ \E r \in sendRpc : OnSendSolanaTransaction(r)
           \/ \E r \in blockhashRpc : OnGetLatestBlockhash(r)
           \/ \E net \in Networks : OnGetBlockHeight(net)
           \/ \E r \in statusRpc : OnGetSignatureStatuses(r)
  BY <1>8, PollSent, PollBlockhash, PollHeight, PollStatus
<1>9. CASE \/ Lock
           \/ \E notice \in {"Unlocked", "KeyringCreated"} : Unlock(notice)
           \/ OnKeyringNotice \/ Reset \/ Restart
  BY <1>9, PollKeyring, PollForgets
<1> QED BY <1>2, <1>3, <1>4, <1>5, <1>6, <1>7, <1>8, <1>9 DEF Next

(***************************************************************************)
(* With the height within reach and one network, an unlocked wallet with   *)
(* something submitted polls, or is about to.                              *)
(***************************************************************************)
THEOREM TrackerRunsAlways ==
  ASSUME PlainUse
  PROVE  Spec => []TrackerRuns
<1>1. Init => PollInv
  BY PollInit
<1>2. IInv /\ PollInv /\ [Next]_vars => PollInv'
  BY PollNext
<1>3. PollInv => TrackerRuns
  BY DEF PollInv, TrackerRuns, PendingIds
<1> QED BY <1>1, <1>2, <1>3, Invariance, PTL DEF Spec
=============================================================================
