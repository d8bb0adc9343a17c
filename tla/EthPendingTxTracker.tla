------------------------ MODULE EthPendingTxTracker -------------------------
(***************************************************************************)
(* Follows submitted and signed Ethereum transactions until the chain has  *)
(* decided on them (eth_pending_tx_tracker.cc).  Pure operators over a     *)
(* store and the tracker's two maps; EthTxManager holds the variables.     *)
(***************************************************************************)
EXTENDS TxStateManager

CONSTANT NoNonce  \* the nonce of a transaction that has none yet

\* Blocks a failed receipt is seen for before the transaction is dropped.
DroppedBlocks == 3

PendingIds(store) == IdsByStatus(store, {"Submitted", "Signed"})

\* The wrong way: trusting what is only submitted.
IsNonceTakenBySubmitted(store, id) ==
  \E other \in IdsByStatus(store, {"Confirmed", "Submitted"}) :
     other # id /\ store[other].tx.nonce = store[id].tx.nonce

\* Another transaction of this network, of whatever account, is confirmed
\* with the same nonce.
IsNonceTaken(store, id) ==
  \E other \in IdsByStatus(store, {"Confirmed"}) :
     other # id /\ store[other].tx.nonce = store[id].tx.nonce

NonceTakenIds(store) == {id \in PendingIds(store) : IsNonceTaken(store, id)}

\* The wrong way: keeping them, with the status the enumeration has for them.
MarkNonceTaken(store) ==
  [id \in TxIds |-> IF id \in NonceTakenIds(store)
                    THEN [store[id] EXCEPT !.status = "Dropped"]
                    ELSE store[id]]

\* The store once UpdatePendingTransactions has dropped what can no longer
\* be mined.
DropNonceTaken(store) ==
  [id \in TxIds |-> IF id \in NonceTakenIds(store) THEN NoTx ELSE store[id]]

\* dropped_blocks_counter_[hash]; the code inserts a 0 where there is none.
DroppedCount(counter, hash) ==
  IF hash \in DOMAIN counter THEN counter[hash] ELSE 0

\* The network nonce cached for the account is above the transaction's; an
\* absent nonce is below every nonce.
NonceBelowNetwork(nonceMap, meta) ==
  LET cached == nonceMap[meta.tx.what.from]
  IN  cached # NoNonce /\ (meta.tx.nonce = NoNonce \/ meta.tx.nonce < cached)

ShouldTxDropped(nonceMap, counter, meta) ==
  \/ NonceBelowNetwork(nonceMap, meta)
  \/ DroppedCount(counter, meta.hash) >= DroppedBlocks

\* The wrong way: a counter nobody advances.
CounterUntouched(nonceMap, counter, meta) == counter

\* dropped_blocks_counter_ after ShouldTxDropped: untouched when the nonce
\* decided, erased when the counter did, one higher otherwise.
CounterAfter(nonceMap, counter, meta) ==
  IF NonceBelowNetwork(nonceMap, meta)
  THEN counter
  ELSE IF DroppedCount(counter, meta.hash) >= DroppedBlocks
  THEN [hash \in DOMAIN counter \ {meta.hash} |-> counter[hash]]
  ELSE [hash \in DOMAIN counter \cup {meta.hash} |->
          IF hash = meta.hash
          THEN DroppedCount(counter, hash) + 1
          ELSE counter[hash]]
=============================================================================
