--------------------------- MODULE TxStateManager ---------------------------
(***************************************************************************)
(* The transaction store of one network (tx_state_manager.cc): the         *)
(* dictionary kBraveWalletTransactions.<coin>.<network>, keyed by          *)
(* transaction id.  A store is a function from TxIds to a record (TxMeta)  *)
(* or NoTx; the operators are pure, the transaction managers decide which  *)
(* network's store they are applied to.                                    *)
(***************************************************************************)
EXTENDS Naturals, FiniteSets

CONSTANTS TxIds,          \* transaction ids; < is the dictionary's order
          NoTx,           \* no record under this id
          KMaxConfirmed,  \* kMaxConfirmedTxNum
          KMaxRejected    \* kMaxRejectedTxNum

ASSUME TxIdsAssumption == TxIds \subseteq Nat /\ IsFiniteSet(TxIds)
ASSUME KMaxAssumption == KMaxConfirmed \in Nat /\ KMaxRejected \in Nat

Status == {"Unapproved", "Approved", "Rejected", "Submitted", "Confirmed",
           "Error", "Signed"}

EmptyStore == [id \in TxIds |-> NoTx]

\* The ids GetTransactionsByStatus returns for any of the given statuses.
IdsByStatus(store, statuses) ==
  {id \in TxIds : store[id] # NoTx /\ store[id].status \in statuses}

\* The dictionary's order, in which GetTransactionsByStatus lists them.
InOrder(ids) ==
  CHOOSE s \in [1 .. Cardinality(ids) -> ids] :
    \A i, j \in DOMAIN s : i < j => s[i] < s[j]

DeleteTx(store, id) == [store EXCEPT ![id] = NoTx]

\* The time by which records of a status are aged.
AgeStamp(meta) ==
  IF meta.status = "Confirmed" THEN meta.confirmedTime ELSE meta.createdTime

IsOldest(store, ids, id) ==
  \A other \in ids :
     \/ AgeStamp(store[id]) < AgeStamp(store[other])
     \/ AgeStamp(store[id]) = AgeStamp(store[other]) /\ id <= other

\* The wrong way: one record too early.
RetireTxAtLimit(store, status, maxNum) ==
  LET ids == IdsByStatus(store, {status})
  IN  IF Cardinality(ids) >= maxNum
      THEN [id \in TxIds |->
              IF id \in ids /\ IsOldest(store, ids, id)
              THEN NoTx
              ELSE store[id]]
      ELSE store

\* Deletes at most one record, however far the count is over the limit.
RetireTxByStatus(store, status, maxNum) ==
  LET ids == IdsByStatus(store, {status})
  IN  IF Cardinality(ids) > maxNum
      THEN [id \in TxIds |->
              IF id \in ids /\ IsOldest(store, ids, id)
              THEN NoTx
              ELSE store[id]]
      ELSE store

\* Only a record that is new in this network's dictionary retires others.
AddOrUpdateTx(store, meta) ==
  LET stored == [store EXCEPT ![meta.id] = meta]
  IN  IF store[meta.id] # NoTx
      THEN stored
      ELSE RetireTxByStatus(
             RetireTxByStatus(stored, "Confirmed", KMaxConfirmed),
             "Rejected", KMaxRejected)
=============================================================================
