------------------------ MODULE TxStateManagerProofs ------------------------
(***************************************************************************)
(* What saving a record does to the store of one network, whatever the     *)
(* records of a coin hold: the record itself is written, old records may   *)
(* be retired, and nothing else changes.                                   *)
(***************************************************************************)
EXTENDS TxStateManager, FiniteSetTheorems, TLAPS

LEMMA RetireEffect ==
  ASSUME NEW S, NEW store \in [TxIds -> S \cup {NoTx}], NEW status, NEW maxNum
  PROVE  LET after == RetireTxByStatus(store, status, maxNum)
         IN  /\ after \in [TxIds -> S \cup {NoTx}]
             /\ \A id \in TxIds : after[id] \in {store[id], NoTx}
BY DEF RetireTxByStatus

LEMMA AddOrUpdateEffect ==
  ASSUME NEW S, NEW store \in [TxIds -> S \cup {NoTx}],
         NEW meta \in S, meta.id \in TxIds
  PROVE  /\ AddOrUpdateTx(store, meta) \in [TxIds -> S \cup {NoTx}]
         /\ \A id \in TxIds :
              AddOrUpdateTx(store, meta)[id] \in
                {NoTx, IF id = meta.id THEN meta ELSE store[id]}
<1> DEFINE stored == [store EXCEPT ![meta.id] = meta]
           first  == RetireTxByStatus(stored, "Confirmed", KMaxConfirmed)
           second == RetireTxByStatus(first, "Rejected", KMaxRejected)
<1>1. /\ stored \in [TxIds -> S \cup {NoTx}]
      /\ \A id \in TxIds :
           stored[id] = IF id = meta.id THEN meta ELSE store[id]
  OBVIOUS
<1> HIDE DEF stored
<1>2. /\ first \in [TxIds -> S \cup {NoTx}]
      /\ \A id \in TxIds : first[id] \in {stored[id], NoTx}
  BY <1>1, RetireEffect
<1> HIDE DEF first
<1>3. /\ second \in [TxIds -> S \cup {NoTx}]
      /\ \A id \in TxIds : second[id] \in {first[id], NoTx}
  BY <1>2, RetireEffect
<1> HIDE DEF second
<1>4. AddOrUpdateTx(store, meta) \in {stored, second}
  BY DEF AddOrUpdateTx, second, first, stored
<1> QED BY <1>1, <1>2, <1>3, <1>4

-----------------------------------------------------------------------------
(* Which record is retired.                                                *)

\* The records of S can be aged.
Aged(S) == NoTx \notin S /\ \A meta \in S : AgeStamp(meta) \in Nat

\* The record of id, retired for its status, leaves maxNum others behind, none
\* of them older.
RetiredFairly(store, after, id, status, maxNum) ==
  LET stay == IdsByStatus(after, {status})
  IN  /\ store[id].status = status
      /\ Cardinality(stay) >= maxNum
      /\ \A other \in stay : AgeStamp(store[id]) <= AgeStamp(after[other])

LEMMA RetireOldest ==
  ASSUME NEW S, Aged(S), NEW store \in [TxIds -> S \cup {NoTx}],
         NEW status, NEW maxNum \in Nat, NEW id \in TxIds, store[id] # NoTx,
         RetireTxByStatus(store, status, maxNum)[id] = NoTx
  PROVE  RetiredFairly(store, RetireTxByStatus(store, status, maxNum), id,
                       status, maxNum)
<1> DEFINE after == RetireTxByStatus(store, status, maxNum)
           ids   == IdsByStatus(store, {status})
           stay  == IdsByStatus(after, {status})
<1>1. Cardinality(ids) > maxNum
  BY DEF RetireTxByStatus
<1>2. \A other \in TxIds :
        after[other] = IF other \in ids /\ IsOldest(store, ids, other)
                       THEN NoTx ELSE store[other]
  BY <1>1 DEF RetireTxByStatus
<1>3. id \in ids /\ IsOldest(store, ids, id) /\ store[id].status = status
  BY <1>2 DEF IdsByStatus
<1>4. IsFiniteSet(ids) /\ ids \subseteq TxIds /\ TxIds \subseteq Nat
  BY TxIdsAssumption, FS_Subset DEF IdsByStatus
<1>5. \A other \in ids : AgeStamp(store[other]) \in Nat
  BY DEF Aged, IdsByStatus
<1>6. \A other \in ids : IsOldest(store, ids, other) => other = id
  BY <1>3, <1>4, <1>5 DEF IsOldest
<1>7. stay = ids \ {id}
  BY <1>2, <1>3, <1>4, <1>6 DEF IdsByStatus
<1>8. Cardinality(stay) >= maxNum
  <2> DEFINE before == Cardinality(ids)
             left   == Cardinality(ids \ {id})
  <2>1. left = before - 1 /\ before \in Nat
    BY <1>3, <1>4, FS_RemoveElement, FS_CardinalityType
  <2>2. before > maxNum
    BY <1>1
  <2>3. Cardinality(stay) = left
    BY <1>7
  <2> HIDE DEF before, left
  <2>4. left >= maxNum
    BY <2>1, <2>2
  <2> QED BY <2>3, <2>4
<1>9. \A other \in stay : AgeStamp(store[id]) <= AgeStamp(after[other])
  <2> SUFFICES ASSUME NEW other \in stay
               PROVE  AgeStamp(store[id]) <= AgeStamp(after[other])
    OBVIOUS
  <2>1. other \in ids /\ other \in TxIds /\ other # id
    BY <1>4, <1>7
  <2>2. after[other] = store[other]
    BY <1>2, <1>6, <2>1
  <2>3. AgeStamp(store[id]) \in Nat /\ AgeStamp(store[other]) \in Nat
    BY <1>3, <1>5, <2>1
  <2>4. \/ AgeStamp(store[id]) < AgeStamp(store[other])
        \/ AgeStamp(store[id]) = AgeStamp(store[other])
    BY <1>3, <2>1 DEF IsOldest
  <2> QED BY <2>2, <2>3, <2>4
<1> QED BY <1>3, <1>8, <1>9 DEF RetiredFairly

(***************************************************************************)
(* Saving a record (TxStateManager::AddOrUpdateTx) takes no record away    *)
(* but a confirmed or rejected one of which there are more than the limit, *)
(* and none that is left behind with the same status is older.             *)
(***************************************************************************)
THEOREM AddOrUpdateRetires ==
  ASSUME NEW S, Aged(S), NEW store \in [TxIds -> S \cup {NoTx}],
         NEW meta \in S, meta.id \in TxIds,
         NEW id \in TxIds, store[id] # NoTx,
         AddOrUpdateTx(store, meta)[id] = NoTx
  PROVE  LET after == AddOrUpdateTx(store, meta)
         IN  \/ RetiredFairly(store, after, id, "Confirmed", KMaxConfirmed)
             \/ RetiredFairly(store, after, id, "Rejected", KMaxRejected)
<1> DEFINE stored == [store EXCEPT ![meta.id] = meta]
           first  == RetireTxByStatus(stored, "Confirmed", KMaxConfirmed)
           second == RetireTxByStatus(first, "Rejected", KMaxRejected)
<1>1. /\ stored \in [TxIds -> S \cup {NoTx}]
      /\ \A other \in TxIds :
           stored[other] = IF other = meta.id THEN meta ELSE store[other]
  OBVIOUS
<1>2. stored[id] # NoTx
  BY <1>1 DEF Aged
<1>3. store[meta.id] = NoTx /\ AddOrUpdateTx(store, meta) = second
  BY <1>2 DEF AddOrUpdateTx
<1>4. stored[id] = store[id]
  BY <1>1, <1>3
<1> HIDE DEF stored
<1>5. /\ first \in [TxIds -> S \cup {NoTx}]
      /\ \A other \in TxIds : first[other] \in {stored[other], NoTx}
  BY <1>1, RetireEffect
<1>6. CASE first[id] = NoTx
  <2>1. RetiredFairly(stored, first, id, "Confirmed", KMaxConfirmed)
    BY <1>1, <1>2, <1>6, KMaxAssumption, RetireOldest
  <2> HIDE DEF first
  <2>0. first \in [TxIds -> S \cup {NoTx}]
    BY <1>5
  <2>2. \A other \in TxIds :
          first[other] = NoTx \/ first[other].status # "Rejected" =>
            second[other] = first[other]
    BY <2>0 DEF RetireTxByStatus, IdsByStatus
  <2>3. \A other \in TxIds : second[other] \in {first[other], NoTx}
    BY <1>5, RetireEffect
  <2> HIDE DEF second
  <2>4. \A other \in TxIds :
          second[other] # NoTx /\ second[other].status = "Confirmed" =>
            second[other] = first[other]
    BY <2>3
  <2>5. \A other \in TxIds :
          first[other] # NoTx /\ first[other].status = "Confirmed" =>
            second[other] = first[other]
    BY <2>2
  <2>6. IdsByStatus(second, {"Confirmed"}) = IdsByStatus(first, {"Confirmed"})
    BY <2>4, <2>5 DEF IdsByStatus
  <2>7. \A other \in IdsByStatus(first, {"Confirmed"}) :
          second[other] = first[other]
    BY <2>5 DEF IdsByStatus
  <2>8. RetiredFairly(store, second, id, "Confirmed", KMaxConfirmed)
    BY <1>4, <2>1, <2>6, <2>7 DEF RetiredFairly
  <2> QED BY <1>3, <2>8
<1>7. CASE first[id] # NoTx
  <2>1. first[id] = store[id]
    BY <1>4, <1>5, <1>7
  <2> HIDE DEF first
  <2>2. second[id] = NoTx
    BY <1>3
  <2>3. RetiredFairly(first, second, id, "Rejected", KMaxRejected)
    BY <1>5, <1>7, <2>2, KMaxAssumption, RetireOldest
  <2> HIDE DEF second
  <2>4. RetiredFairly(store, second, id, "Rejected", KMaxRejected)
    BY <2>1, <2>3 DEF RetiredFairly
  <2> QED BY <1>3, <2>4
<1> QED BY <1>6, <1>7
=============================================================================
