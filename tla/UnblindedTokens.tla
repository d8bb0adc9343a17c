-------------------------- MODULE UnblindedTokens ---------------------------
(***************************************************************************)
(* The table unblinded_tokens of the rewards database                      *)
(* (database_unblinded_token.cc).  A table is a function from Tokens, row  *)
(* numbers, to the contribution the row names in redeem_id and to whether  *)
(* reserved_at and redeemed_at are set.  Every token has the same value,   *)
(* so an amount is a number of tokens.  The operators are pure: what a     *)
(* statement selects from a table, or the table after it.                  *)
(***************************************************************************)
EXTENDS Naturals, FiniteSets

CONSTANTS Tokens,    \* row numbers; < is the order a SELECT returns them in
          NoOwner    \* redeem_id is empty

ASSUME TokensAssumption == Tokens \subseteq Nat /\ IsFiniteSet(Tokens)

FreshToken == [owner |-> NoOwner, reserved |-> FALSE, spent |-> FALSE]

\* The rows a payment may take: redeemed_at = 0, whoever has reserved them.
Spendable(table) == {t \in Tokens : ~table[t].spent}

UnspentOf(table, owner) ==
  {t \in Tokens : table[t].owner = owner /\ ~table[t].spent}

ReservedFor(table, owner) ==
  {t \in UnspentOf(table, owner) : table[t].reserved}

\* The loop that takes rows from a list until they are worth the amount.
TakeFirst(ids, amount) ==
  {t \in ids : Cardinality({u \in ids : u < t}) < amount}

\* All of the rows or none of them.
MarkRecordListAsReserved(table, ids, owner) ==
  IF \E t \in ids : table[t].reserved \/ table[t].spent
  THEN table
  ELSE [t \in Tokens |->
          IF t \in ids
          THEN [table[t] EXCEPT !.owner = owner, !.reserved = TRUE]
          ELSE table[t]]

\* The check that follows looks at reserved_at only.
AllReserved(table, ids) == \A t \in ids : table[t].reserved

MarkRecordListAsSpent(table, ids, owner) ==
  [t \in Tokens |->
     IF t \in ids
     THEN [table[t] EXCEPT !.owner = owner, !.spent = TRUE]
     ELSE table[t]]

\* The wrong way: forgetting that the row may have been redeemed.
ReleaseSpent(table, owner) ==
  [t \in Tokens |-> IF table[t].owner = owner THEN FreshToken ELSE table[t]]

MarkRecordListAsSpendable(table, owner) ==
  [t \in Tokens |->
     IF t \in UnspentOf(table, owner) THEN FreshToken ELSE table[t]]
=============================================================================
