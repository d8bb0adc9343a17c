---------------------------- MODULE NonceTracker ----------------------------
(***************************************************************************)
(* How the wallet picks the nonce of the next Ethereum or Filecoin         *)
(* transaction (nonce_tracker.cc, eth_nonce_tracker.cc).  The operators    *)
(* are pure: the caller reads the transactions from the transaction store  *)
(* and hands their nonces over, the submitted ones as a sequence in the    *)
(* order of the dictionary, that is, by transaction id.                    *)
(***************************************************************************)
EXTENDS Naturals, Sequences, SequencesExt

MaxOf(a, b) == IF a >= b THEN a ELSE b

\* One more than the largest nonce of a locally confirmed transaction.
GetHighestLocallyConfirmed(nonces) ==
  FoldLeft(LAMBDA highest, n : MaxOf(highest, n + 1), 0, nonces)

\* Wrong passes: one that skips over holes, one that does not move on, and a
\* start that forgets what the wallet has seen confirmed.
SkipsHoles(nonces, start) ==
  FoldLeft(LAMBDA highest, n : IF n >= highest THEN n + 1 ELSE highest,
           start, nonces)

StaysPut(nonces, start) == start

\* One pass over the submitted transactions: a nonce equal to the candidate
\* moves the candidate on by one; the pass never returns to earlier entries.
GetHighestContinuousFrom(nonces, start) ==
  FoldLeft(LAMBDA highest, n : IF n = highest THEN highest + 1 ELSE highest,
           start, nonces)

NetworkNonceOnly(networkNonce, confirmed) == networkNonce

HighestConfirmed(networkNonce, confirmed) ==
  MaxOf(networkNonce, GetHighestLocallyConfirmed(confirmed))

GetFinalNonce(networkNonce, confirmed, submitted) ==
  MaxOf(networkNonce,
        GetHighestContinuousFrom(submitted,
                                 HighestConfirmed(networkNonce, confirmed)))
=============================================================================
