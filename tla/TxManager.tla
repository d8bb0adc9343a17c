----------------------------- MODULE TxManager ------------------------------
(***************************************************************************)
(* What the transaction managers of every coin share (tx_manager.cc): when *)
(* the block tracker's timer runs, and what the keyring's notifications    *)
(* make a manager do.  Notifications travel over a mojo pipe, so a manager *)
(* handles them some time after the keyring changed, and reads IsLocked    *)
(* when it does.                                                           *)
(***************************************************************************)

\* The wrong way round: stopping unless nothing is pending.
StopsWhilePending(isLocked, isRunning, knownNoPendingTx) ==
  IF ~isLocked /\ ~isRunning
  THEN TRUE
  ELSE isRunning /\ ~isLocked /\ knownNoPendingTx

\* Whether the block tracker runs after CheckIfBlockTrackerShouldRun.
CheckIfBlockTrackerShouldRun(isLocked, isRunning, knownNoPendingTx) ==
  IF ~isLocked /\ ~isRunning
  THEN TRUE
  ELSE isRunning /\ ~isLocked /\ ~knownNoPendingTx

KeyringNotices == {"Locked", "Unlocked", "KeyringCreated", "KeyringReset"}

\* The notices on which a manager looks at the block tracker first.
ChecksTracker(notice) == notice \in {"Locked", "Unlocked"}

\* The notices on which a manager updates its pending transactions.
UpdatesPending(notice) ==
  notice \in {"Unlocked", "KeyringCreated", "KeyringReset"}
=============================================================================
