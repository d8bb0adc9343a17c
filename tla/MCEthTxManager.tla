--------------------------- MODULE MCEthTxManager ---------------------------
(***************************************************************************)
(* Values for the model checker: environments of EthTxManager.             *)
(***************************************************************************)
EXTENDS EthTxManagerProperties

=============================================================================
