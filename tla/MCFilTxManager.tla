--------------------------- MODULE MCFilTxManager ---------------------------
EXTENDS FilTxManagerProperties

\* Three transactions with nodes that lag and answers that get lost; two with
\* everything around them; one that is signed on a device.
MCSurroundings ==
  {{"Lag", "RpcError"},
   {"Reject", "Fail"},
   {"Lock", "Restart", "Reject", "LateReject", "Fail", "TwoIds"},
   {"Reset", "SwitchNetwork", "OneId"},
   {"Hardware", "GivenNonce", "RpcError", "Lock", "OneId"}}
=============================================================================
