-------------------------- MODULE MCSolanaTxManager -------------------------
EXTENDS SolanaTxManagerProperties

MCSurroundings ==
  {{"Reject", "Fail"},
   {"RpcError", "HeightError", "OneId"},
   {"GivenBlockhash", "NoPreflight", "OneId"},
   {"Lock", "Restart", "Reject", "LateReject", "OneId"},
   {"SwitchNetwork", "OneId"},
   {"Reset", "OneId"},
   {"Hardware", "Lock", "Reset", "OneId"},
   {"Hardware", "Reject", "OneId"}}
=============================================================================
