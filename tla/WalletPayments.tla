--------------------------- MODULE WalletPayments ---------------------------
(***************************************************************************)
(* What a wallet promises of its user's payments on one network, whatever  *)
(* happens to requests and records: a transaction reaches the network only *)
(* after the user consented to its contents, only what has reached the     *)
(* network is executed, and of all the versions of one payment (the        *)
(* original, its speedups, cancellations and retries) at most one is, once *)
(* and for all.                                                            *)
(***************************************************************************)
EXTENDS Naturals

CONSTANTS Payments,        \* payments the user may ask for
          Versions,        \* contents a transaction may have
          PaymentOf        \* version -> the payment it belongs to

VARIABLES consented,  \* versions the user has consented to
          offered,    \* versions the network has accepted
          executions  \* payment -> number of executions

pvars == <<consented, offered, executions>>

Init ==
  /\ consented = {}
  /\ offered = {}
  /\ executions = [p \in Payments |-> 0]

Consent(v) ==
  /\ consented' = consented \cup {v}
  /\ UNCHANGED <<offered, executions>>

Offer(v) ==
  /\ v \in consented
  /\ offered' = offered \cup {v}
  /\ UNCHANGED <<consented, executions>>

Execute(v) ==
  /\ v \in offered
  /\ executions[PaymentOf[v]] = 0
  /\ executions' = [executions EXCEPT ![PaymentOf[v]] = 1]
  /\ UNCHANGED <<consented, offered>>

Next == \E v \in Versions : Consent(v) \/ Offer(v) \/ Execute(v)

Spec == Init /\ [][Next]_pvars
=============================================================================
