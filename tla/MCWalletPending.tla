-------------------------- MODULE MCWalletPending --------------------------
(* Transactions for the runs of WalletPending: one that leaves the wallet  *)
(* and one from an address of the wallet to itself.                        *)
EXTENDS WalletPending

CONSTANTS a1, outsider, leaving, inside

Senders   == [tx \in Tx |-> a1]
Receivers == [tx \in Tx |-> IF tx = leaving THEN outsider ELSE a1]
=============================================================================
