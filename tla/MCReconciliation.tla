-------------------------- MODULE MCReconciliation --------------------------
(* TLC instance of Reconciliation: more payments than the sweep lists, and a *)
(* restart that may drop a provider.                                         *)
EXTENDS Reconciliation

CONSTANTS s1

CardOrBitcoin == [i \in Ids |-> IF i = 2 THEN {"bitcoin", "usdc-base"} ELSE {"card"}]
AllOrStripe == {Providers, {"stripe"}}

=============================================================================
