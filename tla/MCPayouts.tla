------------------------------ MODULE MCPayouts ------------------------------
(* TLC instances of Payouts: two confirmations and two payout requests, with *)
(* one wallet and four payouts, of which three are listed, or two wallets    *)
(* and one.                                                                  *)
EXTENDS Payouts, TLC

FourOrOne == <<4, 1>>

HandlerSymmetry == Permutations(Confirmers) \cup Permutations(Requests)

=============================================================================
