---------------------------- MODULE MCMarketplace ----------------------------
(* TLC instance of Marketplace.                                              *)
EXTENDS Marketplace, TLC

CONSTANTS basic, standard

\* A first price, a higher one without the add-on, and a package of another tier.
ThreeForms ==
  {[tiers |-> {basic}, price |-> 10, addon |-> TRUE],
   [tiers |-> {basic}, price |-> 20, addon |-> FALSE],
   [tiers |-> {standard}, price |-> 10, addon |-> TRUE]}

\* The handlers of a kind differ in nothing but their names.
Symmetry == Permutations(Edits) \cup Permutations(Requests)

=============================================================================
