---------------------------- MODULE MCSettlement ----------------------------
(* TLC instance of Settlement.                                               *)
EXTENDS Settlement, TLC

CONSTANTS r1, r2, a1, a2

\* Refund requests are interchangeable, and so are acceptances.
Symmetry == Permutations(Refunds) \cup Permutations(Acceptances)

=============================================================================
