----------------------------- MODULE MCCatalogue -----------------------------
(* TLC instance of Catalogue.                                                *)
EXTENDS Catalogue, TLC

CONSTANTS logo, icon, o1, o2

\* Two names in either order, one name twice, none.
FourForms == {<<logo, icon>>, <<icon, logo>>, <<logo, logo>>, <<>>}

Symmetry == Permutations(Requests) \cup Permutations(Orders) \cup Permutations(Slugs)

=============================================================================
