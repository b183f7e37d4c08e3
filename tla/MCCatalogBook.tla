--------------------------- MODULE MCCatalogBook ---------------------------
(* CatalogBook on small instances. *)
EXTENDS CatalogStatusFeed, TLC

Symmetry == Permutations(EventIds) \cup Permutations(Commands)
             \cup Permutations(Books)
=============================================================================
