--------------------------- MODULE MCCatalogPage ---------------------------
(* CatalogPage on small sets, for TLC. *)
EXTENDS CatalogPage, TLC

Symmetry == Permutations(Video)

\* The bound for faults: one connection that breaks, one event that is not published, or
\* one request that fails.
OneFault == spent.drops + spent.lost + spent.failures <= 1
=============================================================================
