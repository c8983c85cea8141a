--------------------------- MODULE MCConfigStore ---------------------------
(* Calls and providers are interchangeable, the names that providers invent *)
(* going with them; no temporal property is checked with this symmetry.     *)
EXTENDS ConfigStore, TLC

Interchangeable == Permutations(Call) \cup Permutations(Provider)
============================================================================
