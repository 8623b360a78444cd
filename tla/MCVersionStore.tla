--------------------------- MODULE MCVersionStore ---------------------------
(* TLC instance of VersionStore: interchangeable keys and values.          *)
EXTENDS Isolation, TLC

Symmetry == Permutations(Keys) \cup Permutations(Values)
=============================================================================
