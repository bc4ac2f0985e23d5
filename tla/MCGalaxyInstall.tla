--------------------------- MODULE MCGalaxyInstall ---------------------------
(* Instances of GalaxyInstall for TLC. *)
EXTENDS GalaxyInstall, TLC

Symmetry == Permutations(Jobs) \union Permutations(Admins)
=============================================================================
