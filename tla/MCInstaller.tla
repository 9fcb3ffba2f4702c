---------------------------- MODULE MCInstaller ----------------------------
(* Installer on small instances: the names mktemp gives and the boot ids are *)
(* interchangeable.                                                          *)
EXTENDS Installer, TLC

Symmetry == Permutations(Bootstraps) \cup Permutations(Boots)

=============================================================================
