--------------------------- MODULE MCConfigurator ---------------------------
(* Configurator for TLC: the technicians are interchangeable. *)
EXTENDS Configurator, TLC

TechniciansSymmetry == Permutations(Technicians)
=============================================================================
